----------------------------- MODULE TextProofs -----------------------------
(* What the passes over a book's text guarantee, proved for books and limits   *)
(* of any size: the chunks lose no word, cut no sentence and respect the hard  *)
(* ceiling; their page offsets know the page of every word, and every page of  *)
(* a stretch of the book gets its printed number.  The printed numbers of a    *)
(* well read book are imputed rightly and accepted by the validator.           *)
EXTENDS Chunker, PageNumbers, SequenceTheorems, FiniteSetTheorems, WellFoundedInduction, TLAPS

-----------------------------------------------------------------------------
(* The least and the greatest element of a set of numbers. *)

\* Every inhabited set of natural numbers has a least element, which Min finds.
LEMMA MinOf ==
    ASSUME NEW S \in SUBSET Nat, S # {}
    PROVE  Min(S) \in S /\ \A y \in S : Min(S) <= y
<1>1. PICK x \in S : \A y \in S : ~ (<<y, x>> \in OpToRel(<, Nat))
  BY NatLessThanWellFounded, WFMin, Zenon
<1>2. \A y \in S : x <= y
  <2> SUFFICES ASSUME NEW y \in S, ~(x <= y) PROVE FALSE
    OBVIOUS
  <2>1. y < x /\ x \in Nat /\ y \in Nat
    OBVIOUS
  <2>2. <<y, x>> \in OpToRel(<, Nat)
    BY <2>1, Zenon DEF OpToRel
  <2> QED BY <1>1, <2>2
<1> QED BY <1>2 DEF Min

\* A bounded one has a greatest element, which Max finds.
LEMMA MaxOf ==
    ASSUME NEW S \in SUBSET Nat, S # {}, NEW top \in Nat, \A x \in S : x <= top
    PROVE  Max(S) \in S /\ \A y \in S : Max(S) >= y
<1>1. {top - x : x \in S} \in SUBSET Nat /\ {top - x : x \in S} # {}
  <2>1. \A x \in S : top - x \in Nat
    OBVIOUS
  <2> QED BY <2>1
<1>2. PICK m \in {top - x : x \in S} : \A y \in {top - x : x \in S} : m <= y
  BY <1>1, MinOf
<1>3. PICK x \in S : m = top - x
  OBVIOUS
<1>4. \A y \in S : x >= y
  <2> TAKE y \in S
  <2>1. m <= top - y
    BY <1>2
  <2> QED BY <1>3, <2>1
<1> QED BY <1>4 DEF Max

-----------------------------------------------------------------------------
(* Sequences of passages, a passage being a sequence of words. *)
InSome(w, cs) == \E n \in 1..Len(cs) : \E k \in 1..Len(cs[n]) : cs[n][k] = w
Ascend(cs) == \A n \in 2..Len(cs) : cs[n - 1][1] < cs[n][1]
Straight(c) == \A k \in 1..Len(c) : c[k] = c[1] + k - 1
LastOf(cs) == cs[Len(cs)]

\* The passages are inhabited, of words up to the last, and in the text's order.
InOrder(cs, last) ==
    /\ cs \in Seq(Seq(1..last))
    /\ \A n \in 1..Len(cs) : Len(cs[n]) > 0
    /\ Ascend(cs)

\* All but the last element.
LEMMA FrontIs ==
    ASSUME NEW S, NEW s \in Seq(S), Len(s) \in Nat \ {0}
    PROVE  /\ Front(s) \in Seq(S) /\ Len(Front(s)) = Len(s) - 1
           /\ \A n \in 1..(Len(s) - 1) : Front(s)[n] = s[n]
<1>1. PICK m \in Nat : m = Len(s) - 1
  OBVIOUS
<1>2. \A n \in 1..m : s[n] \in S
  BY <1>1, ElementOfSeq
<1>3. /\ SubSeq(s, 1, m) \in Seq(S)
      /\ Len(SubSeq(s, 1, m)) = IF 1 <= m THEN m - 1 + 1 ELSE 0
      /\ \A n \in 1..(m - 1 + 1) : SubSeq(s, 1, m)[n] = s[1 + n - 1]
  BY <1>2, SubSeqProperties
<1>4. m - 1 + 1 = m /\ (1 <= m \/ m = 0) /\ \A n \in 1..m : 1 + n - 1 = n
  BY <1>1
<1>5. Len(SubSeq(s, 1, m)) = m
  BY <1>3, <1>4
<1>6. \A n \in 1..m : SubSeq(s, 1, m)[n] = s[n]
  BY <1>3, <1>4
<1>7. Front(s) = SubSeq(s, 1, m)
  BY <1>1 DEF Front
<1> QED BY <1>1, <1>3, <1>5, <1>6, <1>7

\* A passage that begins after the last one may be appended.
LEMMA AppendInOrder ==
    ASSUME NEW last \in Nat, NEW cs, InOrder(cs, last),
           NEW c \in Seq(1..last), Len(c) > 0,
           cs # <<>> => LastOf(cs)[1] < c[1]
    PROVE  /\ InOrder(Append(cs, c), last)
           /\ Len(Append(cs, c)) = Len(cs) + 1
           /\ \A n \in 1..Len(cs) : Append(cs, c)[n] = cs[n]
           /\ Append(cs, c)[Len(cs) + 1] = c
           /\ LastOf(Append(cs, c)) = c
<1> DEFINE S == Seq(1..last)
<1> DEFINE new == Append(cs, c)
<1>1. /\ cs \in Seq(S) /\ Len(cs) \in Nat /\ c \in S
      /\ \A n \in 1..Len(cs) : Len(cs[n]) > 0
      /\ \A n \in 2..Len(cs) : cs[n - 1][1] < cs[n][1]
  BY LenProperties DEF InOrder, Ascend
<1>2. /\ new \in Seq(S) /\ Len(new) = Len(cs) + 1
      /\ \A n \in 1..Len(cs) : new[n] = cs[n]
      /\ new[Len(cs) + 1] = c
  BY <1>1, AppendProperties
<1> HIDE DEF new, S
<1>3. Len(cs) > 0 => cs[Len(cs)][1] < c[1]
  BY <1>1, EmptySeq DEF LastOf
<1>4. \A n \in 1..Len(new) : Len(new[n]) > 0
  <2> TAKE n \in 1..Len(new)
  <2>1. n \in 1..Len(cs) \/ n = Len(cs) + 1
    BY <1>1, <1>2
  <2> QED BY <1>1, <1>2, <2>1
<1>5. \A n \in 2..Len(new) : new[n - 1][1] < new[n][1]
  <2> TAKE n \in 2..Len(new)
  <2>1. CASE n <= Len(cs)
    <3>1. n \in 1..Len(cs) /\ n - 1 \in 1..Len(cs) /\ n \in 2..Len(cs)
      BY <1>1, <2>1
    <3> QED BY <1>1, <1>2, <3>1
  <2>2. CASE n = Len(cs) + 1
    <3>1. Len(cs) > 0 /\ Len(cs) \in 1..Len(cs) /\ n - 1 = Len(cs)
      BY <1>1, <2>2
    <3>2. new[n] = c /\ new[n - 1] = cs[Len(cs)]
      BY <1>2, <2>2, <3>1
    <3> QED BY <3>1, <3>2, <1>3
  <2> QED BY <1>1, <1>2, <2>1, <2>2
<1> QED BY <1>1, <1>2, <1>4, <1>5 DEF InOrder, Ascend, LastOf, new, S

\* What is in some passage stays there, and the words of the new one join it.
LEMMA AppendHolds ==
    ASSUME NEW cs, NEW c, Len(cs) \in Nat,
           Len(Append(cs, c)) = Len(cs) + 1,
           \A n \in 1..Len(cs) : Append(cs, c)[n] = cs[n],
           Append(cs, c)[Len(cs) + 1] = c
    PROVE  /\ \A w : InSome(w, cs) => InSome(w, Append(cs, c))
           /\ \A k \in 1..Len(c) : InSome(c[k], Append(cs, c))
<1> DEFINE new == Append(cs, c)
<1>1. Len(new) = Len(cs) + 1 /\ \A n \in 1..Len(cs) : new[n] = cs[n]
  OBVIOUS
<1>2. new[Len(cs) + 1] = c
  OBVIOUS
<1> HIDE DEF new
<1>3. ASSUME NEW w, InSome(w, cs) PROVE InSome(w, new)
  <2>1. PICK n \in 1..Len(cs) : \E k \in 1..Len(cs[n]) : cs[n][k] = w
    BY <1>3 DEF InSome
  <2>2. n \in 1..Len(new) /\ new[n] = cs[n]
    BY <1>1
  <2> QED BY <2>1, <2>2 DEF InSome
<1>4. ASSUME NEW k \in 1..Len(c) PROVE InSome(c[k], new)
  <2>1. Len(cs) + 1 \in 1..Len(new)
    BY <1>1
  <2> QED BY <2>1, <1>2 DEF InSome
<1> QED BY <1>3, <1>4 DEF new

\* The last of the passages is lengthened by another one.
Lengthened(new, cs, c) ==
    /\ Len(new) = Len(cs)
    /\ \A n \in 1..(Len(cs) - 1) : new[n] = cs[n]
    /\ new[Len(cs)] = LastOf(cs) \o c
    /\ Len(LastOf(cs) \o c) = Len(LastOf(cs)) + Len(c)
    /\ LastOf(new)[1] = LastOf(cs)[1]
    /\ Last(LastOf(new)) = Last(c)
    /\ \A w : InSome(w, cs) => InSome(w, new)
    /\ \A k \in 1..Len(c) : InSome(c[k], new)

\* That keeps the order and loses no word.
LEMMA JoinInOrder ==
    ASSUME NEW last \in Nat, NEW cs, InOrder(cs, last), cs # <<>>,
           NEW c \in Seq(1..last), Len(c) > 0,
           NEW new, new = Append(Front(cs), Last(cs) \o c)
    PROVE  InOrder(new, last) /\ Lengthened(new, cs, c)
<1> DEFINE S == Seq(1..last)
<1> DEFINE long == Last(cs) \o c
<1>1. /\ cs \in Seq(S) /\ Len(cs) \in Nat \ {0} /\ c \in S
      /\ \A n \in 1..Len(cs) : Len(cs[n]) > 0
      /\ \A n \in 2..Len(cs) : cs[n - 1][1] < cs[n][1]
  BY LenProperties, EmptySeq DEF InOrder, Ascend
<1>2. /\ Last(cs) \in S /\ Last(cs) = LastOf(cs) /\ Len(Last(cs)) \in Nat \ {0}
  <2>1. cs[Len(cs)] \in S /\ Len(cs[Len(cs)]) > 0
    BY <1>1, ElementOfSeq
  <2>2. Len(cs[Len(cs)]) \in Nat
    BY <2>1, LenProperties
  <2> QED BY <2>1, <2>2 DEF Last, LastOf
<1>3. Len(c) \in Nat \ {0}
  BY LenProperties
<1>4. /\ long \in S /\ Len(long) = Len(Last(cs)) + Len(c)
      /\ \A k \in 1..(Len(Last(cs)) + Len(c)) :
            long[k] = IF k <= Len(Last(cs)) THEN Last(cs)[k] ELSE c[k - Len(Last(cs))]
  BY <1>2, ConcatProperties
<1>5. /\ Front(cs) \in Seq(S) /\ Len(Front(cs)) = Len(cs) - 1
      /\ \A n \in 1..(Len(cs) - 1) : Front(cs)[n] = cs[n]
  BY <1>1, FrontIs
<1>6. /\ new \in Seq(S) /\ Len(new) = Len(cs)
      /\ \A n \in 1..(Len(cs) - 1) : new[n] = cs[n]
      /\ new[Len(cs)] = long
  <2>1. /\ new \in Seq(S) /\ Len(new) = Len(Front(cs)) + 1
        /\ \A n \in 1..Len(Front(cs)) : new[n] = Front(cs)[n]
        /\ new[Len(Front(cs)) + 1] = long
    BY <1>4, <1>5, AppendProperties DEF long
  <2> QED BY <1>1, <1>5, <2>1
<1> HIDE DEF S, long
<1>7. long[1] = Last(cs)[1] /\ Len(long) > 0
  <2>1. /\ 1 \in 1..(Len(Last(cs)) + Len(c)) /\ 1 <= Len(Last(cs))
        /\ Len(Last(cs)) + Len(c) > 0
    BY <1>2, <1>3
  <2> QED BY <1>4, <2>1
<1>8. \A n \in 1..Len(new) : Len(new[n]) > 0
  <2> TAKE n \in 1..Len(new)
  <2>1. n \in 1..(Len(cs) - 1) \/ n = Len(cs)
    BY <1>1, <1>6
  <2>2. n \in 1..Len(cs)
    BY <1>6
  <2> QED BY <1>1, <1>6, <1>7, <2>1, <2>2
<1>9. \A n \in 1..Len(cs) : new[n][1] = cs[n][1]
  <2> TAKE n \in 1..Len(cs)
  <2>1. n = Len(cs) \/ n \in 1..(Len(cs) - 1)
    BY <1>1
  <2> QED BY <2>1, <1>6, <1>7, <1>2 DEF LastOf
<1>10. \A n \in 2..Len(new) : new[n - 1][1] < new[n][1]
  BY <1>1, <1>6, <1>9, SMTT(30)
<1>11. Last(LastOf(new)) = Last(c)
  <2>1. LastOf(new) = long
    BY <1>6 DEF LastOf
  <2>2. long[Len(long)] = c[Len(c)]
    <3>1. /\ Len(long) \in 1..(Len(Last(cs)) + Len(c))
          /\ ~(Len(long) <= Len(Last(cs))) /\ Len(long) - Len(Last(cs)) = Len(c)
      BY <1>2, <1>3, <1>4
    <3> QED BY <1>4, <3>1
  <2> QED BY <2>1, <2>2 DEF Last
<1>12. ASSUME NEW w, InSome(w, cs) PROVE InSome(w, new)
  <2>1. PICK n \in 1..Len(cs) : \E k \in 1..Len(cs[n]) : cs[n][k] = w
    BY <1>12 DEF InSome
  <2>2. CASE n < Len(cs)
    <3>1. n \in 1..Len(new) /\ new[n] = cs[n]
      <4>1. n \in 1..(Len(cs) - 1)
        BY <2>2, <1>1
      <4> QED BY <1>6, <4>1
    <3> QED BY <2>1, <3>1 DEF InSome
  <2>3. CASE n = Len(cs)
    <3>1. PICK k \in 1..Len(Last(cs)) : Last(cs)[k] = w
      BY <2>1, <2>3, <1>2 DEF LastOf
    <3>2. k \in 1..Len(long) /\ long[k] = w
      <4>1. k \in 1..(Len(Last(cs)) + Len(c)) /\ k <= Len(Last(cs))
        BY <1>2, <1>3
      <4> QED BY <3>1, <1>4, <4>1
    <3>3. Len(cs) \in 1..Len(new) /\ new[Len(cs)] = long
      BY <1>1, <1>6
    <3> QED BY <3>2, <3>3 DEF InSome
  <2> QED BY <2>2, <2>3, <1>1
<1>13. ASSUME NEW k \in 1..Len(c) PROVE InSome(c[k], new)
  <2>1. Len(Last(cs)) + k \in 1..Len(long) /\ long[Len(Last(cs)) + k] = c[k]
    <3>1. /\ Len(Last(cs)) + k \in 1..(Len(Last(cs)) + Len(c))
          /\ ~(Len(Last(cs)) + k <= Len(Last(cs)))
          /\ Len(Last(cs)) + k - Len(Last(cs)) = k
      BY <1>2, <1>3
    <3> QED BY <1>4, <3>1
  <2>2. Len(cs) \in 1..Len(new) /\ new[Len(cs)] = long
    BY <1>1, <1>6
  <2> QED BY <2>1, <2>2 DEF InSome
<1>14. InOrder(new, last)
  BY <1>6, <1>8, <1>10 DEF InOrder, Ascend, S
<1>15. LastOf(new)[1] = LastOf(cs)[1] /\ new[Len(cs)] = LastOf(cs) \o c
  BY <1>2, <1>6, <1>7 DEF LastOf, long
<1>16. Len(LastOf(cs) \o c) = Len(LastOf(cs)) + Len(c)
  BY <1>2, <1>4 DEF long
<1> QED BY <1>6, <1>11, <1>12, <1>13, <1>14, <1>15, <1>16 DEF long, Lengthened

\* A span of the text is a passage.
LEMMA SpanIs ==
    ASSUME NEW last \in Nat, NEW from \in 1..last, NEW to \in from..last
    PROVE  /\ Span(from, to) \in Seq(1..last)
           /\ Len(Span(from, to)) = to - from + 1
           /\ \A k \in 1..(to - from + 1) : Span(from, to)[k] = from + k - 1
<1>1. Span(from, to) \in [1..(to - from + 1) -> 1..last]
  BY DEF Span
<1>2. Span(from, to) \in Seq(1..last)
  BY <1>1, SeqDef
<1>3. Len(Span(from, to)) = to - from + 1
  <2>1. DOMAIN Span(from, to) = 1..(to - from + 1)
    BY DEF Span
  <2> QED BY <1>2, <2>1, LenProperties
<1> QED BY <1>2, <1>3 DEF Span

-----------------------------------------------------------------------------
(* Where a unit of text ends, and where the next chunk begins. *)
TextOK ==
    /\ Len(words) \in Nat /\ DOMAIN words = 1..Len(words)
    /\ bounds \subseteq 1..(Len(words) + 1) /\ Len(words) + 1 \in bounds
    /\ Len(words) > 0 => 1 \in bounds

\* A unit of text starts at a word or past the last one.
LEMMA BoundIs ==
    ASSUME TextOK
    PROVE  /\ Len(words) \in Nat /\ Len(words) + 1 \in bounds
           /\ \A b \in bounds : b \in Nat /\ 1 <= b /\ b <= Len(words) + 1
<1>1. PICK last \in Nat : last = Len(words)
  BY DEF TextOK
<1>2. bounds \subseteq 1..(last + 1)
  BY <1>1 DEF TextOK
<1>3. \A b \in bounds : b \in 1..(last + 1)
  BY <1>2
<1> QED BY <1>1, <1>3 DEF TextOK

\* The next bound after a word of the text.
LEMMA AfterIs ==
    ASSUME TextOK, NEW k \in 1..Len(words)
    PROVE  /\ After(k) \in bounds /\ After(k) \in (k + 1)..(Len(words) + 1)
           /\ \A b \in bounds : b > k => After(k) <= b
<1> DEFINE later == {b \in bounds : b > k}
<1>1. later \in SUBSET Nat
  BY BoundIs
<1>2. later # {}
  BY <1>1, BoundIs
<1>3. Min(later) \in later /\ \A y \in later : Min(later) <= y
  <2> HIDE DEF later
  <2> QED BY <1>1, <1>2, MinOf
<1>4. After(k) = Min(later)
  BY DEF After
<1> QED BY <1>3, <1>4, BoundIs

\* The last bound before a position that some bound precedes.
LEMMA BeforeIs ==
    ASSUME TextOK, NEW k \in 1..(Len(words) + 1), NEW b \in bounds, b < k
    PROVE  Before(k) \in bounds /\ Before(k) < k
<1> DEFINE earlier == {a \in bounds : a < k}
<1>1. earlier \in SUBSET Nat
  BY BoundIs
<1>2. b \in earlier /\ \A a \in earlier : a <= k
  BY <1>1, BoundIs
<1>3. k \in Nat
  BY BoundIs
<1>4. Max(earlier) \in earlier
  <2> HIDE DEF earlier
  <2> QED BY <1>1, <1>2, <1>3, MaxOf
<1>5. Before(k) = Max(earlier)
  BY DEF Before
<1> QED BY <1>4, <1>5

\* A run of paragraphs that begins with one that fits is inhabited and fits.
LEMMA ReachIs ==
    ASSUME TextOK, ChunkerAssumption, i \in 1..Len(words), After(i) - i <= TARGET_MAX
    PROVE  /\ Reach \in bounds /\ Reach \in (i + 1)..(Len(words) + 1)
           /\ Reach - i <= TARGET_MAX
<1> DEFINE fit == {b \in bounds : b > i /\ b - i <= TARGET_MAX}
<1>1. fit \in SUBSET Nat
  BY BoundIs
<1>2. After(i) \in fit
  BY AfterIs, BoundIs
<1>3. \A b \in fit : b <= Len(words) + 1
  BY <1>1, BoundIs
<1>4. Len(words) + 1 \in Nat
  BY BoundIs
<1>5. Max(fit) \in fit
  <2> HIDE DEF fit
  <2> QED BY <1>1, <1>2, <1>3, <1>4, MaxOf
<1>6. Reach = Max(fit)
  BY DEF Reach
<1> QED BY <1>3, <1>5, <1>6, BoundIs

\* The overlap begins inside the chunk, after its first paragraph.
LEMMA OverlapIs ==
    ASSUME TextOK, i \in 1..Len(words), i \in bounds,
           NEW end \in bounds, end > i
    PROVE  OverlapStart(end) \in bounds /\ OverlapStart(end) \in (i + 1)..end
<1> DEFINE far == {b \in bounds : i < b /\ b < end /\ end - b >= OVERLAP_BUDGET}
<1>1. far \in SUBSET Nat
  BY BoundIs
<1>2. After(i) \in bounds /\ After(i) \in (i + 1)..end
  BY AfterIs, BoundIs
<1>3. CASE far = {}
  <2>1. OverlapStart(end) = After(i)
    BY <1>3 DEF OverlapStart
  <2> QED BY <1>2, <2>1
<1>4. CASE far # {}
  <2>1. \A b \in far : b <= end
    BY BoundIs
  <2>2. end \in Nat
    BY BoundIs
  <2>3. PICK m \in far : m = Max(far)
    <3> HIDE DEF far
    <3> QED BY <1>1, <1>4, <2>1, <2>2, MaxOf
  <2>4. m \in 1..(Len(words) + 1) /\ i < m /\ m < end
    BY BoundIs
  <2>5. Before(m) \in bounds /\ Before(m) < m
    BY <2>4, BeforeIs
  <2>6. PICK a \in bounds, p \in bounds : a = After(i) /\ p = Before(m)
    BY <1>2, <2>5
  <2>7. a \in Nat /\ p \in Nat /\ i < a /\ a <= end /\ p <= end
    BY <1>2, <2>2, <2>4, <2>5, <2>6, BoundIs
  <2>8. Max({a, p}) \in {a, p} /\ \A b \in {a, p} : Max({a, p}) >= b
    BY <2>2, <2>7, MaxOf
  <2>9. OverlapStart(end) = Max({a, p})
    BY <1>4, <2>3, <2>6 DEF OverlapStart
  <2>10. Max({a, p}) >= a /\ Max({a, p}) <= end
    BY <2>7, <2>8
  <2> QED BY <2>2, <2>6, <2>7, <2>8, <2>9, <2>10, BoundIs
<1> QED BY <1>3, <1>4

\* The books lay out their words in sequence.
LEMMA WordsCounted ==
    ASSUME ChunkerAssumption, NEW lines \in Books, NEW l \in 0..Len(lines)
    PROVE  UpTo(lines, l) \in Nat
<1>1. PICK n \in 0..MaxLines : lines \in [1..n -> Line]
  BY DEF Books, SeqOf
<1>2. Len(lines) = n
  BY <1>1
<1>3. \A m \in 1..n : lines[m].size \in Int
  <2> TAKE m \in 1..n
  <2>1. lines[m] \in Line
    BY <1>1
  <2>2. lines[m].size \in LineSizes
    BY <2>1 DEF Line
  <2>3. lines[m].size \in Nat
    <3>1. \A x \in LineSizes : x \in Nat
      BY DEF ChunkerAssumption
    <3> QED BY <2>2, <3>1, Zenon
  <2> QED BY <2>3
<1> DEFINE f == [m \in 1..l |-> {m} \X (1..lines[m].size)]
<1> DEFINE Rows == {{m} \X (1..lines[m].size) : m \in 1..l}
<1>4. f \in Surjection(1..l, Rows)
  <2>1. f \in [1..l -> Rows]
    OBVIOUS
  <2>2. \A r \in Rows : \E m \in 1..l : f[m] = r
    OBVIOUS
  <2> QED BY <2>1, <2>2 DEF Surjection
<1>5. IsFiniteSet(1..l)
  BY <1>1, <1>2, FS_Interval DEF ChunkerAssumption
<1>6. IsFiniteSet(Rows)
  <2> HIDE DEF f, Rows
  <2> QED BY <1>4, <1>5, FS_Surjection
<1>7. \A r \in Rows : IsFiniteSet(r)
  <2> SUFFICES ASSUME NEW m \in 1..l PROVE IsFiniteSet({m} \X (1..lines[m].size))
    OBVIOUS
  <2>1. lines[m].size \in Int
    BY <1>2, <1>3
  <2>2. IsFiniteSet(1..lines[m].size)
    BY <2>1, 1 \in Int, FS_Interval, Zenon
  <2>3. IsFiniteSet({m})
    BY FS_Singleton
  <2> QED BY <2>2, <2>3, FS_Product, Zenon
<1>8. IsFiniteSet(UNION Rows)
  <2> HIDE DEF Rows
  <2> QED BY <1>6, <1>7, FS_UNION
<1>9. UpTo(lines, l) = Cardinality(UNION Rows)
  BY DEF UpTo
<1> HIDE DEF Rows
<1> QED BY <1>8, <1>9, FS_CardinalityType

\* The words of a book are a sequence.
LEMMA FlattenIs ==
    ASSUME ChunkerAssumption, NEW lines \in Books
    PROVE  Len(Flatten(lines)) \in Nat /\ DOMAIN Flatten(lines) = 1..Len(Flatten(lines))
<1>1. PICK n \in 0..MaxLines : lines \in [1..n -> Line]
  BY DEF Books, SeqOf
<1>2. Len(lines) = n /\ n \in Nat
  BY <1>1 DEF ChunkerAssumption
<1>3. PICK top \in Nat : top = UpTo(lines, Len(lines))
  BY <1>2, WordsCounted
<1>4. [l \in 0..Len(lines) |-> UpTo(lines, l)][Len(lines)] = top
  BY <1>2, <1>3
<1>5. DOMAIN Flatten(lines) = 1..top
  BY <1>4 DEF Flatten
<1>6. PICK f : f = Flatten(lines) /\ DOMAIN f = 1..top /\ f = [k \in 1..top |-> f[k]]
  BY <1>4, <1>5 DEF Flatten
<1>7. f \in [1..top -> {f[k] : k \in 1..top}]
  BY <1>6
<1>8. f \in Seq({f[k] : k \in 1..top})
  BY <1>7, SeqDef
<1>9. Len(f) \in Nat /\ DOMAIN f = 1..Len(f)
  BY <1>8, LenProperties
<1> QED BY <1>6, <1>9

-----------------------------------------------------------------------------
(* The inductive invariant. *)

\* The chunks, in any phase: a chunk that may be longer than the hard ceiling is
\* not overlapped by the next.
ChunksOK ==
    /\ InOrder(chunks, Len(words))
    /\ \A n \in 1..Len(chunks) :
         /\ Straight(chunks[n])
         /\ strategy = "paragraphs" =>
              Clean(chunks[n][1]) /\ Clean(Last(chunks[n]) + 1)
         /\ n > 1 /\ Len(chunks[n - 1]) > TARGET_MAX =>
              Last(chunks[n - 1]) < chunks[n][1]

\* While units become chunks, all words before the next chunk are in some chunk.
SplitOK ==
    pc \in {"split", "cut"} =>
        /\ i \in 1..(Len(words) + 1) /\ Clean(i)
        /\ pc = "split" => i \in bounds
        /\ pc = "cut" => i <= Len(words)
        /\ \A w \in 1..(i - 1) : InSome(w, chunks)
        /\ chunks # <<>> =>
             /\ LastOf(chunks)[1] < i
             /\ Len(LastOf(chunks)) > TARGET_MAX => Last(LastOf(chunks)) < i
        /\ pieces = <<>> /\ start = 0

\* The pieces, in any phase: only the hard ceiling cuts a sentence.
PiecesOK ==
    /\ InOrder(pieces, Len(words))
    /\ \A n \in 1..Len(pieces) :
         /\ Len(pieces[n]) <= HARD_CEILING
         /\ strategy = "paragraphs" =>
              /\ \/ Clean(pieces[n][1])
                 \/ n > 1 /\ Len(pieces[n - 1]) = HARD_CEILING
              /\ Clean(Last(pieces[n]) + 1) \/ Len(pieces[n]) = HARD_CEILING

\* While the ceiling is enforced, what has been dealt with is in some piece.
CeilingOK ==
    pc = "ceiling" =>
        /\ i \in 1..(Len(chunks) + 1)
        /\ \A w \in 1..Len(words) : InSome(w, chunks)
        /\ start \in Nat
        /\ start > 0 =>
             /\ i <= Len(chunks) /\ HARD_CEILING <= start /\ start < Len(chunks[i])
             /\ pieces # <<>> /\ Len(LastOf(pieces)) = HARD_CEILING
        /\ \A n \in 1..(i - 1) : \A k \in 1..Len(chunks[n]) : InSome(chunks[n][k], pieces)
        /\ \A k \in 1..start : InSome(chunks[i][k], pieces)
        /\ pieces # <<>> /\ i <= Len(chunks) => LastOf(pieces)[1] < chunks[i][start + 1]

\* While pieces are merged, the last merged one is as long as the last piece if
\* the ceiling has cut that.
MergeOK ==
    /\ pc \in {"merge", "done"} =>
        /\ i \in 1..(Len(pieces) + 1)
        /\ pc = "done" => i > Len(pieces)
        /\ \A w \in 1..Len(words) : InSome(w, pieces)
        /\ \A n \in 1..(i - 1) : \A k \in 1..Len(pieces[n]) : InSome(pieces[n][k], merged)
        /\ i > 1 =>
             /\ merged # <<>> /\ LastOf(merged)[1] <= pieces[i - 1][1]
             /\ Len(pieces[i - 1]) = HARD_CEILING => Len(LastOf(merged)) = HARD_CEILING
    /\ i = 1 \/ pc \notin {"merge", "done"} => merged = <<>>

MergedOK ==
    /\ InOrder(merged, Len(words))
    /\ \A n \in 1..Len(merged) :
         /\ Len(merged[n]) <= HARD_CEILING
         /\ strategy = "paragraphs" =>
              /\ \/ Clean(merged[n][1])
                 \/ n > 1 /\ Len(merged[n - 1]) = HARD_CEILING
              /\ Clean(Last(merged[n]) + 1) \/ Len(merged[n]) = HARD_CEILING

ChunkerInv ==
    /\ TextOK /\ pc \in {"split", "cut", "ceiling", "merge", "done"}
    /\ ChunksOK /\ SplitOK /\ PiecesOK /\ CeilingOK /\ MergeOK /\ MergedOK

\* No passages are in order.
LEMMA NoneInOrder ==
    ASSUME NEW last \in Nat
    PROVE  InOrder(<<>>, last) /\ Len(<<>>) = 0
<1>1. <<>> \in Seq(Seq(1..last)) /\ Len(<<>>) = 0
  BY EmptySeq
<1> QED BY <1>1 DEF InOrder, Ascend

\* A text that has just been taken apart into units satisfies the invariant: there
\* is no chunk yet, and no word before the first.
THEOREM ChunkerInitInv == ASSUME ChunkerAssumption, ChunkerInit PROVE ChunkerInv
<1>1. PICK lines \in Books :
        /\ words = Flatten(lines)
        /\ strategy \in {"paragraphs", "hadith", "quran"}
        /\ bounds = Bounds(strategy, lines, words)
        /\ pc = "split" /\ i = 1 /\ chunks = <<>> /\ start = 0
        /\ pieces = <<>> /\ merged = <<>> /\ passages = <<>>
  BY DEF ChunkerInit
<1>2. PICK last \in Nat : last = Len(words) /\ DOMAIN words = 1..last
  BY <1>1, FlattenIs
<1>3. /\ \A b \in bounds : b = last + 1 \/ b \in 1..last
      /\ last + 1 \in bounds /\ (last > 0 => 1 \in bounds)
  BY <1>1, <1>2 DEF Bounds
<1>4. bounds \subseteq 1..(last + 1)
  BY <1>2, <1>3
<1>5. TextOK
  BY <1>2, <1>3, <1>4 DEF TextOK
<1>6. i \in bounds /\ i \in 1..(last + 1)
  BY <1>1, <1>2, <1>3
<1>7. InOrder(<<>>, Len(words)) /\ Len(<<>>) = 0
  BY <1>2, NoneInOrder
<1>8. ChunksOK /\ PiecesOK /\ MergedOK
  BY <1>1, <1>7 DEF ChunksOK, PiecesOK, MergedOK
<1>9. SplitOK
  BY <1>1, <1>2, <1>6 DEF SplitOK, Clean
<1>10. CeilingOK /\ MergeOK
  BY <1>1 DEF CeilingOK, MergeOK
<1> QED BY <1>1, <1>5, <1>8, <1>9, <1>10 DEF ChunkerInv

-----------------------------------------------------------------------------
(* The first pass: one more chunk, from i up to end. *)
LEMMA AddChunk ==
    ASSUME ChunkerAssumption, ChunkerInv, pc \in {"split", "cut"}, i <= Len(words),
           NEW end \in (i + 1)..(Len(words) + 1), NEW next \in (i + 1)..end,
           end - i > TARGET_MAX => next = end,
           strategy = "paragraphs" => Clean(end),
           Clean(next),
           chunks' = Append(chunks, Span(i, end - 1)), i' = next,
           pc' \in {"split", "cut"},
           pc' = "split" => next \in bounds,
           pc' = "cut" => next <= Len(words),
           UNCHANGED <<words, bounds, strategy, start, pieces, merged>>
    PROVE  ChunkerInv'
<1> DEFINE c == Span(i, end - 1)
<1> DEFINE new == Append(chunks, c)
<1>1. PICK last \in Nat : last = Len(words)
  BY DEF ChunkerInv, TextOK
<1>2. i \in 1..last /\ end \in (i + 1)..(last + 1) /\ next \in (i + 1)..end
  BY <1>1 DEF ChunkerInv, SplitOK
<1>3. /\ c \in Seq(1..last) /\ Len(c) = end - i
      /\ \A k \in 1..(end - i) : c[k] = i + k - 1
  <2>1. end - 1 \in i..last /\ end - 1 - i + 1 = end - i
    BY <1>2
  <2> QED BY <1>2, <2>1, SpanIs
<1> HIDE DEF c
<1>4. Len(c) > 0 /\ c[1] = i /\ c[Len(c)] = end - 1 /\ Straight(c)
  <2>1. 1 \in 1..(end - i) /\ end - i \in 1..(end - i) /\ end - i > 0
    BY <1>2
  <2>2. c[1] = i /\ c[end - i] = end - 1
    <3>1. i + 1 - 1 = i /\ i + (end - i) - 1 = end - 1
      BY <1>2
    <3> QED BY <1>3, <2>1, <3>1
  <2> QED BY <1>3, <2>1, <2>2 DEF Straight
<1>5. InOrder(chunks, last) /\ Len(chunks) \in Nat /\ (Len(chunks) > 0 <=> chunks # <<>>)
  BY <1>1, LenProperties, EmptySeq DEF ChunkerInv, ChunksOK, InOrder
<1>6. chunks # <<>> =>
        /\ LastOf(chunks)[1] < i
        /\ Len(LastOf(chunks)) > TARGET_MAX => Last(LastOf(chunks)) < i
  BY DEF ChunkerInv, SplitOK
<1>7. /\ InOrder(new, last)
      /\ Len(new) = Len(chunks) + 1
      /\ \A n \in 1..Len(chunks) : new[n] = chunks[n]
      /\ new[Len(chunks) + 1] = c
      /\ LastOf(new) = c
  <2>1. chunks # <<>> => LastOf(chunks)[1] < c[1]
    BY <1>4, <1>6
  <2>2. c \in Seq(1..last) /\ Len(c) > 0 /\ InOrder(chunks, last)
    BY <1>3, <1>4, <1>5
  <2> QED BY <2>1, <2>2, AppendInOrder, ZenonT(30)
<1>8. /\ \A w : InSome(w, chunks) => InSome(w, new)
      /\ \A k \in 1..Len(c) : InSome(c[k], new)
  BY <1>5, <1>7, AppendHolds
<1>9. chunks' = new /\ Len(words') = last
  BY <1>1 DEF c
<1> HIDE DEF new
<1>10. \A n \in 1..Len(new) :
         /\ Straight(new[n])
         /\ strategy = "paragraphs" => Clean(new[n][1]) /\ Clean(Last(new[n]) + 1)
         /\ n > 1 /\ Len(new[n - 1]) > TARGET_MAX => Last(new[n - 1]) < new[n][1]
  <2> TAKE n \in 1..Len(new)
  <2>1. CASE n \in 1..Len(chunks)
    <3>1. new[n] = chunks[n] /\ (n > 1 => new[n - 1] = chunks[n - 1])
      <4>1. PICK many \in Nat : many = Len(chunks)
        BY <1>5
      <4>2. n > 1 => n - 1 \in 1..many
        BY <2>1, <4>1
      <4>3. n > 1 => n - 1 \in 1..Len(chunks)
        BY <4>1, <4>2, Zenon
      <4> QED BY <1>7, <2>1, <4>3
    <3> QED BY <2>1, <3>1 DEF ChunkerInv, ChunksOK
  <2>2. CASE n = Len(chunks) + 1
    <3>1. new[n] = c
      BY <1>7, <2>2
    <3>2. n > 1 => new[n - 1] = LastOf(chunks) /\ chunks # <<>>
      BY <1>5, <1>7, <2>2, SMTT(30) DEF LastOf
    <3>3. strategy = "paragraphs" => Clean(c[1]) /\ Clean(Last(c) + 1)
      <4>1. Clean(i)
        BY DEF ChunkerInv, SplitOK
      <4>2. Last(c) + 1 = end
        <5>1. Last(c) = end - 1
          BY <1>4 DEF Last
        <5>2. end - 1 + 1 = end
          BY <1>2
        <5> QED BY <5>1, <5>2
      <4> QED BY <4>1, <4>2, <1>4
    <3> QED BY <1>4, <1>6, <3>1, <3>2, <3>3
  <2> QED BY <1>5, <1>7, <2>1, <2>2, SMTT(30)
<1>11. \A w \in 1..(next - 1) : InSome(w, new)
  <2> TAKE w \in 1..(next - 1)
  <2>1. CASE w < i
    <3>1. w \in 1..(i - 1)
      BY <1>2, <2>1
    <3>2. InSome(w, chunks)
      BY <3>1 DEF ChunkerInv, SplitOK
    <3> QED BY <1>8, <3>2
  <2>2. CASE w >= i
    <3>1. w - i + 1 \in 1..(end - i) /\ i + (w - i + 1) - 1 = w
      BY <1>2, <2>2
    <3>2. w - i + 1 \in 1..Len(c) /\ c[w - i + 1] = w
      BY <1>3, <3>1
    <3> QED BY <1>8, <3>2
  <2> QED BY <1>2, <2>1, <2>2, SMTT(30)
<1>12. TextOK'
  BY DEF ChunkerInv, TextOK
<1>13. ChunksOK'
  BY <1>7, <1>9, <1>10 DEF ChunksOK, Clean, Sentence
<1>14. SplitOK'
  <2>1. new # <<>> => LastOf(new)[1] < next /\ (Len(LastOf(new)) > TARGET_MAX => Last(LastOf(new)) < next)
    <3>1. i < next /\ (end - i > TARGET_MAX => end - 1 < next)
      BY <1>2
    <3> QED BY <1>3, <1>4, <1>7, <3>1 DEF Last
  <2>2. next \in 1..(last + 1)
    BY <1>2
  <2>3. pieces = <<>> /\ start = 0
    BY DEF ChunkerInv, SplitOK
  <2> QED BY <1>9, <1>11, <2>1, <2>2, <2>3, <1>1 DEF SplitOK, Clean, Sentence
<1>15. PiecesOK' /\ MergedOK'
  BY DEF ChunkerInv, PiecesOK, MergedOK, Clean, Sentence
<1>16. CeilingOK' /\ MergeOK'
  BY DEF ChunkerInv, CeilingOK, MergeOK
<1> QED BY <1>12, <1>13, <1>14, <1>15, <1>16 DEF ChunkerInv

\* A unit of a hadith or Quran book becomes a chunk.
LEMMA TakeUnitKeeps ==
    ASSUME ChunkerAssumption, ChunkerInv, TakeUnit PROVE ChunkerInv' /\ i' > i
<1>1. TextOK /\ i \in 1..Len(words)
  BY DEF TakeUnit, AtEnd, ChunkerInv, SplitOK, TextOK
<1>2. PICK end \in bounds : end = After(i) /\ end \in (i + 1)..(Len(words) + 1)
  BY <1>1, AfterIs
<1>3. Clean(end)
  BY DEF Clean
<1>4. /\ chunks' = Append(chunks, Span(i, end - 1)) /\ i' = end
      /\ pc = "split" /\ pc' = "split"
      /\ UNCHANGED <<words, bounds, strategy, start, pieces, merged>>
  BY <1>2 DEF TakeUnit
<1>5. end \in (i + 1)..end /\ i <= Len(words) /\ end > i
  BY <1>1, <1>2
<1> QED BY <1>2, <1>3, <1>4, <1>5, AddChunk

\* What is absorbed ends at a bound, and the overlap starts at one, after the
\* chunk's first paragraph.
LEMMA AbsorbKeeps ==
    ASSUME ChunkerAssumption, ChunkerInv, Absorb PROVE ChunkerInv' /\ i' > i
<1>1. TextOK /\ i \in 1..Len(words) /\ i \in bounds
  BY DEF Absorb, AtEnd, ChunkerInv, SplitOK, TextOK
<1>2. PICK end \in bounds :
         end = Reach /\ end \in (i + 1)..(Len(words) + 1) /\ end - i <= TARGET_MAX
  BY <1>1, ReachIs DEF Absorb
<1>3. PICK next \in bounds :
        /\ next \in (i + 1)..end
        /\ i' = next
  <2>1. OverlapStart(end) \in bounds /\ OverlapStart(end) \in (i + 1)..end
    BY <1>1, <1>2, OverlapIs
  <2>2. i' = end \/ i' = OverlapStart(end)
    BY <1>2 DEF Absorb
  <2>3. end \in (i + 1)..end
    BY <1>1, <1>2
  <2> QED BY <1>2, <2>1, <2>2, <2>3
<1>4. Clean(end) /\ Clean(next)
  BY DEF Clean
<1>5. /\ chunks' = Append(chunks, Span(i, end - 1))
      /\ pc = "split" /\ pc' = "split"
      /\ UNCHANGED <<words, bounds, strategy, start, pieces, merged>>
  BY <1>2 DEF Absorb
<1>6. ~(end - i > TARGET_MAX) /\ i <= Len(words) /\ next > i
  BY <1>1, <1>2, <1>3 DEF ChunkerAssumption
<1> QED BY <1>2, <1>3, <1>4, <1>5, <1>6, AddChunk

\* The cutting of a large paragraph starts where it does.
LEMMA OversizedKeeps ==
    ASSUME ChunkerInv, Oversized PROVE ChunkerInv' /\ UNCHANGED chunks
<1> USE DEF Oversized
<1>1. TextOK'
  BY DEF ChunkerInv, TextOK
<1>2. ChunksOK' /\ PiecesOK' /\ MergedOK'
  BY DEF ChunkerInv, ChunksOK, PiecesOK, MergedOK, Clean, Sentence
<1>3. SplitOK'
  BY DEF ChunkerInv, SplitOK, TextOK, AtEnd, Clean, Sentence
<1>4. CeilingOK' /\ MergeOK'
  BY DEF ChunkerInv, CeilingOK, MergeOK
<1> QED BY <1>1, <1>2, <1>3, <1>4 DEF ChunkerInv

\* A piece ends with a sentence or with the paragraph, and the next one starts
\* where it ends.
LEMMA CutPieceKeeps ==
    ASSUME ChunkerAssumption, ChunkerInv, CutPiece PROVE ChunkerInv' /\ i' > i
<1> DEFINE full == {k \in i..(After(i) - 1) : k - i + 1 >= TARGET_MAX /\ Sentence(k)}
<1>1. TextOK /\ i \in 1..Len(words)
  BY DEF CutPiece, ChunkerInv, SplitOK, TextOK
<1>2. PICK next \in bounds : next = After(i) /\ next \in (i + 1)..(Len(words) + 1)
  BY <1>1, AfterIs
<1>3. PICK end \in (i + 1)..next :
        /\ end = IF full = {} THEN After(i) ELSE Min(full) + 1
        /\ end = next \/ Sentence(end - 1)
  <2>1. CASE full = {}
    BY <1>1, <1>2, <2>1
  <2>2. CASE full # {}
    <3>1. \A k \in full : k \in Nat /\ i <= k /\ k < next /\ Sentence(k)
      BY <1>1, <1>2
    <3>2. Min(full) \in full
      <4> HIDE DEF full
      <4>1. full \in SUBSET Nat
        BY <3>1
      <4> QED BY <2>2, <4>1, MinOf
    <3>3. PICK m \in Nat : m = Min(full) /\ i <= m /\ m < next /\ Sentence(m)
      BY <3>1, <3>2
    <3>4. m + 1 \in (i + 1)..next /\ m + 1 - 1 = m
      BY <1>1, <1>2, <3>3, SMTT(30)
    <3> HIDE DEF full
    <3> QED BY <2>2, <3>3, <3>4
  <2> QED BY <2>1, <2>2
<1> HIDE DEF full
<1>4. Clean(end) /\ end > i /\ end \in (i + 1)..(Len(words) + 1) /\ end \in (i + 1)..end
  <2>1. PICK last \in Nat : last = Len(words)
    BY <1>1 DEF TextOK
  <2>2. end \in Nat /\ end > 1
    BY <1>1, <1>3
  <2>3. Clean(end)
    BY <1>3, <2>2 DEF Clean
  <2>4. end \in (i + 1)..(last + 1)
    BY <1>1, <1>2, <1>3, <2>1, SMTT(30)
  <2>5. end > i /\ end \in (i + 1)..end
    BY <1>1, <1>3
  <2> QED BY <2>1, <2>3, <2>4, <2>5
<1>5. /\ chunks' = Append(chunks, Span(i, end - 1)) /\ i' = end
      /\ pc = "cut" /\ pc' = IF end = next THEN "split" ELSE "cut"
      /\ UNCHANGED <<words, bounds, strategy, start, pieces, merged>>
  BY <1>2, <1>3 DEF CutPiece, full
<1>6. end # next => end <= Len(words)
  <2>1. PICK last \in Nat : last = Len(words)
    BY <1>1 DEF TextOK
  <2> QED BY <1>1, <1>2, <1>3, <2>1
<1>7. i <= Len(words) /\ (pc' = "split" => end \in bounds) /\ (pc' = "cut" => end <= Len(words))
  BY <1>1, <1>5, <1>6
<1> QED BY <1>4, <1>5, <1>7, AddChunk

-----------------------------------------------------------------------------
(* The second and the third pass. *)
LEMMA NextPassKeeps ==
    ASSUME ChunkerInv, NextPass PROVE ChunkerInv' /\ UNCHANGED chunks
<1> USE DEF NextPass
<1>1. PICK last \in Nat : last = Len(words)
  BY DEF ChunkerInv, TextOK
<1>2. TextOK'
  BY DEF ChunkerInv, TextOK
<1>3. ChunksOK' /\ PiecesOK' /\ MergedOK'
  BY DEF ChunkerInv, ChunksOK, PiecesOK, MergedOK, Clean, Sentence
<1>4. CASE pc = "split" /\ AtEnd /\ pc' = "ceiling"
  <2>1. (\A w \in 1..last : InSome(w, chunks)) /\ pieces = <<>> /\ start = 0
    <3>1. i - 1 = last
      BY <1>1, <1>4 DEF AtEnd
    <3> QED BY <1>4, <3>1 DEF ChunkerInv, SplitOK
  <2>2. Len(chunks) \in Nat
    BY LenProperties DEF ChunkerInv, ChunksOK, InOrder
  <2>3. CeilingOK'
    BY <1>1, <1>4, <2>1, <2>2 DEF CeilingOK
  <2>4. SplitOK' /\ MergeOK'
    BY <1>4 DEF ChunkerInv, SplitOK, MergeOK
  <2> QED BY <1>2, <1>3, <1>4, <2>3, <2>4 DEF ChunkerInv
<1>5. CASE pc = "ceiling" /\ i > Len(chunks) /\ pc' = "merge"
  <2>1. Len(chunks) \in Nat /\ Len(pieces) \in Nat
    BY LenProperties DEF ChunkerInv, ChunksOK, PiecesOK, InOrder
  <2>2. \A w \in 1..last : InSome(w, pieces)
    <3> TAKE w \in 1..last
    <3>1. InSome(w, chunks)
      BY <1>1, <1>5 DEF ChunkerInv, CeilingOK
    <3>2. PICK n \in 1..Len(chunks) : \E k \in 1..Len(chunks[n]) : chunks[n][k] = w
      BY <3>1 DEF InSome
    <3>3. n \in 1..(i - 1)
      BY <1>5, <2>1 DEF ChunkerInv, CeilingOK
    <3> QED BY <1>5, <3>2, <3>3 DEF ChunkerInv, CeilingOK
  <2>3. merged = <<>>
    BY <1>5 DEF ChunkerInv, MergeOK
  <2>4. MergeOK'
    BY <1>1, <1>5, <2>1, <2>2, <2>3 DEF MergeOK
  <2>5. SplitOK' /\ CeilingOK'
    BY <1>5 DEF SplitOK, CeilingOK
  <2> QED BY <1>2, <1>3, <1>5, <2>4, <2>5 DEF ChunkerInv
<1> QED BY <1>4, <1>5

\* The part of a passage after its a-th word and up to its b-th.
Slice(s, S, c, a, b) ==
    /\ s \in Seq(S) /\ Len(s) = b - a
    /\ \A k \in 1..(b - a) : s[k] = c[a + k]

\* SubSeq takes it.
LEMMA SliceIs ==
    ASSUME NEW S, NEW c \in Seq(S), NEW a \in Nat, NEW b \in Nat, a < b /\ b <= Len(c)
    PROVE  Slice(SubSeq(c, a + 1, b), S, c, a, b)
<1>1. PICK len \in Nat : len = Len(c)
  BY LenProperties
<1>2. \A k \in (a + 1)..b : c[k] \in S
  <2> TAKE k \in (a + 1)..b
  <2>1. k \in 1..len
    BY <1>1
  <2> QED BY <1>1, <2>1, ElementOfSeq
<1>3. PICK from \in Int : from = a + 1 /\ from <= b
  OBVIOUS
<1>4. /\ SubSeq(c, from, b) \in Seq(S)
      /\ Len(SubSeq(c, from, b)) = IF from <= b THEN b - from + 1 ELSE 0
      /\ \A k \in 1..(b - from + 1) : SubSeq(c, from, b)[k] = c[from + k - 1]
  BY <1>2, <1>3, SubSeqProperties
<1>5. b - from + 1 = b - a /\ \A k \in 1..(b - a) : from + k - 1 = a + k
  BY <1>3
<1> QED BY <1>3, <1>4, <1>5 DEF Slice

\* A chunk longer than the ceiling is not overlapped by the next, so its pieces
\* come before that one; a piece that does not end with its chunk is as long as
\* the ceiling allows.
LEMMA EnforceCeilingKeeps ==
    ASSUME ChunkerAssumption, ChunkerInv, EnforceCeiling
    PROVE  ChunkerInv' /\ UNCHANGED chunks
<1>1. PICK last \in Nat : last = Len(words)
  BY DEF ChunkerInv, TextOK
<1>2. PICK ceiling \in Nat : ceiling = HARD_CEILING /\ ceiling > 0 /\ TARGET_MAX <= ceiling
                             /\ TARGET_MAX \in Nat
  BY DEF ChunkerAssumption
<1>3. /\ chunks \in Seq(Seq(1..last)) /\ pieces \in Seq(Seq(1..last))
      /\ Len(chunks) \in Nat /\ Len(pieces) \in Nat
      /\ Len(pieces) > 0 <=> pieces # <<>>
      /\ InOrder(pieces, last)
  BY <1>1, LenProperties, EmptySeq DEF ChunkerInv, ChunksOK, PiecesOK, InOrder
<1>4. /\ pc = "ceiling" /\ i \in 1..Len(chunks) /\ start \in Nat
      /\ start > 0 =>
             /\ ceiling <= start /\ start < Len(chunks[i])
             /\ pieces # <<>> /\ Len(LastOf(pieces)) = ceiling
      /\ \A n \in 1..(i - 1) : \A k \in 1..Len(chunks[n]) : InSome(chunks[n][k], pieces)
      /\ \A k \in 1..start : InSome(chunks[i][k], pieces)
      /\ pieces # <<>> => LastOf(pieces)[1] < chunks[i][start + 1]
  BY <1>2, <1>3 DEF ChunkerInv, CeilingOK, EnforceCeiling
<1>5. PICK c \in Seq(1..last) : c = chunks[i]
  BY <1>3, <1>4, ElementOfSeq
<1>6. Len(c) \in Nat \ {0} /\ start < Len(c)
  <2>1. Len(c) > 0
    BY <1>4, <1>5 DEF ChunkerInv, ChunksOK, InOrder
  <2>2. Len(c) \in Nat
    BY <1>5, LenProperties
  <2> QED BY <1>4, <1>5, <2>1, <2>2
<1>27. PICK at \in Nat, done \in Nat, len \in Nat, many \in Nat :
         /\ at = i /\ done = start /\ len = Len(c) /\ many = Len(chunks)
         /\ 1 <= at /\ at <= many /\ done < len
  <2>1. i \in Nat /\ 1 <= i /\ i <= Len(chunks)
    BY <1>3, <1>4
  <2>2. start \in Nat /\ Len(c) \in Nat /\ start < Len(c) /\ Len(chunks) \in Nat
    BY <1>3, <1>4, <1>6
  <2> QED BY <2>1, <2>2
<1>7. /\ \A k \in 1..Len(c) : c[k] \in 1..last /\ c[k] = c[1] + k - 1
      /\ strategy = "paragraphs" => Clean(c[1]) /\ Clean(Last(c) + 1)
  <2>1. \A k \in 1..Len(c) : c[k] \in 1..last
    BY <1>5, ElementOfSeq
  <2> QED BY <1>4, <1>5, <2>1 DEF ChunkerInv, ChunksOK, Straight
<1>8. PICK end \in Nat :
        /\ end = Min({start + HARD_CEILING, Len(c)})
        /\ done < end /\ end <= len /\ end - done <= ceiling
        /\ end = len \/ end = done + ceiling
  <2>1. PICK a \in Nat : a = done + ceiling
    OBVIOUS
  <2>2. Min({a, len}) \in {a, len} /\ \A y \in {a, len} : Min({a, len}) <= y
    BY MinOf
  <2>3. Min({start + HARD_CEILING, Len(c)}) = Min({a, len})
    BY <1>2, <1>27, <2>1
  <2>4. PICK m \in Nat : m = Min({a, len}) /\ (m = a \/ m = len) /\ m <= a /\ m <= len
    BY <2>2
  <2> QED BY <1>2, <1>27, <2>1, <2>3, <2>4
<1>9. PICK p : p = SubSeq(c, start + 1, end)
  OBVIOUS
<1>10. /\ p \in Seq(1..last) /\ Len(p) = end - done
       /\ \A k \in 1..(end - done) : p[k] = c[done + k]
  <2>1. done < end /\ end <= Len(c)
    BY <1>8, <1>27
  <2>2. p = SubSeq(c, done + 1, end)
    BY <1>9, <1>27
  <2>3. Slice(SubSeq(c, done + 1, end), 1..last, c, done, end)
    BY <2>1, SliceIs, Zenon
  <2> QED BY <2>2, <2>3 DEF Slice
<1>11. Len(p) > 0 /\ p[1] = c[done + 1] /\ Last(p) = c[end]
  <2>1. 1 \in 1..(end - done) /\ end - done \in 1..(end - done) /\ done + (end - done) = end
    <3>1. done < end
      BY <1>8
    <3> QED BY <3>1
  <2> QED BY <1>10, <2>1, <1>27, SMTT(30) DEF Last
<1>12. PICK new : new = Append(pieces, p)
  OBVIOUS
<1>13. /\ InOrder(new, last) /\ Len(new) = Len(pieces) + 1
       /\ \A n \in 1..Len(pieces) : new[n] = pieces[n]
       /\ new[Len(pieces) + 1] = p /\ LastOf(new) = p
  <2>1. pieces # <<>> => LastOf(pieces)[1] < p[1]
    BY <1>4, <1>5, <1>11, <1>27
  <2>2. InOrder(pieces, last) /\ p \in Seq(1..last) /\ Len(p) > 0
    BY <1>3, <1>10, <1>11
  <2>3. /\ InOrder(Append(pieces, p), last) /\ Len(Append(pieces, p)) = Len(pieces) + 1
        /\ \A n \in 1..Len(pieces) : Append(pieces, p)[n] = pieces[n]
        /\ Append(pieces, p)[Len(pieces) + 1] = p /\ LastOf(Append(pieces, p)) = p
    BY <2>1, <2>2, AppendInOrder
  <2> QED BY <1>12, <2>3, Zenon
<1>14. /\ \A w : InSome(w, pieces) => InSome(w, new)
       /\ \A k \in 1..Len(p) : InSome(p[k], new)
  BY <1>3, <1>12, <1>13, AppendHolds
<1>15. \A k \in 1..end : InSome(c[k], new)
  <2> TAKE k \in 1..end
  <2>1. CASE k <= done
    <3>1. k \in 1..start
      BY <1>27, <2>1
    <3> QED BY <1>4, <1>5, <1>14, <3>1
  <2>2. CASE k > done
    <3>1. k - done \in 1..(end - done) /\ done + (k - done) = k
      BY <1>8, <2>2
    <3> QED BY <1>10, <1>14, <3>1
  <2> QED BY <1>8, <2>1, <2>2
<1>16. /\ pc' = "ceiling" /\ pieces' = new
       /\ IF end = Len(c) THEN i' = i + 1 /\ start' = 0 ELSE i' = i /\ start' = end
       /\ UNCHANGED <<words, bounds, strategy, chunks, merged>> /\ Len(words') = last
  BY <1>1, <1>4, <1>5, <1>8, <1>9, <1>12 DEF EnforceCeiling
<1>17. \A n \in 1..Len(new) :
         /\ Len(new[n]) <= ceiling
         /\ strategy = "paragraphs" =>
              /\ Clean(new[n][1]) \/ (n > 1 /\ Len(new[n - 1]) = ceiling)
              /\ Clean(Last(new[n]) + 1) \/ Len(new[n]) = ceiling
  <2> TAKE n \in 1..Len(new)
  <2>1. CASE n \in 1..Len(pieces)
    <3>1. new[n] = pieces[n] /\ (n > 1 => new[n - 1] = pieces[n - 1])
      <4>1. n > 1 => n - 1 \in 1..Len(pieces)
        BY <1>3, <2>1
      <4> QED BY <1>13, <2>1, <4>1
    <3> QED BY <1>2, <2>1, <3>1 DEF ChunkerInv, PiecesOK
  <2>2. CASE n = Len(pieces) + 1
    <3>1. new[n] = p
      BY <1>13, <2>2
    <3>2. Len(pieces) > 0 => n > 1 /\ new[n - 1] = LastOf(pieces)
      <4>1. Len(pieces) > 0 => n > 1 /\ n - 1 = Len(pieces) /\ Len(pieces) \in 1..Len(pieces)
        BY <1>3, <2>2, SMTT(30)
      <4> QED BY <1>13, <4>1 DEF LastOf
    <3>3. strategy = "paragraphs" => Clean(p[1]) \/ (n > 1 /\ Len(new[n - 1]) = ceiling)
      <4>1. CASE done = 0
        BY <1>7, <1>11, <4>1
      <4>2. CASE done > 0
        BY <1>3, <1>4, <1>27, <3>2, <4>2
      <4> QED BY <4>1, <4>2
    <3>4. strategy = "paragraphs" => Clean(Last(p) + 1) \/ Len(p) = ceiling
      <4>1. CASE end = len
        BY <1>7, <1>11, <1>27, <4>1 DEF Last
      <4>2. CASE end = done + ceiling
        <5>1. end - done = ceiling
          BY <4>2
        <5> QED BY <1>10, <5>1
      <4> QED BY <1>8, <4>1, <4>2
    <3> QED BY <1>8, <1>10, <3>1, <3>3, <3>4
  <2> QED BY <1>3, <1>13, <2>1, <2>2
<1>18. TextOK'
  BY <1>16 DEF ChunkerInv, TextOK
<1>19. ChunksOK' /\ MergedOK'
  BY <1>16 DEF ChunkerInv, ChunksOK, MergedOK, Clean, Sentence
<1>20. PiecesOK'
  BY <1>2, <1>13, <1>16, <1>17 DEF PiecesOK, Clean, Sentence
<1>21. SplitOK' /\ MergeOK'
  BY <1>4, <1>16 DEF ChunkerInv, SplitOK, MergeOK
<1>22. new # <<>>
  BY <1>3, <1>12, <1>10, AppendProperties, SMTT(30)
<1>23. \A w \in 1..last : InSome(w, chunks)
  BY <1>1, <1>4 DEF ChunkerInv, CeilingOK
<1>24. \A n \in 1..(i - 1) : \A k \in 1..Len(chunks[n]) : InSome(chunks[n][k], new)
  BY <1>4, <1>14
<1>25. CASE end = len
  <2>1. i' = i + 1 /\ start' = 0 /\ i' \in 1..(Len(chunks) + 1) /\ i' - 1 = i
    BY <1>16, <1>25, <1>27
  <2>2. \A n \in 1..at : \A k \in 1..Len(chunks[n]) : InSome(chunks[n][k], new)
    <3> TAKE n \in 1..at
    <3>1. CASE n = at
      BY <1>5, <1>15, <1>25, <1>27, <3>1
    <3>2. CASE n # at
      <4>1. n \in 1..(i - 1)
        BY <1>27, <3>2
      <4> QED BY <1>24, <4>1
    <3> QED BY <3>1, <3>2
  <2>3. ASSUME at + 1 <= many PROVE p[1] < chunks[at + 1][1]
    <3>1. at + 1 \in 2..many /\ at + 1 - 1 = at /\ at + 1 \in 1..many /\ at + 1 > 1
      BY <1>27, <2>3
    <3>2. CASE done = 0
      <4>1. chunks[at][1] < chunks[at + 1][1]
        <5>1. \A n \in 2..many : chunks[n - 1][1] < chunks[n][1]
          BY <1>27 DEF ChunkerInv, ChunksOK, InOrder, Ascend
        <5> QED BY <3>1, <5>1, SMTT(30)
      <4> QED BY <1>5, <1>11, <1>27, <3>2, <4>1
    <3>3. CASE done > 0
      <4>1. Len(chunks[at]) > TARGET_MAX
        BY <1>2, <1>4, <1>5, <1>27, <3>3
      <4>2. Last(c) < chunks[at + 1][1]
        <5>1. \A n \in 1..many : n > 1 /\ Len(chunks[n - 1]) > TARGET_MAX =>
                                    Last(chunks[n - 1]) < chunks[n][1]
          BY <1>27 DEF ChunkerInv, ChunksOK
        <5> QED BY <1>5, <1>27, <3>1, <4>1, <5>1
      <4>3. PICK b \in Nat : b = chunks[at + 1][1]
        <5>1. chunks[at + 1] \in Seq(1..last) /\ Len(chunks[at + 1]) > 0
          BY <1>3, <1>27, <3>1, ElementOfSeq DEF ChunkerInv, ChunksOK, InOrder
        <5>2. 1 \in 1..Len(chunks[at + 1])
          BY <5>1, LenProperties
        <5>3. chunks[at + 1][1] \in 1..last
          BY <5>1, <5>2, ElementOfSeq
        <5> QED BY <5>3, SMTT(30)
      <4>4. done + 1 \in 1..len /\ len \in 1..len /\ 1 \in 1..len /\ done + 1 <= len
        BY <1>27
      <4>5. PICK f \in Nat : f = c[1]
        BY <1>7, <1>27, <4>4
      <4>6. c[done + 1] = f + (done + 1) - 1 /\ c[len] = f + len - 1
        BY <1>7, <1>27, <4>4, <4>5
      <4>7. f + len - 1 < b
        BY <1>27, <4>2, <4>3, <4>6 DEF Last
      <4>8. f + (done + 1) - 1 < b
        BY <4>4, <4>7
      <4> QED BY <1>11, <4>3, <4>6, <4>8
    <3> QED BY <3>2, <3>3
  <2>4. CeilingOK'
    <3>1. start' + 1 = 1
      BY <2>1
    <3> QED BY <1>13, <1>16, <1>23, <1>27, <2>1, <2>2, <2>3, <3>1 DEF CeilingOK
  <2> QED BY <1>16, <1>18, <1>19, <1>20, <1>21, <2>4 DEF ChunkerInv
<1>26. CASE end # len
  <2>1. /\ i' = i /\ start' = end /\ end = done + ceiling /\ end < len
        /\ i \in 1..(Len(chunks) + 1) /\ i <= Len(chunks)
    <3>1. end = done + ceiling /\ end < len
      BY <1>8, <1>26
    <3>2. i' = i /\ start' = end
      BY <1>16, <1>26, <1>27
    <3>3. i \in 1..(Len(chunks) + 1) /\ i <= Len(chunks)
      BY <1>27
    <3> QED BY <3>1, <3>2, <3>3
  <2>2. ceiling <= end /\ Len(p) = ceiling
    BY <1>10, <2>1
  <2>3. p[1] < c[end + 1]
    <3>1. done + 1 \in 1..len /\ end + 1 \in 1..len /\ 1 \in 1..len
      BY <1>27, <2>1, SMTT(30)
    <3>2. PICK f \in Nat : f = c[1]
      <4>1. c[1] \in 1..last
        BY <1>7, <1>27, <3>1
      <4> QED BY <4>1
    <3>3. c[done + 1] = f + (done + 1) - 1 /\ c[end + 1] = f + (end + 1) - 1
      BY <1>7, <1>27, <3>1, <3>2
    <3>4. f + (done + 1) - 1 < f + (end + 1) - 1
      <4>1. done < end
        BY <1>8, Zenon
      <4> QED BY <4>1
    <3> QED BY <1>11, <3>3, <3>4
  <2>4. CeilingOK'
    BY <1>2, <1>5, <1>13, <1>15, <1>16, <1>22, <1>23, <1>24, <1>27, <2>1, <2>2, <2>3 DEF CeilingOK
  <2> QED BY <1>16, <1>18, <1>19, <1>20, <1>21, <2>4 DEF ChunkerInv
<1> QED BY <1>25, <1>26, <1>16

\* What is merged fits into the target and so under the ceiling, and keeps the ends
\* of its parts.
LEMMA MergeKeeps ==
    ASSUME ChunkerAssumption, ChunkerInv, Merge PROVE ChunkerInv' /\ UNCHANGED chunks
<1>1. PICK last \in Nat : last = Len(words)
  BY DEF ChunkerInv, TextOK
<1>2. PICK ceiling \in Nat, target \in Nat :
        ceiling = HARD_CEILING /\ target = TARGET_MAX /\ target <= ceiling
  BY DEF ChunkerAssumption
<1>3. /\ pieces \in Seq(Seq(1..last)) /\ merged \in Seq(Seq(1..last))
      /\ InOrder(pieces, last) /\ InOrder(merged, last)
  BY <1>1 DEF ChunkerInv, PiecesOK, MergedOK, InOrder
<1>4. /\ Len(pieces) \in Nat /\ Len(merged) \in Nat
      /\ Len(merged) > 0 <=> merged # <<>>
  BY <1>3, LenProperties, EmptySeq
<1>5. PICK at \in Nat, many \in Nat, old \in Nat :
        /\ at = i /\ many = Len(pieces) /\ old = Len(merged)
        /\ 1 <= at /\ at <= many
  <2>1. i \in 1..(Len(pieces) + 1) /\ i <= Len(pieces)
    BY DEF ChunkerInv, MergeOK, Merge
  <2>2. i \in Nat /\ 1 <= i
    BY <1>4, <2>1
  <2> QED BY <1>4, <2>1, <2>2
<1>6. /\ pc = "merge"
      /\ \A w \in 1..last : InSome(w, pieces)
      /\ \A n \in 1..(at - 1) : \A k \in 1..Len(pieces[n]) : InSome(pieces[n][k], merged)
      /\ at > 1 =>
            /\ merged # <<>> /\ LastOf(merged)[1] <= pieces[at - 1][1]
            /\ Len(pieces[at - 1]) = ceiling => Len(LastOf(merged)) = ceiling
      /\ at = 1 => merged = <<>>
  BY <1>1, <1>2, <1>5 DEF ChunkerInv, MergeOK, Merge
<1>7. PICK p \in Seq(1..last) : p = pieces[at]
  BY <1>3, <1>5, ElementOfSeq
<1>8. /\ Len(p) \in Nat /\ 0 < Len(p) /\ Len(p) <= ceiling
      /\ strategy = "paragraphs" =>
           /\ Clean(p[1]) \/ (at > 1 /\ Len(pieces[at - 1]) = ceiling)
           /\ Clean(Last(p) + 1) \/ Len(p) = ceiling
  <2>1. at \in 1..Len(pieces)
    BY <1>5
  <2> QED BY <1>2, <1>7, <2>1, LenProperties DEF ChunkerInv, PiecesOK, InOrder
<1>9. at > 1 => pieces[at - 1][1] < p[1]
  <2>1. \A n \in 2..many : pieces[n - 1][1] < pieces[n][1]
    BY <1>5 DEF ChunkerInv, PiecesOK, InOrder, Ascend
  <2>2. at > 1 => at \in 2..many
    BY <1>5
  <2> QED BY <1>7, <2>1, <2>2
<1>10. merged # <<>> => LastOf(merged)[1] < p[1]
  <2> SUFFICES ASSUME merged # <<>> PROVE LastOf(merged)[1] < p[1]
    OBVIOUS
  <2>1. at > 1
    BY <1>5, <1>6
  <2>2. LastOf(merged)[1] <= pieces[at - 1][1] /\ pieces[at - 1][1] < p[1]
    BY <1>6, <1>9, <2>1
  <2>3. PICK a \in Nat : a = LastOf(merged)[1]
    <3>1. Len(merged) \in 1..Len(merged)
      BY <1>4
    <3>2. LastOf(merged) \in Seq(1..last) /\ Len(LastOf(merged)) > 0
      BY <1>3, <3>1, ElementOfSeq DEF LastOf, InOrder
    <3>3. 1 \in 1..Len(LastOf(merged))
      BY <3>2, LenProperties
    <3>4. LastOf(merged)[1] \in 1..last
      BY <3>2, <3>3, ElementOfSeq
    <3> QED BY <3>4
  <2>4. PICK b \in Nat : b = pieces[at - 1][1]
    <3>1. at - 1 \in 1..Len(pieces)
      BY <1>5, <2>1
    <3>2. pieces[at - 1] \in Seq(1..last) /\ Len(pieces[at - 1]) > 0
      BY <1>3, <3>1, ElementOfSeq DEF InOrder
    <3>3. 1 \in 1..Len(pieces[at - 1])
      BY <3>2, LenProperties
    <3>4. pieces[at - 1][1] \in 1..last
      BY <3>2, <3>3, ElementOfSeq
    <3> QED BY <3>4
  <2>5. PICK x \in Nat : x = p[1]
    <3>1. 1 \in 1..Len(p)
      BY <1>8
    <3>2. p[1] \in 1..last
      BY <3>1, ElementOfSeq
    <3> QED BY <3>2
  <2>6. a <= b /\ b < x
    BY <2>2, <2>3, <2>4, <2>5
  <2>7. a < x
    BY <2>6
  <2> QED BY <2>3, <2>5, <2>7
<1>11. /\ UNCHANGED <<words, bounds, strategy, chunks, start, pieces>> /\ Len(words') = last
       /\ pc' = "merge" /\ i' = at + 1
  BY <1>1, <1>5, <1>6 DEF Merge
<1>12. TextOK' /\ ChunksOK' /\ PiecesOK' /\ SplitOK' /\ CeilingOK'
  BY <1>11 DEF ChunkerInv, TextOK, ChunksOK, PiecesOK, SplitOK, CeilingOK, Clean, Sentence
<1>13. \A n \in 1..old :
         /\ Len(merged[n]) <= ceiling
         /\ strategy = "paragraphs" =>
              /\ Clean(merged[n][1]) \/ (n > 1 /\ Len(merged[n - 1]) = ceiling)
              /\ Clean(Last(merged[n]) + 1) \/ Len(merged[n]) = ceiling
  BY <1>2, <1>5 DEF ChunkerInv, MergedOK
\* What remains to be shown of the merged passages, whichever way they come.
<1> DEFINE Good(new) ==
      /\ InOrder(new, last) /\ new # <<>>
      /\ \A n \in 1..Len(new) :
           /\ Len(new[n]) <= ceiling
           /\ strategy = "paragraphs" =>
                /\ Clean(new[n][1]) \/ (n > 1 /\ Len(new[n - 1]) = ceiling)
                /\ Clean(Last(new[n]) + 1) \/ Len(new[n]) = ceiling
      /\ \A w : InSome(w, merged) => InSome(w, new)
      /\ \A k \in 1..Len(p) : InSome(p[k], new)
      /\ LastOf(new)[1] <= p[1]
      /\ Len(p) = ceiling => Len(LastOf(new)) = ceiling
<1>14. ASSUME NEW new, new = Append(merged, p) PROVE Good(new)
  <2>1. /\ InOrder(Append(merged, p), last) /\ Len(Append(merged, p)) = old + 1
        /\ \A n \in 1..old : Append(merged, p)[n] = merged[n]
        /\ Append(merged, p)[old + 1] = p /\ LastOf(Append(merged, p)) = p
    BY <1>3, <1>5, <1>8, <1>10, AppendInOrder, SMTT(30)
  <2>2. /\ \A w : InSome(w, merged) => InSome(w, Append(merged, p))
        /\ \A k \in 1..Len(p) : InSome(p[k], Append(merged, p))
    BY <1>4, <1>5, <2>1, AppendHolds
  <2>3. Append(merged, p) # <<>>
    <3>1. Len(<<>>) = 0 /\ old + 1 # 0
      BY EmptySeq
    <3> QED BY <2>1, <3>1, Zenon
  <2>4. p[1] <= p[1]
    <3>1. 1 \in 1..Len(p)
      BY <1>8
    <3>2. p[1] \in 1..last
      BY <3>1, ElementOfSeq
    <3> QED BY <3>2
  <2>5. ASSUME NEW n \in 1..(old + 1)
        PROVE  /\ Len(new[n]) <= ceiling
               /\ strategy = "paragraphs" =>
                    /\ Clean(new[n][1]) \/ (n > 1 /\ Len(new[n - 1]) = ceiling)
                    /\ Clean(Last(new[n]) + 1) \/ Len(new[n]) = ceiling
    <3>1. CASE n <= old
      <4>1. n \in 1..old /\ (n > 1 => n - 1 \in 1..old)
        BY <3>1
      <4>2. new[n] = merged[n] /\ (n > 1 => new[n - 1] = merged[n - 1])
        BY <1>14, <2>1, <4>1
      <4> QED BY <1>13, <4>1, <4>2
    <3>2. CASE n = old + 1
      <4>1. new[n] = p
        BY <1>14, <2>1, <3>2
      <4>2. at > 1 => n > 1 /\ new[n - 1] = LastOf(merged)
        <5>1. at > 1 => old > 0
          BY <1>4, <1>5, <1>6
        <5>2. old > 0 => old \in 1..old /\ n - 1 = old
          BY <3>2
        <5> QED BY <1>5, <1>14, <2>1, <3>2, <5>1, <5>2 DEF LastOf
      <4> QED BY <1>6, <1>8, <4>1, <4>2
    <3> QED BY <3>1, <3>2
  <2> QED BY <1>14, <2>1, <2>2, <2>3, <2>4, <2>5
<1>15. ASSUME NEW new, merged # <<>>, Joins(Last(merged), p),
              new = Append(Front(merged), Last(merged) \o p)
       PROVE  Good(new)
  <2>1. /\ InOrder(new, last) /\ Len(new) = old
        /\ \A n \in 1..(old - 1) : new[n] = merged[n]
        /\ new[old] = LastOf(merged) \o p
        /\ Len(LastOf(merged) \o p) = Len(LastOf(merged)) + Len(p)
        /\ LastOf(new)[1] = LastOf(merged)[1]
        /\ Last(LastOf(new)) = Last(p)
        /\ \A w : InSome(w, merged) => InSome(w, new)
        /\ \A k \in 1..Len(p) : InSome(p[k], new)
    <3>1. InOrder(merged, last) /\ p \in Seq(1..last) /\ Len(p) > 0
      BY <1>3, <1>8
    <3>2. merged # <<>> /\ new = Append(Front(merged), Last(merged) \o p)
      BY <1>15
    <3>3. InOrder(new, last) /\ Lengthened(new, merged, p)
      BY <3>1, <3>2, JoinInOrder, Zenon
    <3> HIDE DEF Good
    <3> QED BY <1>5, <3>3 DEF Lengthened
  <2>2. old > 0 /\ old \in 1..old
    BY <1>4, <1>5, <1>15
  <2>3. PICK long \in Nat : long = Len(LastOf(merged)) /\ 0 < long
    <3>1. LastOf(merged) \in Seq(1..last) /\ Len(LastOf(merged)) > 0
      BY <1>3, <1>5, <2>2, ElementOfSeq DEF LastOf, InOrder
    <3> QED BY <3>1, LenProperties
  <2>4. long + Len(p) <= target
    BY <1>2, <1>15, <2>3 DEF Joins, Last, LastOf
  <2>5. Len(new[old]) = long + Len(p) /\ Len(new[old]) <= ceiling /\ Len(p) # ceiling
        /\ long # ceiling
    BY <1>2, <1>8, <2>1, <2>3, <2>4
  <2>6. new # <<>>
    BY <2>1, <2>2, EmptySeq
  <2>7. LastOf(new)[1] <= p[1]
    <3>1. LastOf(new)[1] < p[1]
      BY <1>10, <1>15, <2>1
    <3>2. 1 \in 1..Len(p)
      BY <1>8
    <3>3. p[1] \in 1..last
      BY <3>2, ElementOfSeq
    <3>4. LastOf(new)[1] \in 1..last
      <4>1. LastOf(merged) \in Seq(1..last) /\ 1 \in 1..Len(LastOf(merged))
        <5>1. LastOf(merged) \in Seq(1..last)
          BY <1>3, <1>5, <2>2, ElementOfSeq DEF LastOf
        <5>2. 1 \in 1..long
          BY <2>3
        <5> QED BY <2>3, <5>1, <5>2
      <4> QED BY <2>1, <4>1, ElementOfSeq
    <3> QED BY <3>1, <3>3, <3>4
  <2>8. ASSUME NEW n \in 1..old
        PROVE  /\ Len(new[n]) <= ceiling
               /\ strategy = "paragraphs" =>
                    /\ Clean(new[n][1]) \/ (n > 1 /\ Len(new[n - 1]) = ceiling)
                    /\ Clean(Last(new[n]) + 1) \/ Len(new[n]) = ceiling
    <3>1. n > 1 => n - 1 \in 1..(old - 1)
      OBVIOUS
    <3>2. n > 1 => new[n - 1] = merged[n - 1]
      BY <2>1, <3>1
    <3>3. CASE n < old
      <4>1. n \in 1..(old - 1)
        BY <3>3
      <4> QED BY <1>13, <2>1, <3>2, <4>1
    <3>4. CASE n = old
      <4>1. new[n] = LastOf(new) /\ merged[n] = LastOf(merged)
        BY <1>5, <2>1, <3>4 DEF LastOf
      <4> QED BY <1>8, <1>13, <2>1, <2>5, <3>2, <3>4, <4>1
    <3> QED BY <3>3, <3>4
  <2> QED BY <2>1, <2>5, <2>6, <2>7, <2>8
<1>16. PICK new : merged' = new /\ Good(new)
  <2>1. \/ merged' = Append(merged, p)
        \/ /\ merged # <<>> /\ Joins(Last(merged), p)
           /\ merged' = Append(Front(merged), Last(merged) \o p)
    BY <1>5, <1>7 DEF Merge
  <2> HIDE DEF Good
  <2> QED BY <1>14, <1>15, <2>1
<1>17. MergedOK'
  BY <1>2, <1>11, <1>16 DEF MergedOK, Clean, Sentence
<1>18. MergeOK'
  <2>1. at + 1 \in 1..(many + 1) /\ at + 1 > 1 /\ at + 1 - 1 = at /\ at + 1 # 1
    BY <1>5
  <2>2. \A n \in 1..at : \A k \in 1..Len(pieces[n]) : InSome(pieces[n][k], new)
    <3> TAKE n \in 1..at
    <3>1. CASE n = at
      BY <1>7, <1>16, <3>1
    <3>2. CASE n # at
      <4>1. n \in 1..(at - 1)
        BY <3>2
      <4> QED BY <1>6, <1>16, <4>1
    <3> QED BY <3>1, <3>2
  <2>3. /\ new # <<>> /\ LastOf(new)[1] <= pieces[at][1]
        /\ Len(pieces[at]) = ceiling => Len(LastOf(new)) = ceiling
    BY <1>7, <1>16
  <2> HIDE DEF Good
  <2> QED BY <1>2, <1>5, <1>6, <1>11, <1>16, <2>1, <2>2, <2>3 DEF MergeOK
<1> QED BY <1>11, <1>12, <1>17, <1>18 DEF ChunkerInv

\* Building the passages leaves the chunks as they are.
LEMMA BuildKeeps == ASSUME ChunkerInv, Build PROVE ChunkerInv' /\ UNCHANGED chunks
<1> USE DEF Build
<1>1. TextOK'
  BY DEF ChunkerInv, TextOK
<1>2. ChunksOK' /\ PiecesOK' /\ MergedOK'
  BY DEF ChunkerInv, ChunksOK, PiecesOK, MergedOK, Clean, Sentence
<1>3. SplitOK' /\ CeilingOK'
  BY DEF ChunkerInv, SplitOK, CeilingOK
<1>4. MergeOK'
  BY DEF ChunkerInv, MergeOK
<1> QED BY <1>1, <1>2, <1>3, <1>4 DEF ChunkerInv

-----------------------------------------------------------------------------
(* The theorems. *)

\* Every step of every pass keeps the invariant, and a step that makes a chunk
\* moves on in the text.
LEMMA ChunkerStep ==
    ASSUME ChunkerAssumption, ChunkerInv, [ChunkerNext]_chunkVars
    PROVE  ChunkerInv' /\ (chunks' # chunks => i' > i)
<1>1. CASE TakeUnit
  BY <1>1, TakeUnitKeeps
<1>2. CASE Absorb
  BY <1>2, AbsorbKeeps
<1>3. CASE Oversized
  BY <1>3, OversizedKeeps
<1>4. CASE CutPiece
  BY <1>4, CutPieceKeeps
<1>5. CASE NextPass
  BY <1>5, NextPassKeeps
<1>6. CASE EnforceCeiling
  BY <1>6, EnforceCeilingKeeps
<1>7. CASE Merge
  BY <1>7, MergeKeeps
<1>8. CASE Build
  BY <1>8, BuildKeeps
<1>9. CASE UNCHANGED chunkVars
  <2> USE <1>9 DEF chunkVars
  <2>1. TextOK' /\ SplitOK'
    BY DEF ChunkerInv, TextOK, SplitOK, Clean, Sentence
  <2>2. ChunksOK' /\ PiecesOK' /\ MergedOK'
    BY DEF ChunkerInv, ChunksOK, PiecesOK, MergedOK, Clean, Sentence
  <2>3. CeilingOK' /\ MergeOK'
    BY DEF ChunkerInv, CeilingOK, MergeOK
  <2> QED BY <2>1, <2>2, <2>3 DEF ChunkerInv
<1> QED BY <1>1, <1>2, <1>3, <1>4, <1>5, <1>6, <1>7, <1>8, <1>9 DEF ChunkerNext

\* The invariant holds in every state of every book's chunking.
THEOREM ChunkerInvariant == ChunkerSpec => []ChunkerInv
<1>1. ChunkerInit => ChunkerInv
  BY ChunkerInitInv, ChunkerAssumption
<1>2. ChunkerInv /\ [ChunkerNext]_chunkVars => ChunkerInv'
  BY ChunkerStep, ChunkerAssumption
<1> QED BY <1>1, <1>2, PTL DEF ChunkerSpec

\* _overlap_start never goes back to where the chunk began, and no paragraph
\* makes an empty chunk: every chunk brings the loop on.
THEOREM LoopProgresses == ChunkerSpec => Progress
<1>1. ChunkerInv /\ [ChunkerNext]_chunkVars => [chunks' # chunks => i' > i]_chunkVars
  BY ChunkerStep, ChunkerAssumption
<1> QED BY <1>1, ChunkerInvariant, PTL DEF ChunkerSpec, Progress

\* No word of a book is lost, and the chunks are in the text's order, however
\* they have been overlapped, cut at the ceiling and merged.
THEOREM NothingIsLost == ChunkerSpec => []NothingLost
<1>1. ChunkerInv => NothingLost
  <2> SUFFICES ASSUME ChunkerInv, pc = "done"
               PROVE  /\ UNION {Range(merged[n]) : n \in DOMAIN merged} = DOMAIN words
                      /\ \A n \in 2..Len(merged) : Head(merged[n - 1]) < Head(merged[n])
    BY DEF NothingLost
  <2>1. PICK last \in Nat : last = Len(words) /\ DOMAIN words = 1..last
    BY DEF ChunkerInv, TextOK
  <2>2. /\ merged \in Seq(Seq(1..last)) /\ \A n \in 1..Len(merged) : Len(merged[n]) > 0
        /\ \A n \in 2..Len(merged) : merged[n - 1][1] < merged[n][1]
    BY <2>1 DEF ChunkerInv, MergedOK, InOrder, Ascend
  <2>3. DOMAIN merged = 1..Len(merged) /\ Len(merged) \in Nat
    BY <2>2, LenProperties
  <2>4. ASSUME NEW n \in 1..Len(merged)
        PROVE  Range(merged[n]) \subseteq 1..last /\ DOMAIN merged[n] = 1..Len(merged[n])
    <3>1. merged[n] \in Seq(1..last)
      BY <2>2, ElementOfSeq
    <3>2. merged[n] \in [1..Len(merged[n]) -> 1..last]
      BY <3>1, LenProperties
    <3> QED BY <3>2 DEF Range
  <2>5. ASSUME NEW w \in 1..last
        PROVE  w \in UNION {Range(merged[n]) : n \in DOMAIN merged}
    <3>1. InSome(w, pieces) /\ i \in 1..(Len(pieces) + 1) /\ i > Len(pieces)
      BY <2>1 DEF ChunkerInv, MergeOK
    <3>2. PICK n \in 1..Len(pieces) : \E k \in 1..Len(pieces[n]) : pieces[n][k] = w
      BY <3>1 DEF InSome
    <3>3. Len(pieces) \in Nat
      BY LenProperties DEF ChunkerInv, PiecesOK, InOrder
    <3>4. n \in 1..(i - 1)
      BY <3>1, <3>3
    <3>5. InSome(w, merged)
      BY <3>2, <3>4 DEF ChunkerInv, MergeOK
    <3>6. PICK m \in 1..Len(merged) : \E k \in 1..Len(merged[m]) : merged[m][k] = w
      BY <3>5 DEF InSome
    <3>7. w \in Range(merged[m])
      BY <2>4, <3>6 DEF Range
    <3> QED BY <2>3, <3>7
  <2>6. UNION {Range(merged[n]) : n \in DOMAIN merged} \subseteq 1..last
    BY <2>3, <2>4
  <2>7. \A n \in 1..Len(merged) : Head(merged[n]) = merged[n][1]
    <3> TAKE n \in 1..Len(merged)
    <3>1. merged[n] \in Seq(1..last) /\ merged[n] # <<>>
      BY <2>2, ElementOfSeq, EmptySeq
    <3> QED BY <3>1
  <2>8. ASSUME NEW n \in 2..Len(merged) PROVE Head(merged[n - 1]) < Head(merged[n])
    <3>1. n - 1 \in 1..Len(merged) /\ n \in 1..Len(merged)
      BY <2>3
    <3> QED BY <2>2, <2>7, <3>1
  <2> QED BY <2>1, <2>5, <2>6, <2>8
<1> QED BY <1>1, ChunkerInvariant, PTL

\* No merged chunk is longer than the hard ceiling: what merging joins fits into
\* the target, which is below it.
THEOREM CeilingIsKept == ChunkerSpec => []CeilingKept
<1>1. ChunkerInv => CeilingKept
  <2> SUFFICES ASSUME ChunkerInv PROVE CeilingKept
    OBVIOUS
  <2>1. DOMAIN merged = 1..Len(merged)
    BY LenProperties DEF ChunkerInv, MergedOK, InOrder
  <2> QED BY <2>1 DEF ChunkerInv, MergedOK, CeilingKept
<1> QED BY <1>1, ChunkerInvariant, PTL

\* A chunk of paragraphs begins and ends with a paragraph or a sentence, unless
\* it or the one before it is as long as the hard ceiling allows.
THEOREM SentencesStayWhole == ChunkerSpec => []SentencesWhole
<1>1. ChunkerInv => SentencesWhole
  <2> SUFFICES ASSUME ChunkerInv PROVE SentencesWhole
    OBVIOUS
  <2>1. merged \in Seq(Seq(1..Len(words))) /\ \A n \in 1..Len(merged) : Len(merged[n]) > 0
    BY DEF ChunkerInv, MergedOK, InOrder
  <2>2. DOMAIN merged = 1..Len(merged)
    BY <2>1, LenProperties
  <2>3. \A n \in 1..Len(merged) : Head(merged[n]) = merged[n][1]
    <3> TAKE n \in 1..Len(merged)
    <3>1. merged[n] \in Seq(1..Len(words)) /\ merged[n] # <<>>
      BY <2>1, ElementOfSeq, EmptySeq
    <3> QED BY <3>1
  <2> QED BY <2>2, <2>3 DEF ChunkerInv, MergedOK, SentencesWhole
<1> QED BY <1>1, ChunkerInvariant, PTL

-----------------------------------------------------------------------------
(* The page offsets of a chunk. *)

\* A function on 1..n is a sequence of length n.
LEMMA FunIsSeq ==
    ASSUME NEW S, NEW n \in Nat, NEW g \in [1..n -> S]
    PROVE  g \in Seq(S) /\ Len(g) = n
<1>1. g \in Seq(S)
  BY SeqDef
<1>2. DOMAIN g = 1..n
  OBVIOUS
<1> QED BY <1>1, <1>2, LenProperties

\* A sequence of the m elements of a set, in increasing order.
Enumerates(f, S, m) ==
    /\ m \in Nat /\ f \in Seq(S) /\ Len(f) = m
    /\ \A n \in 1..m : f[n] \in S
    /\ \A a, b \in 1..m : a < b => f[a] < f[b]
    /\ \A x \in S : \E n \in 1..m : f[n] = x

\* The elements of a finite set of numbers, each at the place its rank gives it,
\* are that set in increasing order.
LEMMA RankIs ==
    ASSUME NEW len \in Nat, NEW S \in SUBSET (1..len), NEW m, m = Cardinality(S),
           NEW f, f = [n \in 1..m |-> CHOOSE x \in S : Cardinality({y \in S : y <= x}) = n]
    PROVE  Enumerates(f, S, m)
<1> DEFINE Upto(x) == {y \in S : y <= x}
<1> DEFINE rank == [x \in S |-> Cardinality(Upto(x))]
<1>1. IsFiniteSet(S) /\ m \in Nat
  <2>1. IsFiniteSet(1..len)
    BY 1 \in Int, len \in Int, FS_Interval
  <2>2. IsFiniteSet(S)
    BY <2>1, FS_Subset, Zenon
  <2> QED BY <2>2, FS_CardinalityType, Zenon
<1>2. \A x \in S : x \in Nat
  OBVIOUS
<1>3. ASSUME NEW x \in S
      PROVE  IsFiniteSet(Upto(x)) /\ Cardinality(Upto(x)) \in 1..m
  <2>1. Upto(x) \in SUBSET S /\ x \in Upto(x)
    BY <1>2
  <2>2. IsFiniteSet(Upto(x)) /\ Cardinality(Upto(x)) <= m
    <3> HIDE DEF Upto
    <3> QED BY <1>1, <2>1, FS_Subset
  <2>3. Cardinality(Upto(x)) \in Nat /\ Cardinality(Upto(x)) # 0
    <3> HIDE DEF Upto
    <3> QED BY <2>1, <2>2, FS_CardinalityType, FS_EmptySet
  <2> QED BY <1>1, <2>2, <2>3
<1>4. ASSUME NEW x \in S, NEW z \in S, x < z
      PROVE  Cardinality(Upto(x)) < Cardinality(Upto(z))
  <2>1. Upto(x) \in SUBSET Upto(z) /\ z \in Upto(z) /\ z \notin Upto(x)
    <3>1. x \in Nat /\ z \in Nat /\ ~(z <= x) /\ z <= z
      BY <1>2, <1>4
    <3>2. \A y \in S : y <= x => y <= z
      BY <1>2, <1>4
    <3> QED BY <3>1, <3>2, Zenon
  <2>2. PICK a \in Nat, b \in Nat : a = Cardinality(Upto(x)) /\ b = Cardinality(Upto(z))
    <3>1. Cardinality(Upto(x)) \in 1..m /\ Cardinality(Upto(z)) \in 1..m
      BY <1>3
    <3> HIDE DEF Upto
    <3> QED BY <1>1, <3>1
  <2>3. a <= b /\ a # b
    <3> HIDE DEF Upto
    <3> QED BY <1>3, <2>1, <2>2, FS_Subset
  <2> QED BY <2>2, <2>3
<1>5. rank \in Surjection(S, 1..m)
  <2>1. rank \in [S -> 1..m]
    BY <1>3
  <2>2. \A x, z \in S : rank[x] = rank[z] => x = z
    <3> SUFFICES ASSUME NEW x \in S, NEW z \in S, x < z PROVE rank[x] # rank[z]
      BY <1>2
    <3>1. Cardinality(Upto(x)) < Cardinality(Upto(z))
      BY <1>4
    <3>2. rank[x] \in Nat /\ rank[z] \in Nat
      BY <1>1, <2>1
    <3> QED BY <3>1, <3>2
  <2>3. rank \in Injection(S, 1..m)
    <3> HIDE DEF rank
    <3> QED BY <2>1, <2>2 DEF Injection, IsInjective
  <2>4. IsFiniteSet(1..m) /\ Cardinality(1..m) = m
    BY <1>1, FS_Interval
  <2> HIDE DEF rank
  <2> QED BY <2>3, <2>4, FS_Injection
<1>6. \A n \in 1..m : f[n] \in S /\ Cardinality(Upto(f[n])) = n
  <2> TAKE n \in 1..m
  <2>1. \E x \in S : rank[x] = n
    <3> HIDE DEF rank
    <3> QED BY <1>5 DEF Surjection
  <2>2. \E x \in S : Cardinality(Upto(x)) = n
    BY <2>1
  <2>3. f[n] = CHOOSE x \in S : Cardinality(Upto(x)) = n
    OBVIOUS
  <2> HIDE DEF Upto
  <2> QED BY <2>2, <2>3
<1>7. ASSUME NEW a \in 1..m, NEW b \in 1..m, a < b PROVE f[a] < f[b]
  <2>1. f[a] \in S /\ f[b] \in S /\ Cardinality(Upto(f[a])) = a /\ Cardinality(Upto(f[b])) = b
    BY <1>6
  <2>2. PICK x \in S, z \in S : x = f[a] /\ z = f[b]
    BY <2>1
  <2>3. x \in Nat /\ z \in Nat /\ a \in Nat /\ b \in Nat
    BY <1>1, <1>2
  <2>4. ~(z < x)
    <3> SUFFICES ASSUME z < x PROVE FALSE
      OBVIOUS
    <3>1. Cardinality(Upto(z)) < Cardinality(Upto(x))
      BY <1>4
    <3> HIDE DEF Upto
    <3>2. b < a
      BY <2>1, <2>2, <3>1
    <3> QED BY <1>7, <2>3, <3>2
  <2>5. x # z
    <3> HIDE DEF Upto
    <3>1. a # b
      BY <1>7, <2>3
    <3> QED BY <2>1, <2>2, <3>1, Zenon
  <2>6. x < z
    BY <2>3, <2>4, <2>5
  <2> QED BY <2>2, <2>6, Zenon
<1>8. ASSUME NEW x \in S PROVE \E n \in 1..m : f[n] = x
  <2>1. PICK n \in 1..m : n = Cardinality(Upto(x))
    BY <1>3
  <2>2. f[n] \in S /\ Cardinality(Upto(f[n])) = n
    BY <1>6
  <2>3. PICK z \in S : z = f[n] /\ Cardinality(Upto(z)) = Cardinality(Upto(x))
    BY <2>1, <2>2
  <2>4. Cardinality(Upto(x)) \in Nat
    BY <2>1, <1>1
  <2>5. ~(z < x) /\ ~(x < z)
    <3>1. z < x => Cardinality(Upto(z)) < Cardinality(Upto(x))
      BY <1>4
    <3>2. x < z => Cardinality(Upto(x)) < Cardinality(Upto(z))
      BY <1>4
    <3> HIDE DEF Upto
    <3> QED BY <2>3, <2>4, <3>1, <3>2
  <2>6. z = x
    BY <1>2, <2>5
  <2> QED BY <2>3, <2>6
<1>9. f \in Seq(S) /\ Len(f) = m
  <2>1. f \in [1..m -> S]
    BY <1>6
  <2> QED BY <1>1, <2>1, FunIsSeq, ZenonT(30)
<1> QED BY <1>1, <1>6, <1>7, <1>8, <1>9 DEF Enumerates

\* The words of a chunk begin one after another, a blank apart.
LEMMA CharOfGrows ==
    ASSUME ChunkerAssumption, NEW a \in Nat, NEW b \in Nat, a < b
    PROVE  CharOf(a) + WORD_LENGTH + 1 <= CharOf(b) /\ CharOf(a) \in Int /\ CharOf(b) \in Int
<1>1. PICK w \in Nat : w = WORD_LENGTH + 1 /\ w > 0
  BY DEF ChunkerAssumption
<1>2. PICK d \in Nat : b = a + d + 1
  <2>1. b - a - 1 \in Nat /\ b = a + (b - a - 1) + 1
    OBVIOUS
  <2> QED BY <2>1
<1>3. (b - 1) * w = (a - 1) * w + w + d * w
  BY <1>2
<1>4. d * w \in Nat /\ (a - 1) * w \in Int
  OBVIOUS
<1>5. CharOf(a) = (a - 1) * w /\ CharOf(b) = (b - 1) * w
  BY <1>1 DEF CharOf
<1>6. (a - 1) * w + w <= (b - 1) * w
  BY <1>3, <1>4
<1> QED BY <1>1, <1>4, <1>5, <1>6, WORD_LENGTH \in Nat DEF ChunkerAssumption

\* Where the pages turn in a chunk, in order.
LEMMA StartsAre ==
    ASSUME NEW c, NEW len \in Nat \ {0}, DOMAIN c = 1..len
    PROVE  LET from == RunStarts(c)
               runs == Cardinality(Turns(c))
           IN /\ runs \in Nat /\ Len(from) = runs /\ DOMAIN from = 1..runs
              /\ \A n \in 1..runs : from[n] \in 1..len /\ from[n] \in Turns(c)
              /\ \A a, b \in 1..runs : a < b => from[a] < from[b]
              /\ \A x \in Turns(c) : \E n \in 1..runs : from[n] = x
              /\ 1 \in Turns(c)
<1>1. Turns(c) \in SUBSET (1..len) /\ 1 \in Turns(c)
  BY DEF Turns
<1>2. PICK runs : runs = Cardinality(Turns(c))
  OBVIOUS
<1>3. PICK S \in SUBSET (1..len) : S = Turns(c)
  BY <1>1
<1>4. PICK f : f = RunStarts(c)
  OBVIOUS
<1>5. f = [n \in 1..runs |-> CHOOSE x \in S : Cardinality({y \in S : y <= x}) = n]
  BY <1>2, <1>3, <1>4 DEF RunStarts
<1>6. /\ runs \in Nat /\ f \in Seq(S) /\ Len(f) = runs
      /\ \A n \in 1..runs : f[n] \in S
      /\ \A a, b \in 1..runs : a < b => f[a] < f[b]
      /\ \A x \in S : \E n \in 1..runs : f[n] = x
  <2>1. Enumerates(f, S, runs)
    BY <1>2, <1>3, <1>5, RankIs, Zenon
  <2> QED BY <2>1 DEF Enumerates
<1>7. DOMAIN f = 1..runs
  BY <1>5
<1> QED BY <1>1, <1>2, <1>3, <1>4, <1>6, <1>7

\* Between two turns all words are on one page.
LEMMA RunIsOnOnePage ==
    ASSUME NEW c, NEW len \in Nat \ {0}, DOMAIN c = 1..len,
           NEW a \in 1..len, NEW x \in 1..len, a <= x,
           \A y \in Turns(c) : ~(a < y /\ y <= x)
    PROVE  Page(c[x]) = Page(c[a])
<1> DEFINE Other == {y \in 1..len : a < y /\ y <= x /\ Page(c[y]) # Page(c[a])}
<1> SUFFICES ASSUME Page(c[x]) # Page(c[a]) PROVE FALSE
  OBVIOUS
<1>1. x \in Other /\ Other \in SUBSET Nat
  OBVIOUS
<1>2. PICK y \in Other : \A z \in Other : y <= z
  <2> HIDE DEF Other
  <2> QED BY <1>1, MinOf
<1>3. y \in 1..len /\ a < y /\ y <= x /\ Page(c[y]) # Page(c[a])
  OBVIOUS
<1>4. y - 1 \in 1..len /\ ~(y <= y - 1) /\ y # 1 /\ y - 1 <= x /\ (y - 1 = a \/ a < y - 1)
  BY <1>3
<1>5. y - 1 \notin Other
  <2> HIDE DEF Other
  <2> QED BY <1>2, <1>4
<1>6. Page(c[y - 1]) = Page(c[a])
  BY <1>4, <1>5
<1>7. y \in Turns(c)
  <2> HIDE DEF Other
  <2> QED BY <1>3, <1>6 DEF Turns
<1> HIDE DEF Other
<1> QED BY <1>3, <1>7

\* A range of the page offsets holds the words from the turn a up to the next one.
HoldsRun(c, len, offset, a) ==
    /\ a \in 1..len /\ offset.page = Page(c[a]) /\ offset.start_char = CharOf(a)
    /\ offset.end_char \in Int /\ offset.end_char < CharOf(len + 1) - 1
    /\ \E b \in (a + 1)..(len + 1) :
         /\ offset.end_char \in {CharOf(b) - 1, CharOf(b) - 2}
         /\ \A y \in Turns(c) : ~(a < y /\ y < b)
         /\ b = len + 1 \/ b \in Turns(c)

\* There is such a range for every turn, and no other.
LEMMA OffsetIs ==
    ASSUME ChunkerAssumption, NEW c, NEW len \in Nat \ {0},
           DOMAIN c = 1..len, Len(c) = len
    PROVE  /\ DOMAIN PageOffsets(c) = 1..Cardinality(Turns(c))
           /\ \A n \in 1..Cardinality(Turns(c)) :
                HoldsRun(c, len, PageOffsets(c)[n], RunStarts(c)[n])
<1>1. PICK from, runs : from = RunStarts(c) /\ runs = Cardinality(Turns(c))
  OBVIOUS
<1>2. /\ runs \in Nat /\ Len(from) = runs /\ DOMAIN from = 1..runs
      /\ \A n \in 1..runs : from[n] \in 1..len /\ from[n] \in Turns(c)
      /\ \A a, b \in 1..runs : a < b => from[a] < from[b]
      /\ \A x \in Turns(c) : \E n \in 1..runs : from[n] = x
  BY <1>1, StartsAre
<1>3. PageOffsets(c) =
        [n \in 1..runs |->
            [page |-> Page(c[from[n]]), start_char |-> CharOf(from[n]),
             end_char |-> IF n = runs THEN CharOf(len + 1) - 2 ELSE CharOf(from[n + 1]) - 1]]
  BY <1>1, <1>2 DEF PageOffsets
<1>4. ASSUME NEW n \in 1..runs
      PROVE  HoldsRun(c, len, PageOffsets(c)[n], from[n])
  <2>1. PICK end : end = IF n = runs THEN CharOf(len + 1) - 2 ELSE CharOf(from[n + 1]) - 1
    OBVIOUS
  <2>2. PICK offset : offset = PageOffsets(c)[n] /\ offset.page = Page(c[from[n]])
                      /\ offset.start_char = CharOf(from[n]) /\ offset.end_char = end
    BY <1>3, <2>1, SMTT(30)
  <2>3. PICK a \in 1..len : a = from[n]
    BY <1>2
  <2>4. \A y \in Turns(c) : \E m \in 1..runs : from[m] = y /\ (a < y => n < m)
    <3> TAKE y \in Turns(c)
    <3>1. PICK m \in 1..runs : from[m] = y
      BY <1>2
    <3>2. m < n => from[m] < a
      BY <1>2, <2>3
    <3>3. from[m] \in 1..len
      BY <1>2
    <3>4. a < y => ~(m < n) /\ m # n
      BY <2>3, <3>1, <3>2, <3>3
    <3>5. n \in Nat /\ m \in Nat
      BY <1>2
    <3> QED BY <3>1, <3>4, <3>5
  <2>5. PICK b \in (a + 1)..(len + 1) :
          /\ end \in {CharOf(b) - 1, CharOf(b) - 2}
          /\ \A y \in Turns(c) : ~(a < y /\ y < b)
          /\ b = len + 1 \/ b \in Turns(c)
          /\ end \in Int /\ end < CharOf(len + 1) - 1
    <3>1. CASE n = runs
      <4>1. len + 1 \in (a + 1)..(len + 1) /\ end = CharOf(len + 1) - 2
        BY <2>1, <3>1
      <4>2. \A y \in Turns(c) : ~(a < y)
        <5> TAKE y \in Turns(c)
        <5>1. PICK m \in 1..runs : a < y => n < m
          BY <2>4
        <5> QED BY <1>2, <3>1, <5>1
      <4>3. CharOf(len + 1) \in Int
        <5>1. len + 1 \in Nat /\ 0 \in Nat /\ 0 < len + 1
          OBVIOUS
        <5> QED BY <5>1, CharOfGrows
      <4>4. end \in Int /\ end < CharOf(len + 1) - 1
        BY <4>1, <4>3
      <4> QED BY <4>1, <4>2, <4>4
    <3>2. CASE n # runs
      <4>1. n + 1 \in 1..runs /\ n < n + 1
        <5>1. runs \in Nat /\ n \in Nat /\ 1 <= n /\ n <= runs
          BY <1>2
        <5> QED BY <3>2, <5>1
      <4>2. PICK b \in 1..len : b = from[n + 1] /\ a < b /\ b \in Turns(c)
        BY <1>2, <2>3, <4>1
      <4>3. b \in (a + 1)..(len + 1) /\ b \in Nat /\ len + 1 \in Nat /\ b < len + 1
        BY <4>2, SMTT(30)
      <4>4. \A y \in Turns(c) : ~(a < y /\ y < b)
        <5> TAKE y \in Turns(c)
        <5>1. PICK m \in 1..runs : from[m] = y /\ (a < y => n < m)
          BY <2>4
        <5>2. n + 1 < m => b < y
          BY <1>2, <4>1, <4>2, <5>1
        <5>3. y \in 1..len
          BY <1>2, <5>1
        <5>4. n < m => n + 1 < m \/ m = n + 1
          BY <1>2
        <5> QED BY <4>2, <5>1, <5>2, <5>3, <5>4, SMTT(30)
      <4>5. end = CharOf(b) - 1
        BY <2>1, <3>2, <4>2
      <4>6. CharOf(b) + WORD_LENGTH + 1 <= CharOf(len + 1)
            /\ CharOf(b) \in Int /\ CharOf(len + 1) \in Int
        BY <4>3, CharOfGrows
      <4>7. WORD_LENGTH \in Nat /\ WORD_LENGTH > 0
        BY DEF ChunkerAssumption
      <4>8. end \in Int /\ end < CharOf(len + 1) - 1
        <5>1. PICK cb \in Int, cl \in Int, w \in Nat :
                cb = CharOf(b) /\ cl = CharOf(len + 1) /\ w = WORD_LENGTH
          BY <4>6, <4>7
        <5>2. cb + w + 1 <= cl
          BY <4>6, <5>1
        <5>3. cb - 1 < cl - 1
          BY <5>2
        <5> QED BY <4>5, <5>1, <5>3
      <4> QED BY <4>2, <4>3, <4>4, <4>5, <4>8
    <3> QED BY <3>1, <3>2
  <2> QED BY <2>2, <2>3, <2>5 DEF HoldsRun
<1>5. DOMAIN PageOffsets(c) = 1..runs
  BY <1>3
<1> QED BY <1>1, <1>4, <1>5

\* What PagesKnown says of one word of a chunk and one range.
OffsetKnows(c, x, o) ==
    LET offsets == PageOffsets(c)
        inside == /\ offsets[o].start_char <= CharOf(x)
                  /\ CharOf(x) + WORD_LENGTH - 1 <= offsets[o].end_char
    IN /\ offsets[o].end_char < CharOf(Len(c) + 1) - 1
       /\ inside => offsets[o].page = Page(c[x])
       /\ \E p \in DOMAIN offsets :
            /\ offsets[p].start_char <= CharOf(x)
            /\ CharOf(x) + WORD_LENGTH - 1 <= offsets[p].end_char

\* It is true of the ranges of every chunk.
LEMMA OffsetsKnow ==
    ASSUME ChunkerAssumption, NEW c, NEW len \in Nat \ {0},
           DOMAIN c = 1..len, Len(c) = len,
           NEW x \in 1..len, NEW o \in DOMAIN PageOffsets(c)
    PROVE  OffsetKnows(c, x, o)
<1>1. PICK from, runs : from = RunStarts(c) /\ runs = Cardinality(Turns(c))
  OBVIOUS
<1>2. /\ runs \in Nat /\ \A n \in 1..runs : from[n] \in 1..len /\ from[n] \in Turns(c)
      /\ \A y \in Turns(c) : \E n \in 1..runs : from[n] = y
      /\ 1 \in Turns(c)
  BY <1>1, StartsAre
<1>3. PICK offsets : offsets = PageOffsets(c) /\ DOMAIN offsets = 1..runs
  BY <1>1, OffsetIs
<1>4. \A n \in 1..runs : HoldsRun(c, len, offsets[n], from[n])
  BY <1>1, <1>3, OffsetIs, Zenon
<1>5. WORD_LENGTH \in Nat /\ WORD_LENGTH > 0
  BY DEF ChunkerAssumption
<1>6. \A a, b \in 1..(len + 1) :
        /\ a < b => CharOf(a) + WORD_LENGTH + 1 <= CharOf(b)
        /\ CharOf(a) \in Int
  <2> TAKE a, b \in 1..(len + 1)
  <2>1. a \in Nat /\ b \in Nat /\ a + 1 \in Nat /\ a < a + 1
    OBVIOUS
  <2> QED BY <2>1, CharOfGrows
<1>7. x \in 1..(len + 1)
  OBVIOUS
<1>8. o \in 1..runs
  BY <1>3
<1>9. ASSUME offsets[o].start_char <= CharOf(x),
             CharOf(x) + WORD_LENGTH - 1 <= offsets[o].end_char
      PROVE  offsets[o].page = Page(c[x])
  <2>1. PICK a \in 1..len : a = from[o] /\ offsets[o].page = Page(c[a]) /\ offsets[o].start_char = CharOf(a)
    BY <1>4, <1>8 DEF HoldsRun
  <2>2. PICK b \in (a + 1)..(len + 1) :
             /\ offsets[o].end_char \in {CharOf(b) - 1, CharOf(b) - 2}
             /\ \A y \in Turns(c) : ~(a < y /\ y < b)
    BY <1>4, <1>8, <2>1 DEF HoldsRun
  <2>3. a \in 1..(len + 1) /\ b \in 1..(len + 1)
    OBVIOUS
  <2>4. a <= x
    <3>1. x < a => CharOf(x) + WORD_LENGTH + 1 <= CharOf(a)
      BY <1>6, <1>7, <2>3
    <3>2. CharOf(x) \in Int /\ CharOf(a) \in Int /\ CharOf(a) <= CharOf(x)
      BY <1>6, <1>7, <1>9, <2>1, <2>3
    <3> QED BY <1>5, <3>1, <3>2
  <2>5. x < b
    <3>1. b < x => CharOf(b) + WORD_LENGTH + 1 <= CharOf(x)
      BY <1>6, <1>7, <2>3
    <3>2. CharOf(x) \in Int /\ CharOf(b) \in Int
      BY <1>6, <1>7, <2>3
    <3>3. CharOf(x) + WORD_LENGTH - 1 <= CharOf(b) - 1
      BY <1>5, <1>9, <2>2, <3>2, SMTT(30)
    <3>4. ~(b < x) /\ b # x
      BY <1>5, <3>1, <3>2, <3>3, SMTT(30)
    <3> QED BY <3>4
  <2>6. \A y \in Turns(c) : ~(a < y /\ y <= x)
    <3> TAKE y \in Turns(c)
    <3>1. y \in 1..len
      BY DEF Turns
    <3> QED BY <2>2, <2>5, <3>1
  <2>7. Page(c[x]) = Page(c[a])
    BY <2>4, <2>6, RunIsOnOnePage, Zenon
  <2> QED BY <2>1, <2>7
<1>10. \E p \in 1..runs :
         /\ offsets[p].start_char <= CharOf(x)
         /\ CharOf(x) + WORD_LENGTH - 1 <= offsets[p].end_char
  <2> DEFINE Before0 == {y \in Turns(c) : y <= x}
  <2>1. Before0 \in SUBSET Nat /\ 1 \in Before0 /\ \A y \in Before0 : y <= x
    BY <1>2 DEF Turns
  <2>2. PICK a \in Before0 : \A y \in Before0 : a >= y
    <3> HIDE DEF Before0
    <3>1. x \in Nat
      OBVIOUS
    <3> QED BY <2>1, <3>1, MaxOf
  <2>3. PICK p \in 1..runs : from[p] = a
    BY <1>2
  <2>4. a \in 1..len /\ a <= x
    BY DEF Turns
  <2>5. PICK b \in (a + 1)..(len + 1) :
             /\ offsets[p].end_char \in {CharOf(b) - 1, CharOf(b) - 2}
             /\ b = len + 1 \/ b \in Turns(c)
    BY <1>4, <2>3 DEF HoldsRun
  <2>6. x < b
    <3>1. CASE b = len + 1
      BY <3>1
    <3>2. CASE b \in Turns(c)
      <4>1. b \notin Before0
        <5> HIDE DEF Before0
        <5> QED BY <2>2, <2>4
      <4> QED BY <2>4, <3>2, <4>1
    <3> QED BY <2>5, <3>1, <3>2
  <2> HIDE DEF Before0
  <2>7. a \in 1..(len + 1) /\ b \in 1..(len + 1)
    BY <2>4
  <2>8. CharOf(x) + WORD_LENGTH + 1 <= CharOf(b)
    BY <1>6, <1>7, <2>6, <2>7
  <2>9. CharOf(a) \in Int /\ CharOf(b) \in Int /\ CharOf(x) \in Int
    BY <1>6, <1>7, <2>7
  <2>10. CharOf(a) <= CharOf(x)
    <3>1. a < x => CharOf(a) + WORD_LENGTH + 1 <= CharOf(x)
      BY <1>6, <1>7, <2>7
    <3>2. a = x \/ a < x
      BY <2>4
    <3> QED BY <1>5, <2>9, <3>1, <3>2, SMTT(30)
  <2>11. CharOf(x) + WORD_LENGTH - 1 <= offsets[p].end_char
    <3>1. CASE offsets[p].end_char = CharOf(b) - 1
      <4>1. PICK cx \in Int, cb \in Int, w \in Int : cx = CharOf(x) /\ cb = CharOf(b) /\ w = WORD_LENGTH
        BY <1>5, <2>9
      <4>2. cx + w + 1 <= cb
        BY <2>8, <4>1
      <4>3. cx + w - 1 <= cb - 1
        BY <4>2
      <4> QED BY <3>1, <4>1, <4>3
    <3>2. CASE offsets[p].end_char = CharOf(b) - 2
      <4>1. PICK cx \in Int, cb \in Int, w \in Int : cx = CharOf(x) /\ cb = CharOf(b) /\ w = WORD_LENGTH
        BY <1>5, <2>9
      <4>2. cx + w + 1 <= cb
        BY <2>8, <4>1
      <4>3. cx + w - 1 <= cb - 2
        BY <4>2
      <4> QED BY <3>2, <4>1, <4>3
    <3> QED BY <2>5, <3>1, <3>2
  <2>12. offsets[p].start_char = CharOf(a)
    BY <1>4, <2>3 DEF HoldsRun
  <2> QED BY <2>10, <2>11, <2>12
<1>11. offsets[o].end_char < CharOf(len + 1) - 1
  BY <1>4, <1>8 DEF HoldsRun
<1> QED BY <1>3, <1>9, <1>10, <1>11 DEF OffsetKnows

\* Passages are there when, and only when, all is done; what is said of their
\* ranges is the property itself.
PassagesOK == (pc # "done" => passages = <<>>) /\ PagesKnown

\* Build makes the passages out of what has been merged, and nothing changes
\* after it.
LEMMA PassagesStand ==
    ASSUME ChunkerAssumption, PassagesOK, ChunkerInv, [ChunkerNext]_chunkVars
    PROVE  PassagesOK'
<1>1. CASE passages' = <<>> /\ pc' # "done"
  <2>1. DOMAIN passages' = {}
    BY <1>1
  <2> QED BY <1>1, <2>1 DEF PassagesOK, PagesKnown
<1>2. CASE UNCHANGED chunkVars
  BY <1>2 DEF PassagesOK, PagesKnown, chunkVars, Page
<1>3. CASE Build
  <2>1. /\ words' = words /\ merged' = merged /\ pc' = "done"
        /\ passages' = [n \in DOMAIN merged |->
                           [page_offsets |-> PageOffsets(merged[n]),
                            printed |-> Stamped(merged[n], PageOffsets(merged[n]))]]
    BY <1>3 DEF Build
  <2>2. /\ merged \in Seq(Seq(1..Len(words))) /\ DOMAIN merged = 1..Len(merged)
        /\ \A n \in 1..Len(merged) : Len(merged[n]) > 0
    BY LenProperties DEF ChunkerInv, MergedOK, InOrder
  <2>3. ASSUME NEW n \in DOMAIN merged, NEW x \in DOMAIN merged[n],
               NEW o \in DOMAIN PageOffsets(merged[n])
        PROVE  OffsetKnows(merged[n], x, o)
    <3>1. merged[n] \in Seq(1..Len(words)) /\ Len(merged[n]) > 0
      BY <2>2, ElementOfSeq
    <3>2. PICK len \in Nat \ {0} : len = Len(merged[n]) /\ DOMAIN merged[n] = 1..len
      BY <3>1, LenProperties
    <3>3. x \in 1..len
      BY <3>2
    <3> QED BY <3>2, <3>3, OffsetsKnow, Zenon
  <2>4. /\ DOMAIN passages' = DOMAIN merged
        /\ \A n \in DOMAIN merged : passages'[n].page_offsets = PageOffsets(merged[n])
    BY <2>1
  <2>5. PagesKnown'
    BY <2>1, <2>3, <2>4 DEF PagesKnown, OffsetKnows, Page
  <2> QED BY <2>1, <2>5 DEF PassagesOK
<1>4. CASE ChunkerNext /\ ~Build
  <2>1. passages' = passages /\ pc # "done" /\ pc' # "done"
    BY <1>4 DEF ChunkerNext, TakeUnit, Absorb, Oversized, CutPiece, NextPass, EnforceCeiling, Merge
  <2> QED BY <1>1, <2>1 DEF PassagesOK
<1> QED BY <1>2, <1>3, <1>4

\* The page offsets tell every word's page, however the chunk was overlapped,
\* cut and merged: a citation's offsets lead to the page that holds its words.
THEOREM PagesAreKnown == ChunkerSpec => []PagesKnown
<1>1. ChunkerInit => PassagesOK
  BY DEF ChunkerInit, PassagesOK, PagesKnown
<1>2. PassagesOK /\ ChunkerInv /\ [ChunkerNext]_chunkVars => PassagesOK'
  BY PassagesStand, ChunkerAssumption
<1>3. PassagesOK => PagesKnown
  BY DEF PassagesOK
<1> QED BY <1>1, <1>2, <1>3, ChunkerInvariant, PTL DEF ChunkerSpec

-----------------------------------------------------------------------------
(* The printed numbers. *)

\* The pages of a text never turn back.
PagesAscend(text) ==
    \A k, l \in DOMAIN text :
        text[k].page \in Nat /\ (k <= l => text[k].page <= text[l].page)

\* A page has a number, and a later line's is not smaller.
LEMMA PageOfGrows ==
    ASSUME NEW lines, NEW l \in Nat, NEW m \in Nat, l <= m
    PROVE  PageOf(lines, l) \in Nat /\ PageOf(lines, l) <= PageOf(lines, m)
<1> DEFINE Turned(x) == {y \in 2..x : lines[y].turns}
<1>1. \A x \in Nat : IsFiniteSet(Turned(x)) /\ Cardinality(Turned(x)) \in Nat
  <2> TAKE x \in Nat
  <2>1. IsFiniteSet(2..x) /\ Turned(x) \in SUBSET (2..x)
    BY 2 \in Int, x \in Int, FS_Interval
  <2>2. IsFiniteSet(Turned(x))
    BY <2>1, FS_Subset, Zenon
  <2> QED BY <2>2, FS_CardinalityType, Zenon
<1>2. Turned(l) \in SUBSET Turned(m)
  OBVIOUS
<1>3. Cardinality(Turned(l)) <= Cardinality(Turned(m))
  <2> HIDE DEF Turned
  <2> QED BY <1>1, <1>2, FS_Subset
<1>4. PageOf(lines, l) = 1 + Cardinality(Turned(l)) /\ PageOf(lines, m) = 1 + Cardinality(Turned(m))
  BY DEF PageOf
<1>5. PICK a \in Nat, b \in Nat : a = Cardinality(Turned(l)) /\ b = Cardinality(Turned(m)) /\ a <= b
  BY <1>1, <1>3
<1> HIDE DEF Turned
<1> QED BY <1>4, <1>5

\* A word's line is not before those of the words before it, and so its page.
LEMMA TextAscends ==
    ASSUME ChunkerAssumption, NEW lines \in Books
    PROVE  PagesAscend(Flatten(lines))
<1>1. PICK n \in Nat : n = Len(lines) /\ DOMAIN lines = 1..n
  <2>1. PICK n \in 0..MaxLines : lines \in [1..n -> Line]
    BY DEF Books, SeqOf
  <2> QED BY <2>1 DEF ChunkerAssumption
<1> DEFINE upTo == [l \in 0..n |-> UpTo(lines, l)]
<1> DEFINE Ended(k) == {m \in 1..n : upTo[m] < k}
<1>2. PICK top \in Nat : top = upTo[n]
  BY <1>1, WordsCounted
<1>3. \A m \in 1..n : upTo[m] \in Nat
  BY <1>1, WordsCounted
<1>4. \A k \in Nat : IsFiniteSet(Ended(k)) /\ Cardinality(Ended(k)) \in Nat
  <2> TAKE k \in Nat
  <2>1. IsFiniteSet(1..n) /\ Ended(k) \in SUBSET (1..n)
    BY 1 \in Int, n \in Int, FS_Interval
  <2> HIDE DEF Ended
  <2>2. IsFiniteSet(Ended(k))
    BY <2>1, FS_Subset, Zenon
  <2> QED BY <2>2, FS_CardinalityType, Zenon
<1>5. /\ DOMAIN Flatten(lines) = 1..top
      /\ \A k \in 1..top : Flatten(lines)[k].page = PageOf(lines, 1 + Cardinality(Ended(k)))
  BY <1>1, <1>2 DEF Flatten
<1>6. ASSUME NEW k \in 1..top, NEW l \in 1..top
      PROVE  /\ PageOf(lines, 1 + Cardinality(Ended(k))) \in Nat
             /\ k <= l => PageOf(lines, 1 + Cardinality(Ended(k))) <= PageOf(lines, 1 + Cardinality(Ended(l)))
  <2>1. k \in Nat /\ l \in Nat
    OBVIOUS
  <2>2. PICK a \in Nat, b \in Nat : a = Cardinality(Ended(k)) /\ b = Cardinality(Ended(l))
    <3> HIDE DEF Ended
    <3> QED BY <1>4, <2>1
  <2>3. k <= l => a <= b
    <3> SUFFICES ASSUME k <= l PROVE a <= b
      OBVIOUS
    <3>1. Ended(k) \in SUBSET Ended(l)
      <4> HIDE DEF upTo
      <4> QED BY <1>3, <2>1
    <3> HIDE DEF Ended
    <3> QED BY <1>4, <2>1, <2>2, <3>1, FS_Subset
  <2>4. 1 + a \in Nat /\ 1 + b \in Nat /\ 1 + a <= 1 + a /\ (a <= b => 1 + a <= 1 + b)
    OBVIOUS
  <2> HIDE DEF Ended
  <2> QED BY <2>2, <2>3, <2>4, PageOfGrows
<1> HIDE DEF Ended, upTo
<1> QED BY <1>5, <1>6 DEF PagesAscend

\* The words among which the search for a range's page looks.
Seen(c, offsets, n, after) == {x \in DOMAIN c : x > after /\ Page(c[x]) >= offsets[n].page}

\* Where the search has come to after n ranges.
Searches(at, c, offsets) ==
    at = [n \in 0..Len(offsets) |->
             IF n = 0 THEN 0
             ELSE IF Seen(c, offsets, n, at[n - 1]) = {} THEN Len(c)
             ELSE Min(Seen(c, offsets, n, at[n - 1]))]

\* Which ranges get their printed number in a search.
StampedBy(at, c, offsets) ==
    Stamped(c, offsets) =
        [n \in DOMAIN offsets |->
            /\ Seen(c, offsets, n, at[n - 1]) # {}
            /\ Page(c[at[n]]) = offsets[n].page]

\* The numbers are those of some such search.
LEMMA StampedBySearch ==
    ASSUME NEW c, NEW offsets, NEW g, Searches(g, c, offsets)
    PROVE  \E at : Searches(at, c, offsets) /\ StampedBy(at, c, offsets)
<1> DEFINE at == CHOOSE f : Searches(f, c, offsets)
<1>1. Searches(at, c, offsets)
  <2> HIDE DEF Searches
  <2> QED OBVIOUS
<1>2. Stamped(c, offsets) =
        [n \in DOMAIN offsets |->
            /\ Seen(c, offsets, n, at[n - 1]) # {}
            /\ Page(c[at[n]]) = offsets[n].page]
  BY DEF Stamped, Searches, Seen
<1>3. StampedBy(at, c, offsets)
  BY <1>2 DEF StampedBy
<1> HIDE DEF at, Searches
<1> QED BY <1>1, <1>3, Zenon

\* The pages of a chunk never turn back.
Climbs(c, len) ==
    /\ DOMAIN c = 1..len
    /\ \A x, y \in 1..len :
         Page(c[x]) \in Nat /\ (x <= y => Page(c[x]) <= Page(c[y]))

\* The search for the page of the n-th range comes to the word t.
Finds(c, offsets, n, after, t) ==
    Seen(c, offsets, n, after) # {} /\ Min(Seen(c, offsets, n, after)) = t

\* A search from before a turn comes to that turn.
LEMMA TurnIsFound ==
    ASSUME NEW c, NEW len \in Nat \ {0}, Climbs(c, len),
           NEW t \in Turns(c), NEW offsets, NEW n, NEW after \in Nat,
           offsets[n].page = Page(c[t]) /\ after < t
    PROVE  Finds(c, offsets, n, after, t)
<1> DEFINE S == Seen(c, offsets, n, after)
<1>1. t \in 1..len /\ (t = 1 \/ Page(c[t]) # Page(c[t - 1]))
  BY DEF Turns, Climbs
<1>2. ASSUME NEW y \in 1..len, y < t PROVE Page(c[y]) < Page(c[t])
  <2>1. t - 1 \in 1..len /\ t # 1 /\ y <= t - 1 /\ t - 1 <= t
    BY <1>1, <1>2
  <2>2. Page(c[y]) <= Page(c[t - 1]) /\ Page(c[t - 1]) <= Page(c[t]) /\ Page(c[t]) # Page(c[t - 1])
    BY <1>1, <2>1 DEF Climbs
  <2>3. Page(c[y]) \in Nat /\ Page(c[t - 1]) \in Nat /\ Page(c[t]) \in Nat
    BY <1>1, <2>1 DEF Climbs
  <2> QED BY <2>2, <2>3
<1>3. Page(c[t]) \in Nat
  BY <1>1 DEF Climbs
<1>4. t \in S
  BY <1>1, <1>3 DEF Seen, Climbs
<1>5. \A x \in S : x \in 1..len /\ t <= x
  <2> TAKE x \in S
  <2>1. x \in 1..len /\ Page(c[x]) >= Page(c[t])
    BY DEF Seen, Climbs
  <2>2. Page(c[x]) \in Nat
    BY <2>1 DEF Climbs
  <2>3. ~(x < t)
    BY <1>2, <1>3, <2>1, <2>2
  <2> QED BY <1>1, <2>1, <2>3
<1> HIDE DEF S
<1>6. S \in SUBSET Nat /\ S # {}
  BY <1>4, <1>5
<1>7. Min(S) \in S /\ \A y \in S : Min(S) <= y
  BY <1>6, MinOf, Zenon
<1>8. Min(S) <= t /\ t <= Min(S) /\ Min(S) \in Nat
  BY <1>4, <1>5, <1>6, <1>7
<1>9. Min(S) = t
  BY <1>1, <1>8
<1> QED BY <1>6, <1>9 DEF S, Finds

\* In a chunk that is one stretch of the book the search finds every turn.
LEMMA AllStamped ==
    ASSUME ChunkerAssumption, NEW c, NEW len \in Nat \ {0},
           Climbs(c, len), Len(c) = len
    PROVE  \A o \in DOMAIN Stamped(c, PageOffsets(c)) : Stamped(c, PageOffsets(c))[o]
<1>1. DOMAIN c = 1..len
  BY DEF Climbs
<1>2. PICK from, runs : from = RunStarts(c) /\ runs = Cardinality(Turns(c))
  OBVIOUS
<1>3. /\ runs \in Nat /\ \A n \in 1..runs : from[n] \in 1..len /\ from[n] \in Turns(c)
      /\ \A a, b \in 1..runs : a < b => from[a] < from[b]
  BY <1>2, <1>1, StartsAre
<1>4. PICK offsets : offsets = PageOffsets(c) /\ DOMAIN offsets = 1..runs /\ Len(offsets) = runs
  <2>1. PICK f : f = PageOffsets(c) /\ DOMAIN f = 1..runs /\ f = [n \in 1..runs |-> f[n]]
    <3>1. DOMAIN PageOffsets(c) = 1..runs
      BY <1>1, <1>2, OffsetIs
    <3> QED BY <3>1 DEF PageOffsets
  <2>2. f \in [1..runs -> {f[n] : n \in 1..runs}]
    BY <2>1
  <2>3. Len(f) = runs
    BY <1>3, <2>2, FunIsSeq, Zenon
  <2> QED BY <2>1, <2>3
<1>5. \A n \in 1..runs : offsets[n].page = Page(c[from[n]])
  <2>1. \A n \in 1..runs : HoldsRun(c, len, offsets[n], from[n])
    BY <1>1, <1>2, <1>4, OffsetIs, Zenon
  <2> QED BY <2>1 DEF HoldsRun
<1>6. ASSUME NEW n \in 1..runs, NEW after \in Nat, after < from[n]
      PROVE  Seen(c, offsets, n, after) # {} /\ Min(Seen(c, offsets, n, after)) = from[n]
  <2>1. from[n] \in Turns(c) /\ offsets[n].page = Page(c[from[n]])
    BY <1>3, <1>5
  <2>2. PICK t \in Turns(c) : t = from[n] /\ offsets[n].page = Page(c[t]) /\ after < t
    BY <1>6, <2>1
  <2>3. Finds(c, offsets, n, after, t)
    BY <2>2, TurnIsFound, Zenon
  <2> QED BY <2>2, <2>3 DEF Finds
<1> DEFINE g == [n \in 0..runs |-> IF n = 0 THEN 0 ELSE from[n]]
<1>7. ASSUME NEW n \in 1..runs
      PROVE  /\ n - 1 \in 0..runs /\ n \in 0..runs /\ n # 0
             /\ g[n] = from[n] /\ g[n - 1] \in Nat /\ g[n - 1] < from[n]
  <2>1. n - 1 \in 0..runs /\ n \in 0..runs /\ n # 0 /\ from[n] \in 1..len
    BY <1>3
  <2>2. CASE n = 1
    BY <2>1, <2>2
  <2>3. CASE n # 1
    <3>1. n - 1 \in 1..runs /\ n - 1 < n /\ n - 1 # 0
      BY <1>3, <2>3
    <3>2. from[n - 1] < from[n] /\ from[n - 1] \in 1..len
      BY <1>3, <3>1
    <3> QED BY <2>1, <3>1, <3>2
  <2> QED BY <2>2, <2>3
<1>8. g[0] = 0 /\ DOMAIN g = 0..runs
  BY <1>3
<1> HIDE DEF g
<1>9. Searches(g, c, offsets)
  <2>1. ASSUME NEW n \in 0..runs
        PROVE  g[n] = IF n = 0 THEN 0
                      ELSE IF Seen(c, offsets, n, g[n - 1]) = {} THEN Len(c)
                      ELSE Min(Seen(c, offsets, n, g[n - 1]))
    <3>1. CASE n = 0
      BY <1>8, <3>1
    <3>2. CASE n # 0
      <4>1. n \in 1..runs
        BY <1>3, <3>2
      <4>2. Seen(c, offsets, n, g[n - 1]) # {} /\ Min(Seen(c, offsets, n, g[n - 1])) = from[n]
        BY <1>6, <1>7, <4>1
      <4> QED BY <1>7, <3>2, <4>1, <4>2
    <3> QED BY <3>1, <3>2
  <2>2. g = [n \in 0..runs |-> g[n]]
    BY <1>8 DEF g
  <2> QED BY <1>4, <2>1, <2>2 DEF Searches
<1>10. PICK at :
        /\ Searches(at, c, offsets)
        /\ StampedBy(at, c, offsets)
  BY <1>9, StampedBySearch, Zenon
<1>11. \A n \in 0..runs :
         at[n] = IF n = 0 THEN 0
                 ELSE IF Seen(c, offsets, n, at[n - 1]) = {} THEN Len(c)
                 ELSE Min(Seen(c, offsets, n, at[n - 1]))
  BY <1>4, <1>10 DEF Searches
<1> DEFINE Wrong == {n \in 0..runs : at[n] # g[n]}
<1>12. Wrong = {}
  <2> SUFFICES ASSUME Wrong # {} PROVE FALSE
    OBVIOUS
  <2>1. PICK m \in Wrong : \A n \in Wrong : m <= n
    <3>1. Wrong \in SUBSET Nat
      OBVIOUS
    <3> HIDE DEF Wrong
    <3> QED BY <3>1, MinOf
  <2>2. m \in 0..runs /\ at[m] # g[m]
    OBVIOUS
  <2>3. m # 0
    <3>1. 0 \in 0..runs
      BY <1>3
    <3> QED BY <1>8, <1>11, <2>2, <3>1
  <2>4. m \in 1..runs /\ m - 1 \in 0..runs /\ ~(m <= m - 1)
    BY <1>3, <2>2, <2>3
  <2>5. at[m - 1] = g[m - 1]
    <3>1. m - 1 \notin Wrong
      <4> HIDE DEF Wrong
      <4> QED BY <2>1, <2>4
    <3> QED BY <2>4, <3>1
  <2> HIDE DEF Wrong
  <2>6. Seen(c, offsets, m, g[m - 1]) # {} /\ Min(Seen(c, offsets, m, g[m - 1])) = from[m]
    BY <1>6, <1>7, <2>4
  <2>7. at[m] = from[m]
    BY <1>11, <2>2, <2>3, <2>5, <2>6
  <2> QED BY <1>7, <2>2, <2>4, <2>7
<1>13. ASSUME NEW n \in 1..runs
       PROVE  Seen(c, offsets, n, at[n - 1]) # {} /\ Page(c[at[n]]) = offsets[n].page
  <2>1. n - 1 \in 0..runs /\ n \in 0..runs
    BY <1>7
  <2>2. at[n - 1] = g[n - 1] /\ at[n] = from[n]
    BY <1>7, <1>12, <2>1
  <2>3. Seen(c, offsets, n, g[n - 1]) # {}
    BY <1>6, <1>7
  <2> QED BY <1>5, <2>2, <2>3
<1> QED BY <1>4, <1>10, <1>13 DEF StampedBy

\* Passages are there when, and only when, all is done; the text's pages never
\* turn back.
PrintedOK ==
    (pc # "done" => passages = <<>>) /\ PagesAscend(words) /\ PrintedKept

\* Build stamps every range of a chunk that is one stretch of the book, and
\* nothing changes after it.
LEMMA PrintedStands ==
    ASSUME ChunkerAssumption, PrintedOK, ChunkerInv, [ChunkerNext]_chunkVars
    PROVE  PrintedOK'
<1>1. CASE passages' = <<>> /\ pc' # "done" /\ words' = words
  <2>1. DOMAIN passages' = {}
    BY <1>1
  <2> QED BY <1>1, <2>1 DEF PrintedOK, PrintedKept
<1>2. CASE UNCHANGED chunkVars
  BY <1>2 DEF PrintedOK, PrintedKept, chunkVars
<1>3. CASE Build
  <2>1. /\ words' = words /\ merged' = merged /\ pc' = "done"
        /\ passages' = [n \in DOMAIN merged |->
                           [page_offsets |-> PageOffsets(merged[n]),
                            printed |-> Stamped(merged[n], PageOffsets(merged[n]))]]
    BY <1>3 DEF Build
  <2>2. PICK last \in Nat : last = Len(words) /\ DOMAIN words = 1..last
    BY DEF ChunkerInv, TextOK
  <2>3. /\ merged \in Seq(Seq(1..last)) /\ DOMAIN merged = 1..Len(merged)
        /\ \A n \in 1..Len(merged) : Len(merged[n]) > 0
    BY <2>2, LenProperties DEF ChunkerInv, MergedOK, InOrder
  <2>4. ASSUME NEW n \in DOMAIN merged,
               merged[n] = Span(Head(merged[n]), Last(merged[n]))
        PROVE  \A o \in DOMAIN Stamped(merged[n], PageOffsets(merged[n])) :
                  Stamped(merged[n], PageOffsets(merged[n]))[o]
    <3>1. merged[n] \in Seq(1..last) /\ Len(merged[n]) > 0
      BY <2>3, ElementOfSeq
    <3>2. PICK len \in Nat \ {0} : len = Len(merged[n]) /\ DOMAIN merged[n] = 1..len
      BY <3>1, LenProperties
    <3>3. \A x \in 1..len : merged[n][x] \in 1..last
      BY <3>1, <3>2, ElementOfSeq
    <3>4. PICK c, a, b : c = merged[n] /\ a = Head(merged[n]) /\ b = Last(merged[n])
      OBVIOUS
    <3>5. a \in Int /\ \A x \in 1..len : c[x] = a + x - 1
      <4>1. a = c[1] /\ 1 \in 1..len
        BY <3>1, <3>2, <3>4
      <4>2. c = [k \in 1..(b - a + 1) |-> a + k - 1]
        BY <2>4, <3>4, Zenon DEF Span
      <4>3. \A x \in DOMAIN c : c[x] = a + x - 1
        BY <4>2
      <4>4. a \in 1..last /\ DOMAIN c = 1..len
        BY <3>2, <3>3, <3>4, <4>1
      <4>5. a \in Int
        BY <4>4
      <4> QED BY <4>3, <4>4, <4>5
    <3>6. ASSUME NEW x \in 1..len, NEW y \in 1..len
          PROVE  Page(c[x]) \in Nat /\ (x <= y => Page(c[x]) <= Page(c[y]))
      <4>1. c[x] \in DOMAIN words /\ c[y] \in DOMAIN words /\ (x <= y => c[x] <= c[y])
        <5>1. c[x] = a + x - 1 /\ c[y] = a + y - 1 /\ a \in Int
          BY <3>5
        <5>2. c[x] \in 1..last /\ c[y] \in 1..last
          BY <3>3, <3>4
        <5>3. x <= y => a + x - 1 <= a + y - 1
          BY <5>1
        <5> QED BY <2>2, <5>1, <5>2, <5>3
      <4> QED BY <4>1 DEF PrintedOK, PagesAscend, Page
    <3>7. Climbs(c, len) /\ Len(c) = len
      BY <3>2, <3>4, <3>6 DEF Climbs
    <3>8. \A o \in DOMAIN Stamped(c, PageOffsets(c)) : Stamped(c, PageOffsets(c))[o]
      BY <3>7, AllStamped, Zenon
    <3> QED BY <3>4, <3>8
  <2>5. /\ DOMAIN passages' = DOMAIN merged
        /\ \A n \in DOMAIN merged :
             passages'[n].printed = Stamped(merged[n], PageOffsets(merged[n]))
    BY <2>1
  <2>6. PrintedKept'
    BY <2>1, <2>4, <2>5 DEF PrintedKept, Span
  <2> QED BY <2>1, <2>6 DEF PrintedOK
<1>4. CASE ChunkerNext /\ ~Build
  <2>1. passages' = passages /\ pc # "done" /\ pc' # "done" /\ words' = words
    BY <1>4 DEF ChunkerNext, TakeUnit, Absorb, Oversized, CutPiece, NextPass, EnforceCeiling, Merge
  <2> QED BY <1>1, <2>1 DEF PrintedOK
<1> QED BY <1>2, <1>3, <1>4

\* Every page of a chunk that is one stretch of the book gets its printed
\* number: the one pass over the words misses none.
THEOREM PrintedAreKept == ChunkerSpec => []PrintedKept
<1>1. ChunkerInit => PrintedOK
  <2> SUFFICES ASSUME ChunkerInit PROVE PrintedOK
    OBVIOUS
  <2>1. PICK lines \in Books : words = Flatten(lines) /\ passages = <<>>
    BY DEF ChunkerInit
  <2>2. PagesAscend(words)
    BY <2>1, TextAscends, ChunkerAssumption
  <2> QED BY <2>1, <2>2 DEF PrintedOK, PrintedKept
<1>2. PrintedOK /\ ChunkerInv /\ [ChunkerNext]_chunkVars => PrintedOK'
  BY PrintedStands, ChunkerAssumption
<1>3. PrintedOK => PrintedKept
  BY DEF PrintedOK
<1> QED BY <1>1, <1>2, <1>3, ChunkerInvariant, PTL DEF ChunkerSpec
-----------------------------------------------------------------------------
(* The numbers printed on the pages. *)

\* Of pages numbered pr, all of which but those of M go by their place and a
\* shift, no more have a smaller number than the page before than are in M: a
\* drop at a page of M is charged to that page, and one at any other page to a
\* page of the run of M before it at which the numbers do not drop.
LEMMA DropsArePaid ==
    ASSUME NEW N \in Nat, NEW T \in Int, NEW pr \in [1..N -> Int], NEW M \in SUBSET (1..N),
           \A p \in (1..N) \ M : pr[p] = p + T
    PROVE  /\ IsFiniteSet(M)
           /\ IsFiniteSet({p \in 2..N : pr[p] < pr[p - 1]})
           /\ Cardinality({p \in 2..N : pr[p] < pr[p - 1]}) <= Cardinality(M)
<1> DEFINE V == {p \in 2..N : pr[p] < pr[p - 1]}
           Pays(q, p) == q \in M \ V /\ q < p /\ \A x \in q..(p - 1) : x \in M
<1>1. IsFiniteSet(M)
  <2>1. IsFiniteSet(1..N)
    BY FS_Interval
  <2> QED BY <2>1, FS_Subset, Zenon
<1>2. ASSUME NEW p \in V \ M PROVE \E q \in M : Pays(q, p)
  <2> DEFINE Right == {a \in (1..N) \ M : a < p}
  <2>1. p \in 2..N /\ p \in Nat /\ pr[p] = p + T
    OBVIOUS
  <2>2. CASE Right = {}
    <3>1. \A x \in 1..(p - 1) : x \in M
      BY <2>1, <2>2
    <3>2. 1 \in M /\ 1 \notin V /\ 1 < p
      BY <2>1, <3>1
    <3> QED BY <3>1, <3>2
  <2>3. CASE Right # {}
    <3>1. Right \in SUBSET Nat /\ \A x \in Right : x <= p
      BY <2>1
    <3>2. PICK a \in Right : \A y \in Right : a >= y
      BY <2>1, <2>3, <3>1, MaxOf, Zenon
    <3>3. a \in 1..N /\ a < p /\ a \in Nat /\ pr[a] = a + T
      OBVIOUS
    <3>4. \A x \in (a + 1)..(p - 1) : x \in M
      BY <2>1, <3>2, <3>3
    <3> DEFINE Above == {x \in (a + 1)..p : pr[x] >= pr[a]}
    <3>5. Above \in SUBSET Nat /\ Above # {}
      <4>1. p \in Above
        BY <2>1, <3>3
      <4>2. \A x \in (a + 1)..p : x \in Nat
        BY <2>1, <3>3
      <4> QED BY <4>1, <4>2
    <3>6. PICK q \in Above : \A y \in Above : q <= y
      BY <3>5, MinOf, Zenon
    <3>7. q \in (a + 1)..p /\ q \in 1..N /\ pr[q] >= pr[a]
      BY <2>1, <3>3
    <3>8. q \notin V
      <4>1. CASE q = a + 1
        BY <3>3, <3>7, <4>1
      <4>2. CASE q # a + 1
        <5>1. q - 1 \in (a + 1)..p /\ q - 1 \in 1..N /\ ~ (q <= q - 1)
          BY <2>1, <3>3, <3>7, <4>2
        <5>2. ~ (pr[q - 1] >= pr[a])
          BY <3>6, <5>1
        <5> QED BY <3>3, <3>7, <5>1, <5>2
      <4> QED BY <4>1, <4>2
    <3>9. q < p
      BY <2>1, <3>3, <3>7, <3>8
    <3>10. q \in M /\ \A x \in q..(p - 1) : x \in M
      BY <2>1, <3>3, <3>4, <3>7, <3>9
    <3> QED BY <3>8, <3>9, <3>10
  <2> QED BY <2>2, <2>3
<1> DEFINE f == [p \in V |-> IF p \in M THEN p ELSE CHOOSE q \in M : Pays(q, p)]
<1>3. \A p \in V : f[p] \in M /\ (p \notin M => Pays(f[p], p)) /\ (p \in M => f[p] = p)
  <2> TAKE p \in V
  <2>1. CASE p \in M
    BY <2>1
  <2>2. CASE p \notin M
    BY <1>2, <2>2, Zenon
  <2> QED BY <2>1, <2>2
<1>4. f \in [V -> M]
  BY <1>3
<1>5. ASSUME NEW p \in V, NEW o \in V, f[p] = f[o] PROVE p = o
  <2> HIDE DEF f
  <2>1. CASE p \in M \/ o \in M
    <3>1. (p \in M => f[p] = p) /\ (o \in M => f[o] = o)
      BY <1>3, Zenon
    <3>2. (p \notin M => f[p] \notin V) /\ (o \notin M => f[o] \notin V)
      BY <1>3, Zenon
    <3> HIDE DEF V
    <3> QED BY <1>5, <2>1, <3>1, <3>2
  <2>2. CASE p \notin M /\ o \notin M
    <3>1. f[p] \in M \ V /\ f[p] < p /\ \A x \in f[p]..(p - 1) : x \in M
      BY <1>3, <2>2
    <3>2. f[p] < o /\ \A x \in f[p]..(o - 1) : x \in M
      BY <1>3, <1>5, <2>2
    <3>3. p \in Nat /\ o \in Nat /\ f[p] \in Nat
      <4>1. f[p] \in 1..N /\ p \in 2..N /\ o \in 2..N
        BY <3>1
      <4> QED BY <4>1
    <3>4. ~ (p < o) /\ ~ (o < p)
      BY <2>2, <3>1, <3>2, <3>3
    <3> QED BY <3>3, <3>4
  <2> QED BY <2>1, <2>2
<1>6. f \in Injection(V, M)
  BY <1>4, <1>5 DEF Injection, IsInjective
<1>7. IsFiniteSet(V) /\ Cardinality(V) <= Cardinality(M)
  <2> HIDE DEF f
  <2> QED BY <1>1, <1>6, FS_Injection, Zenon
<1> QED BY <1>1, <1>7

\* The numbers in a sequence occur so and so often, at most as often as it is long.
LEMMA CountIs ==
    ASSUME NEW seq \in Seq(Nat), NEW x
    PROVE  Count(seq, x) \in Nat /\ Count(seq, x) <= Len(seq)
<1>1. DOMAIN seq = 1..Len(seq) /\ Len(seq) \in Nat
  OBVIOUS
<1>2. IsFiniteSet(DOMAIN seq) /\ Cardinality(DOMAIN seq) = Len(seq)
  <2>1. PICK n \in Nat : n = Len(seq)
    BY <1>1
  <2>2. IsFiniteSet(1..n) /\ Cardinality(1..n) = IF 1 > n THEN 0 ELSE n - 1 + 1
    BY FS_Interval
  <2> QED BY <1>1, <2>1, <2>2
<1> DEFINE S == {k \in DOMAIN seq : seq[k] = x}
<1>3. IsFiniteSet(S) /\ Cardinality(S) <= Len(seq)
  BY <1>2, FS_Subset
<1>4. Cardinality(S) \in Nat
  BY <1>3, FS_CardinalityType
<1> QED BY <1>3, <1>4 DEF Count

\* What is read on a page is a number, or nothing.
LEMMA FooterNumberIs ==
    ASSUME NEW leaf \in [foot : Seq(Nat), head : Seq(Nat)]
    PROVE  FooterNumber(leaf) \in Nat \cup {None}
<1> DEFINE c == leaf.foot \o leaf.head
<1>1. c \in Seq(Nat)
  OBVIOUS
<1> HIDE DEF c
<1>2. CASE c = <<>>
  <2>1. Count(c, MostCommon(c)) = 0
    <3>1. {k \in DOMAIN c : c[k] = MostCommon(c)} = {}
      BY <1>2
    <3> QED BY <3>1, FS_EmptySet DEF Count
  <2>2. ~ (Count(c, MostCommon(c)) > 1)
    BY <2>1
  <2> QED BY <1>2, <2>2 DEF FooterNumber, c
<1>3. CASE c # <<>>
  <2> DEFINE Counts == {Count(c, c[k]) : k \in 1..Len(c)}
             most == {k \in DOMAIN c : \A m \in DOMAIN c : Count(c, c[k]) >= Count(c, c[m])}
  <2>1. DOMAIN c = 1..Len(c) /\ Len(c) \in Nat /\ 1 \in 1..Len(c)
    BY <1>1, <1>3
  <2>2. Counts \in SUBSET Nat /\ Counts # {} /\ \A n \in Counts : n <= Len(c)
    BY <1>1, <2>1, CountIs
  <2>3. PICK n \in Counts : \A o \in Counts : n >= o
    BY <2>1, <2>2, MaxOf, Zenon
  <2>4. PICK k \in 1..Len(c) : n = Count(c, c[k])
    OBVIOUS
  <2>5. k \in most
    BY <2>1, <2>3, <2>4
  <2>6. Min(most) \in DOMAIN c
    <3>1. most \in SUBSET Nat /\ most # {}
      BY <2>1, <2>5
    <3>2. Min(most) \in most
      BY <3>1, MinOf, Zenon
    <3> QED BY <3>2
  <2>7. MostCommon(c) \in Nat
    <3>1. MostCommon(c) = c[Min(most)]
      BY DEF MostCommon
    <3> HIDE DEF most
    <3> QED BY <1>1, <2>6, <3>1
  <2>8. Last(c) \in Nat
    BY <1>1, <2>1 DEF Last
  <2> QED
    <3>1. FooterNumber(leaf) \in {MostCommon(c), Last(c)}
      BY <1>3 DEF FooterNumber, c
    <3> QED BY <2>7, <2>8, <3>1
<1> QED BY <1>2, <1>3

\* What the pages go by once numbers have been imputed.
Imputed == IF 2 * Cardinality(Read) < Len(footer) \/ ModalOffset = None
           THEN footer
           ELSE [p \in DOMAIN footer |-> IF p \in Read THEN footer[p] ELSE p + ModalOffset]

Judged == {"imputed", "accepted", "rejected"}

\* Every page has a number read on it or not; what it goes by follows, and a
\* rejection has its reason.
PageInv ==
    /\ leaves \in Leaves
    /\ verdict \in {"none", "read"} \cup Judged
    /\ footer \in [1..Len(leaves) -> Nat \cup {None}]
    /\ verdict = "read" => printed = footer
    /\ verdict \in Judged => printed = Imputed
    /\ verdict = "rejected" => TooFew \/ TooMany

PageNext == ReadPages \/ Impute \/ Validate

LEMMA LeavesAre == ASSUME NEW book \in Leaves
                   PROVE  /\ Len(book) \in Nat \ {0} /\ DOMAIN book = 1..Len(book)
                          /\ \A p \in 1..Len(book) : book[p] \in [foot : Seq(Nat), head : Seq(Nat)]
<1> DEFINE Leaf == [foot : Seq(Nat), head : Seq(Nat)]
<1>1. book \in Seq(Leaf) /\ book # <<>>
  BY PageNumbersAssumption
<1> HIDE DEF Leaf
<1>2. Len(book) \in Nat /\ DOMAIN book = 1..Len(book) /\ \A p \in 1..Len(book) : book[p] \in Leaf
  BY <1>1
<1>3. Len(book) # 0
  BY <1>1, EmptySeq
<1> QED BY <1>2, <1>3 DEF Leaf

LEMMA PageStep == ASSUME PageInv, [PageNext]_pageVars PROVE PageInv'
<1>1. CASE ReadPages
  <2>1. leaves' = leaves /\ verdict' = "read" /\ printed' = footer'
    BY <1>1 DEF ReadPages
  <2>2. footer' \in [1..Len(leaves) -> Nat \cup {None}]
    BY <1>1, LeavesAre, FooterNumberIs DEF ReadPages, PageInv
  <2> QED BY <2>1, <2>2 DEF PageInv, Judged
<1>2. CASE Impute
  <2>1. /\ leaves' = leaves /\ footer' = footer /\ verdict' = "imputed" /\ verdict = "read"
        /\ printed = footer
    BY <1>2 DEF Impute, PageInv
  <2>2. printed' = Imputed
    BY <1>2, <2>1 DEF Impute, Imputed
  <2>3. Imputed' = Imputed
    BY <2>1 DEF Imputed, ModalOffset, Modal, Agreeing, Read
  <2> QED BY <2>1, <2>2, <2>3 DEF PageInv, Judged
<1>3. CASE Validate
  <2>1. /\ leaves' = leaves /\ footer' = footer /\ printed' = printed /\ verdict = "imputed"
        /\ verdict' = IF TooFew \/ TooMany THEN "rejected" ELSE "accepted"
    BY <1>3 DEF Validate
  <2>2. Imputed' = Imputed
    BY <2>1 DEF Imputed, ModalOffset, Modal, Agreeing, Read
  <2>3. TooFew' = TooFew /\ TooMany' = TooMany
    BY <2>1 DEF TooFew, TooMany, Violations, Known, Read
  <2> QED BY <2>1, <2>2, <2>3 DEF PageInv, Judged
<1>4. CASE UNCHANGED pageVars
  <2>1. leaves' = leaves /\ footer' = footer /\ printed' = printed /\ verdict' = verdict
    BY <1>4 DEF pageVars
  <2>2. Imputed' = Imputed
    BY <2>1 DEF Imputed, ModalOffset, Modal, Agreeing, Read
  <2>3. TooFew' = TooFew /\ TooMany' = TooMany
    BY <2>1 DEF TooFew, TooMany, Violations, Known, Read
  <2> QED BY <2>1, <2>2, <2>3 DEF PageInv
<1> QED BY <1>1, <1>2, <1>3, <1>4 DEF PageNext

\* The pages' numbers are what was read, or imputed, at every stage.
THEOREM PageInvariant == PageSpec => []PageInv
<1>1. PageInit => PageInv
  <2> SUFFICES ASSUME PageInit PROVE PageInv
    OBVIOUS
  <2> QED BY LeavesAre DEF PageInit, PageInv, Judged
<1>2. PageInv /\ [PageNext]_pageVars => PageInv'
  BY PageStep
<1> QED BY <1>1, <1>2, PTL DEF PageSpec, PageNext

\* In a well read book the offset most pages agree on is the true one, and most
\* means enough of them.
LEMMA OffsetIsTrue ==
    ASSUME PageInv, WellRead
    PROVE  /\ ModalOffset = TrueShift
           /\ ~ (2 * Cardinality(Read) < Len(footer))
           /\ Len(footer) = Len(leaves) /\ DOMAIN footer = 1..Len(leaves)
           /\ Cardinality(Read) \in Nat \ {0} /\ Cardinality(Misread) \in Nat
           /\ 5 * Cardinality(Misread) <= Cardinality(Read)
<1> DEFINE Right == Read \ Misread
           R == Cardinality(Read)
           W == Cardinality(Misread)
           G == Cardinality(Right)
<1>1. footer \in Seq(Nat \cup {None}) /\ Len(footer) = Len(leaves) /\ DOMAIN footer = 1..Len(leaves)
  <2>1. footer \in [1..Len(leaves) -> Nat \cup {None}] /\ Len(leaves) \in Nat
    BY LeavesAre DEF PageInv
  <2> QED BY <2>1, FunIsSeq
<1>2. Len(leaves) \in Nat \ {0} /\ 2 * R >= Len(leaves) /\ 5 * W <= R
  BY LeavesAre DEF PageInv, WellRead
<1>3. Read \in SUBSET (1..Len(leaves)) /\ IsFiniteSet(Read)
  <2>1. Read \in SUBSET (1..Len(leaves))
    BY <1>1 DEF Read
  <2>2. IsFiniteSet(1..Len(leaves))
    BY <1>2, FS_Interval
  <2> QED BY <2>1, <2>2, FS_Subset, Zenon
<1>4. Misread \in SUBSET Read /\ IsFiniteSet(Misread) /\ IsFiniteSet(Right)
  BY <1>3, FS_Subset DEF Misread
<1>5. R \in Nat /\ W \in Nat /\ G \in Nat
  BY <1>3, <1>4, FS_CardinalityType
<1>6. G = R - W
  <2>1. G = R - Cardinality(Read \cap Misread)
    BY <1>3, FS_Difference
  <2>2. Read \cap Misread = Misread
    BY <1>4
  <2> QED BY <2>1, <2>2
<1>7. R >= 1 /\ G >= 1 /\ W < G /\ 5 * G >= 4 * R
  <2> HIDE DEF R, W, G
  <2> QED BY <1>2, <1>5, <1>6
<1>8. \A p \in Read : footer[p] \in Nat /\ p \in Nat
  BY <1>1, <1>3 DEF Read, PageInv
<1>9. TrueShift \in Int /\ None \notin Int
  BY PageNumbersAssumption
<1>10. \A p \in Right : footer[p] - p = TrueShift
  BY <1>8, <1>9 DEF Misread
<1>11. \A p \in Misread : footer[p] - p # TrueShift
  BY <1>4, <1>8, <1>9 DEF Misread
<1>12. \A p \in Right : Agreeing(p) = Right
  BY <1>4, <1>10, <1>11 DEF Agreeing
<1>13. \A p \in Misread : Cardinality(Agreeing(p)) \in Nat /\ Cardinality(Agreeing(p)) <= W
  <2> TAKE p \in Misread
  <2>1. Agreeing(p) \in SUBSET Misread
    <3> SUFFICES ASSUME NEW q \in Agreeing(p), q \notin Misread PROVE FALSE
      OBVIOUS
    <3>1. q \in Right /\ footer[q] - q = footer[p] - p
      BY DEF Agreeing
    <3> QED BY <1>10, <1>11, <3>1
  <2> QED BY <1>4, <2>1, FS_Subset, FS_CardinalityType
<1> DEFINE Most == {p \in Read : \A q \in Read : Cardinality(Agreeing(p)) >= Cardinality(Agreeing(q))}
<1>14. Right # {}
  BY <1>7, FS_EmptySet
<1>15. Right \in SUBSET Most
  <2> SUFFICES ASSUME NEW p \in Right, NEW q \in Read
               PROVE  Cardinality(Agreeing(p)) >= Cardinality(Agreeing(q))
    OBVIOUS
  <2>1. Cardinality(Agreeing(p)) = G
    BY <1>12
  <2>2. Cardinality(Agreeing(q)) \in Nat /\ Cardinality(Agreeing(q)) <= G
    <3>1. CASE q \in Misread
      <4> HIDE DEF R, W, G
      <4> QED BY <1>5, <1>7, <1>13, <3>1
    <3>2. CASE q \in Right
      BY <1>5, <1>12, <3>2
    <3> QED BY <3>1, <3>2
  <2> HIDE DEF G
  <2> QED BY <1>5, <2>1, <2>2
<1>16. Most \in SUBSET Right
  <2> SUFFICES ASSUME NEW p \in Most, p \in Misread PROVE FALSE
    OBVIOUS
  <2>1. PICK q \in Right : TRUE
    BY <1>14
  <2>2. Cardinality(Agreeing(p)) >= Cardinality(Agreeing(q)) /\ Cardinality(Agreeing(q)) = G
    BY <1>12, <2>1
  <2>3. Cardinality(Agreeing(p)) \in Nat /\ Cardinality(Agreeing(p)) <= W
    BY <1>13
  <2> HIDE DEF G, W
  <2> QED BY <1>5, <1>7, <2>2, <2>3
<1>17. Modal \in Right
  <2>1. Most \in SUBSET Nat /\ Most # {}
    <3>1. Read \in SUBSET Nat
      BY <1>8
    <3> QED BY <1>14, <1>15, <3>1, Zenon
  <2>2. Min(Most) \in Most
    BY <2>1, MinOf, Zenon
  <2>3. Modal = Min(Most)
    BY DEF Modal
  <2> QED BY <1>16, <2>2, <2>3
<1>18. Max({1, (8 * R) \div 10}) <= G /\ Max({1, (8 * R) \div 10}) \in Nat
  <2> HIDE DEF R, W, G
  <2>1. PICK e \in Nat : e = (8 * R) \div 10 /\ 10 * e <= 8 * R
    BY <1>5
  <2>2. {1, e} \in SUBSET Nat /\ {1, e} # {} /\ \A x \in {1, e} : x <= 1 + e
    OBVIOUS
  <2>3. Max({1, e}) \in {1, e}
    <3>1. 1 + e \in Nat
      OBVIOUS
    <3> QED BY <2>2, <3>1, MaxOf, Zenon
  <2>4. e <= G
    BY <1>5, <1>7, <2>1
  <2> QED BY <1>5, <1>7, <2>1, <2>3, <2>4
<1>19. ModalOffset = TrueShift
  <2>1. Read # {} /\ Cardinality(Agreeing(Modal)) = G /\ footer[Modal] - Modal = TrueShift
    BY <1>10, <1>12, <1>17
  <2>2. ~ (Cardinality(Agreeing(Modal)) < Max({1, (8 * R) \div 10}))
    <3> HIDE DEF G, R
    <3> QED BY <1>5, <1>18, <2>1
  <2> QED BY <2>1, <2>2 DEF ModalOffset
<1> QED
  <2> HIDE DEF R, W, G
  <2>1. R \in Nat \ {0} /\ W \in Nat /\ ~ (2 * R < Len(footer)) /\ 5 * W <= R
    BY <1>1, <1>2, <1>5, <1>7
  <2> QED BY <1>1, <1>19, <2>1 DEF R, W

\* Every page of a well read book then has a number, the true one unless misread.
LEMMA AllNumbered ==
    ASSUME PageInv, WellRead, verdict \in Judged
    PROVE  /\ printed \in [1..Len(leaves) -> Int] /\ Misread \in SUBSET (1..Len(leaves))
           /\ \A p \in (1..Len(leaves)) \ Misread : printed[p] = p + TrueShift
<1>1. ModalOffset = TrueShift /\ TrueShift \in Int /\ None \notin Int
  BY OffsetIsTrue, PageNumbersAssumption
<1>2. footer \in [1..Len(leaves) -> Nat \cup {None}] /\ printed = Imputed
  BY DEF PageInv
<1>3. printed = [p \in 1..Len(leaves) |-> IF p \in Read THEN footer[p] ELSE p + TrueShift]
  BY <1>1, <1>2, OffsetIsTrue DEF Imputed
<1>4. Read \in SUBSET (1..Len(leaves)) /\ \A p \in Read : footer[p] \in Nat
  BY <1>2 DEF Read
<1>5. Misread \in SUBSET Read /\ \A p \in Read \ Misread : footer[p] = p + TrueShift
  BY DEF Misread
<1>6. Len(leaves) \in Nat
  BY LeavesAre DEF PageInv
<1> QED BY <1>1, <1>3, <1>4, <1>5, <1>6

\* The imputed numbers of a well read book are right, whatever was misread.
THEOREM ImputedIsRight == PageSpec => []ImputedRight
<1>1. PageInv => ImputedRight
  <2> SUFFICES ASSUME PageInv, WellRead, verdict # "read", NEW p \in DOMAIN printed \ Read
               PROVE  printed[p] = p + TrueShift
    BY DEF ImputedRight
  <2>1. verdict \in Judged
    BY DEF WellRead, PageInv
  <2> QED BY <2>1, AllNumbered DEF Misread
<1> QED BY <1>1, PageInvariant, PTL

\* The validator takes every well read book: its numbers drop no more often than
\* pages were misread, which is at most a fifth of those read.
THEOREM WellReadIsAccepted == PageSpec => []WellReadAccepted
<1>1. PageInv => WellReadAccepted
  <2> SUFFICES ASSUME PageInv, WellRead, verdict = "rejected" PROVE FALSE
    BY DEF WellReadAccepted
  <2> DEFINE N == Len(leaves)
             Drops == {p \in 2..N : printed[p] < printed[p - 1]}
  <2>1. N \in Nat /\ TrueShift \in Int
    BY LeavesAre, PageNumbersAssumption DEF PageInv
  <2>2. /\ printed \in [1..N -> Int] /\ Misread \in SUBSET (1..N)
        /\ \A p \in (1..N) \ Misread : printed[p] = p + TrueShift
    BY AllNumbered DEF Judged
  <2>3. IsFiniteSet(Drops) /\ Cardinality(Drops) <= Cardinality(Misread)
    BY <2>1, <2>2, DropsArePaid
  <2>4. Known = 1..N
    BY <2>2, PageNumbersAssumption DEF Known
  <2>5. Violations = Drops
    <3>1. ASSUME NEW p \in Violations PROVE p \in Drops
      <4>1. PICK q \in Known : q < p /\ Known \cap ((q + 1)..(p - 1)) = {} /\ printed[p] < printed[q]
        BY DEF Violations
      <4>2. p \in 1..N /\ q \in 1..N
        BY <2>4 DEF Violations
      <4>3. q = p - 1
        <5> SUFFICES ASSUME q # p - 1 PROVE FALSE
          OBVIOUS
        <5>1. q + 1 \in (q + 1)..(p - 1) /\ q + 1 \in 1..N
          BY <2>1, <4>1, <4>2
        <5> QED BY <2>4, <4>1, <5>1
      <4> QED BY <2>1, <4>1, <4>2, <4>3
    <3>2. ASSUME NEW p \in Drops PROVE p \in Violations
      <4>1. p \in Known /\ p - 1 \in Known /\ p - 1 < p /\ printed[p] < printed[p - 1]
        BY <2>1, <2>4
      <4>2. ((p - 1) + 1)..(p - 1) = {}
        BY <2>1
      <4> QED BY <4>1, <4>2 DEF Violations
    <3> QED BY <3>1, <3>2
  <2>6. PICK r \in Nat, m \in Nat, v \in Nat :
          /\ r = Cardinality(Read) /\ m = Cardinality(Misread) /\ v = Cardinality(Violations)
          /\ v <= m /\ 5 * m <= r /\ r # 0 /\ ~ (2 * r < Len(footer)) /\ Len(footer) = N
    <3>1. Cardinality(Drops) \in Nat
      BY <2>3, FS_CardinalityType
    <3> QED BY <2>3, <2>5, <3>1, OffsetIsTrue
  <2>7. ~ TooFew
    BY <2>1, <2>6 DEF TooFew
  <2>8. Max({r, 1}) = r
    <3>1. {r, 1} \in SUBSET Nat /\ {r, 1} # {} /\ \A x \in {r, 1} : x <= r
      BY <2>6
    <3>2. Max({r, 1}) \in {r, 1} /\ Max({r, 1}) >= r
      BY <3>1, MaxOf
    <3> QED BY <2>6, <3>2
  <2>9. ~ TooMany
    BY <2>6, <2>8 DEF TooMany
  <2> QED BY <2>7, <2>9 DEF PageInv
<1> QED BY <1>1, PageInvariant, PTL
=============================================================================

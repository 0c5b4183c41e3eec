---------------------------- MODULE EvidenceProofs ----------------------------
(***************************************************************************)
(* Theorems about what an answer stands on and cites.                      *)
(*                                                                         *)
(* Citation, for all passages, claims and tags and any number of           *)
(* candidates: the table of _locate_claim counts the longest common        *)
(* subsequence and the way back through it matches that many tokens; a     *)
(* citation names a page that was shown of the book; and a claim that has  *)
(* nothing of the page markers and stands on one page of the cited passage *)
(* is given a page that holds it.                                          *)
(*                                                                         *)
(* Reranker, for any number of hits: a relevant one is left out only for   *)
(* better ones.                                                            *)
(***************************************************************************)
EXTENDS TextProofs, Citation, Reranker

-----------------------------------------------------------------------------
(* Recursive functions, and the table of the longest common subsequence. *)

\* The values of a recursive function at a place of D, whose rank is bounded,
\* depend on its values at places of lower rank only.
Recursive(D, S, r, N, G) ==
    /\ S # {} /\ N \in Nat
    /\ r \in [D -> Nat] /\ \A d \in D : r[d] <= N
    /\ G \in [[D -> S] -> [D -> S]]
    /\ \A f, g \in [D -> S] : \A d \in D :
          (\A e \in D : r[e] < r[d] => f[e] = g[e]) => G[f][d] = G[g][d]

Solution(D, S, G) == \E f \in [D -> S] : f = G[f]

\* Such a function exists: what holds so far is extended by one rank at a time.
LEMMA Recursion ==
    ASSUME NEW D, NEW S, NEW r, NEW N, NEW G, Recursive(D, S, r, N, G)
    PROVE  Solution(D, S, G)
<1> USE DEF Recursive
<1> DEFINE UpTo0(n, f) == \A d \in D : r[d] < n => f[d] = G[f][d]
           Bad == {n \in Nat : ~ \E f \in [D -> S] : UpTo0(n, f)}
<1>1. Bad = {}
  <2> SUFFICES ASSUME Bad # {} PROVE FALSE
    OBVIOUS
  <2>1. PICK n \in Bad : \A m \in Bad : n <= m
    BY MinOf
  <2>2. CASE n = 0
    <3>1. PICK s \in S : TRUE
      OBVIOUS
    <3>2. [d \in D |-> s] \in [D -> S] /\ UpTo0(0, [d \in D |-> s])
      OBVIOUS
    <3> QED BY <2>1, <2>2, <3>2
  <2>3. CASE n # 0
    <3>1. n - 1 \in Nat /\ ~ (n <= n - 1)
      BY <2>3
    <3>2. PICK f \in [D -> S] : UpTo0(n - 1, f)
      BY <2>1, <3>1
    <3>3. G[f] \in [D -> S]
      OBVIOUS
    <3>4. ASSUME NEW d \in D, r[d] < n PROVE G[f][d] = G[G[f]][d]
      <4>1. \A e \in D : r[e] < r[d] => f[e] = G[f][e]
        BY <3>1, <3>2, <3>4
      <4> QED BY <3>3, <4>1
    <3> QED BY <2>1, <3>3, <3>4
  <2> QED BY <2>2, <2>3
<1>2. PICK f \in [D -> S] : UpTo0(N + 1, f)
  <2>1. N + 1 \in Nat
    OBVIOUS
  <2> QED BY <1>1, <2>1
<1>3. \A d \in D : f[d] = G[f][d]
  BY <1>2
<1>4. G[f] \in [D -> S]
  OBVIOUS
<1> QED BY <1>3, <1>4 DEF Solution

\* The rows of the table: what is counted up to a token is at most its place.
RowsOf(n) == {row \in [0..n -> Nat] : \A j \in 0..n : row[j] <= j}

\* An entry of the next row is the largest of what is above and of one more than
\* what is above and before a token that matches.
LEMMA NextRowIs ==
    ASSUME NEW claim \in Seq(Tokens), NEW token, NEW above \in RowsOf(Len(claim))
    PROVE  /\ NextRow(above, token, claim) \in RowsOf(Len(claim))
           /\ \A j \in 0..Len(claim) :
                /\ NextRow(above, token, claim)[j] >= above[j]
                /\ \A k \in 1..j : TokenMatch(token, claim[k]) =>
                      NextRow(above, token, claim)[j] >= above[k - 1] + 1
                /\ \/ NextRow(above, token, claim)[j] = above[j]
                   \/ \E k \in 1..j : /\ TokenMatch(token, claim[k])
                                      /\ NextRow(above, token, claim)[j] = above[k - 1] + 1
<1> DEFINE n == Len(claim)
           M(k) == TokenMatch(token, claim[k])
           Opts(j) == {above[j]} \cup {above[k - 1] + 1 : k \in {k \in 1..j : M(k)}}
<1>1. n \in Nat /\ above \in [0..n -> Nat] /\ \A j \in 0..n : above[j] <= j
  BY DEF RowsOf
<1>2. NextRow(above, token, claim) = [j \in 0..n |-> Max(Opts(j))]
  BY DEF NextRow
<1> HIDE DEF n, M
<1>3. ASSUME NEW j \in 0..n
      PROVE  /\ Max(Opts(j)) \in Nat /\ Max(Opts(j)) <= j /\ Max(Opts(j)) >= above[j]
             /\ \A k \in 1..j : M(k) => Max(Opts(j)) >= above[k - 1] + 1
             /\ Max(Opts(j)) = above[j] \/ \E k \in 1..j : M(k) /\ Max(Opts(j)) = above[k - 1] + 1
  <2>1. \A k \in 1..j : k - 1 \in 0..n /\ above[k - 1] \in Nat /\ above[k - 1] + 1 <= j
    BY <1>1
  <2>2. Opts(j) \in SUBSET Nat /\ Opts(j) # {} /\ \A x \in Opts(j) : x <= j
    BY <1>1, <2>1
  <2>3. j \in Nat
    BY <1>1
  <2>4. Max(Opts(j)) \in Opts(j) /\ \A y \in Opts(j) : Max(Opts(j)) >= y
    BY <2>2, <2>3, MaxOf, Zenon
  <2>5. \A k \in 1..j : M(k) => above[k - 1] + 1 \in Opts(j)
    OBVIOUS
  <2> HIDE DEF Opts
  <2>6. Max(Opts(j)) = above[j] \/ \E k \in 1..j : M(k) /\ Max(Opts(j)) = above[k - 1] + 1
    BY <2>4 DEF Opts
  <2>7. above[j] \in Opts(j)
    BY DEF Opts
  <2> QED BY <2>2, <2>4, <2>5, <2>6, <2>7
<1> HIDE DEF Opts
<1>4. NextRow(above, token, claim) \in RowsOf(n)
  BY <1>2, <1>3 DEF RowsOf
<1> QED BY <1>2, <1>3, <1>4 DEF n, M

\* The table is what its recursive definition says, row by row.
LEMMA TableIs ==
    ASSUME NEW claim \in Seq(Tokens), NEW text \in Seq(Tokens), NEW places
    PROVE  /\ Table(claim, text, places)[0] = Zeros(claim)
           /\ \A t \in 1..Len(text) :
                Table(claim, text, places)[t] =
                    IF t \in places
                    THEN NextRow(Table(claim, text, places)[t - 1], text[t], claim)
                    ELSE Table(claim, text, places)[t - 1]
           /\ \A t \in 0..Len(text) : Table(claim, text, places)[t] \in RowsOf(Len(claim))
<1> DEFINE m == Len(text)
           Rows == RowsOf(Len(claim))
           Step(f, t) == IF t = 0 THEN Zeros(claim)
                         ELSE IF t \in places THEN NextRow(f[t - 1], text[t], claim)
                         ELSE f[t - 1]
           Body(f) == [t \in 0..m |-> Step(f, t)]
           T == Table(claim, text, places)
<1>1. m \in Nat /\ Len(claim) \in Nat
  OBVIOUS
<1>2. Zeros(claim) \in Rows
  BY <1>1 DEF Zeros, RowsOf
<1>3. \A f \in [0..m -> Rows] : Body(f) \in [0..m -> Rows]
  <2> SUFFICES ASSUME NEW f \in [0..m -> Rows], NEW t \in 0..m PROVE Step(f, t) \in Rows
    OBVIOUS
  <2>1. t # 0 => f[t - 1] \in Rows
    BY <1>1
  <2> QED BY <1>2, <2>1, NextRowIs
<1> DEFINE G == [f \in [0..m -> Rows] |-> Body(f)]
           r == [t \in 0..m |-> t]
<1>4. G \in [[0..m -> Rows] -> [0..m -> Rows]]
  BY <1>3
<1>5. r \in [0..m -> Nat] /\ \A t \in 0..m : r[t] <= m
  BY <1>1
<1>6. ASSUME NEW f \in [0..m -> Rows], NEW g \in [0..m -> Rows], NEW t \in 0..m,
             \A e \in 0..m : r[e] < r[t] => f[e] = g[e]
      PROVE  G[f][t] = G[g][t]
  <2>1. t # 0 => f[t - 1] = g[t - 1]
    BY <1>1, <1>6
  <2>2. Step(f, t) = Step(g, t)
    BY <2>1
  <2> QED BY <2>2
<1>7. \E f \in [0..m -> Rows] : f = Body(f)
  <2> HIDE DEF Body, Rows
  <2>1. Rows # {}
    BY <1>2
  <2>2. \E f \in [0..m -> Rows] : f = G[f]
    <3> HIDE DEF G, r, m
    <3>1. \A f, g \in [0..m -> Rows] : \A t \in 0..m :
             (\A e \in 0..m : r[e] < r[t] => f[e] = g[e]) => G[f][t] = G[g][t]
      BY <1>6
    <3>2. Recursive(0..m, Rows, r, m, G)
      BY <1>1, <1>4, <1>5, <2>1, <3>1, Zenon DEF Recursive
    <3>3. Solution(0..m, Rows, G)
      BY <3>2, Recursion, Zenon
    <3> QED BY <3>3 DEF Solution
  <2> QED BY <2>2
<1>8. T = CHOOSE f : f = Body(f)
  BY DEF Table
<1>9. T = Body(T)
  <2> HIDE DEF Body, T
  <2> QED BY <1>7, <1>8
<1> HIDE DEF T
<1>10. T[0] = Zeros(claim)
  BY <1>1, <1>9
<1>11. \A t \in 1..m : T[t] = IF t \in places THEN NextRow(T[t - 1], text[t], claim) ELSE T[t - 1]
  <2> TAKE t \in 1..m
  <2>1. t \in 0..m /\ t # 0
    BY <1>1
  <2>2. T[t] = Step(T, t)
    BY <1>9, <2>1
  <2> QED BY <2>1, <2>2
<1>12. \A t \in 0..m : T[t] \in Rows
  <2> DEFINE Bad == {t \in 0..m : T[t] \notin Rows}
  <2> SUFFICES ASSUME Bad # {} PROVE FALSE
    OBVIOUS
  <2>1. PICK t \in Bad : \A k \in Bad : t <= k
    <3>1. Bad \in SUBSET Nat
      OBVIOUS
    <3> QED BY <3>1, MinOf
  <2>2. t # 0 /\ t \in 1..m
    BY <1>1, <1>2, <1>10, <2>1
  <2>3. T[t - 1] \in Rows
    <3>1. t - 1 \in 0..m /\ ~ (t <= t - 1)
      BY <1>1, <2>2
    <3> QED BY <2>1, <3>1
  <2>4. T[t] \in Rows
    <3>1. NextRow(T[t - 1], text[t], claim) \in Rows
      BY <2>3, NextRowIs
    <3> QED BY <1>11, <2>2, <2>3, <3>1
  <2> QED BY <2>1, <2>4
<1> QED BY <1>10, <1>11, <1>12 DEF T

\* From one row to the next the entries grow, by one at most: to one more than the
\* entry above and before a token that matches.
LEMMA TableGrows ==
    ASSUME NEW claim \in Seq(Tokens), NEW text \in Seq(Tokens), NEW places,
           NEW t \in 1..Len(text), NEW j \in 0..Len(claim)
    PROVE  LET row == Table(claim, text, places)[t]
               above == Table(claim, text, places)[t - 1]
           IN /\ row[j] \in Nat /\ above[j] \in Nat /\ above[j] <= row[j]
              /\ t \in places => \A k \in 1..j : TokenMatch(text[t], claim[k]) =>
                    above[k - 1] \in Nat /\ above[k - 1] + 1 <= row[j]
              /\ \/ row[j] = above[j]
                 \/ t \in places /\ \E k \in 1..j : /\ TokenMatch(text[t], claim[k])
                                                  /\ row[j] = above[k - 1] + 1
<1> DEFINE T == Table(claim, text, places)
<1>1. t - 1 \in 0..Len(text) /\ t \in 0..Len(text) /\ Len(claim) \in Nat
  OBVIOUS
<1>2. /\ T[t] = IF t \in places THEN NextRow(T[t - 1], text[t], claim) ELSE T[t - 1]
      /\ T[t] \in RowsOf(Len(claim)) /\ T[t - 1] \in RowsOf(Len(claim))
  BY <1>1, TableIs
<1> HIDE DEF T
<1>3. /\ T[t][j] \in Nat /\ \A k \in 0..Len(claim) : T[t - 1][k] \in Nat
      /\ \A k \in 1..j : k - 1 \in 0..Len(claim)
  BY <1>1, <1>2 DEF RowsOf
<1>4. CASE t \in places
  <2>1. /\ T[t][j] >= T[t - 1][j]
        /\ \A k \in 1..j : TokenMatch(text[t], claim[k]) => T[t][j] >= T[t - 1][k - 1] + 1
        /\ \/ T[t][j] = T[t - 1][j]
           \/ \E k \in 1..j : TokenMatch(text[t], claim[k]) /\ T[t][j] = T[t - 1][k - 1] + 1
    <3>1. T[t] = NextRow(T[t - 1], text[t], claim)
      BY <1>2, <1>4
    <3> QED BY <1>2, <3>1, NextRowIs
  <2> QED BY <1>3, <1>4, <2>1 DEF T
<1>5. CASE t \notin places
  <2>1. T[t] = T[t - 1]
    BY <1>2, <1>5
  <2> QED BY <1>3, <1>5, <2>1 DEF T
<1> QED BY <1>4, <1>5

\* No part of the claim that the text has in order is larger than the entry of the
\* table: without the last place the row above bounds it, and with it the entry
\* above and before the token that stands there.
LEMMA TableBounds ==
    ASSUME NEW claim \in Seq(Tokens), NEW text \in Seq(Tokens), NEW places \in SUBSET (1..Len(text)),
           NEW t \in 0..Len(text), NEW j \in 0..Len(claim), NEW J \in SUBSET (1..j),
           NEW f \in [J -> places \cap (1..t)], Aligned(f, claim, text)
    PROVE  Cardinality(J) <= Table(claim, text, places)[t][j]
<1> DEFINE m == Len(text)
           n == Len(claim)
           T == Table(claim, text, places)
           Bounded(u) == \A l \in 0..n : \A K \in SUBSET (1..l) : \A g \in [K -> places \cap (1..u)] :
                           Aligned(g, claim, text) => Cardinality(K) <= T[u][l]
           Bad == {u \in 0..m : ~ Bounded(u)}
<1>1. m \in Nat /\ n \in Nat
  OBVIOUS
<1>2. /\ T[0] = Zeros(claim)
      /\ \A u \in 1..m : T[u] = IF u \in places THEN NextRow(T[u - 1], text[u], claim) ELSE T[u - 1]
      /\ \A u \in 0..m : T[u] \in RowsOf(n)
  BY TableIs
<1>3. \A u \in 0..m : \A l \in 0..n : T[u][l] \in Nat
  BY <1>2 DEF RowsOf
<1> HIDE DEF T, m, n
<1>4. Bad = {}
  <2> SUFFICES ASSUME Bad # {} PROVE FALSE
    OBVIOUS
  <2>1. PICK u \in Bad : \A v \in Bad : u <= v
    <3>1. Bad \in SUBSET Nat
      OBVIOUS
    <3> QED BY <3>1, MinOf
  <2> PICK l \in 0..n : \E K \in SUBSET (1..l) : \E g \in [K -> places \cap (1..u)] :
           Aligned(g, claim, text) /\ ~ (Cardinality(K) <= T[u][l])
    BY <2>1
  <2> PICK K \in SUBSET (1..l) : \E g \in [K -> places \cap (1..u)] :
           Aligned(g, claim, text) /\ ~ (Cardinality(K) <= T[u][l])
    OBVIOUS
  <2>2. PICK g \in [K -> places \cap (1..u)] :
           Aligned(g, claim, text) /\ ~ (Cardinality(K) <= T[u][l])
    OBVIOUS
  <2>3. u \in 0..m /\ T[u][l] \in Nat
    BY <1>3, <2>1
  <2>4. u # 0
    <3> SUFFICES ASSUME u = 0 PROVE FALSE
      OBVIOUS
    <3>1. K = {}
      <4>1. 1..u = {}
        OBVIOUS
      <4> QED BY <4>1
    <3> QED BY <2>2, <2>3, <3>1, FS_EmptySet
  <2>5. u - 1 \in 0..m /\ u \in 1..m /\ ~ (u <= u - 1)
    BY <1>1, <2>3, <2>4
  <2>6. Bounded(u - 1)
    BY <2>1, <2>5
  <2>7. T[u - 1][l] \in Nat /\ T[u - 1][l] <= T[u][l]
    BY <2>5, TableGrows DEF T, m, n
  <2>8. ASSUME \A k \in K : g[k] # u PROVE FALSE
    <3>1. g \in [K -> places \cap (1..(u - 1))]
      BY <2>5, <2>8
    <3>2. Cardinality(K) <= T[u - 1][l]
      BY <2>2, <2>6, <3>1
    <3>3. Cardinality(K) \in Nat
      <4>1. IsFiniteSet(1..l)
        BY FS_Interval
      <4> QED BY <4>1, FS_Subset, FS_CardinalityType
    <3> QED BY <2>2, <2>3, <2>7, <3>2, <3>3
  <2>9. ASSUME NEW k \in K, g[k] = u PROVE FALSE
    <3> DEFINE L == K \ {k}
               h == [x \in L |-> g[x]]
    <3>1. u \in places /\ k \in 1..l /\ TokenMatch(text[u], claim[k])
      BY <2>2, <2>9 DEF Aligned
    <3>2. \A x \in L : x < k /\ g[x] < u
      <4> TAKE x \in L
      <4>1. g[x] \in 1..u /\ x \in Nat /\ k \in Nat /\ x # k /\ u \in Nat
        BY <2>3
      <4>2. ~ (k < x)
        <5>1. k < x => g[k] < g[x]
          BY <2>2 DEF Aligned
        <5> QED BY <2>9, <4>1, <5>1
      <4>3. x < k
        BY <4>1, <4>2
      <4>4. g[x] < g[k]
        BY <2>2, <4>3 DEF Aligned
      <4> QED BY <2>9, <4>3, <4>4
    <3>3. k - 1 \in 0..n /\ L \in SUBSET (1..(k - 1))
      <4>1. k - 1 \in 0..n /\ k \in Nat
        BY <1>1, <3>1
      <4>2. \A x \in L : x \in 1..l
        OBVIOUS
      <4> QED BY <3>2, <4>1, <4>2
    <3>4. h \in [L -> places \cap (1..(u - 1))]
      BY <2>3, <3>2
    <3>5. Aligned(h, claim, text)
      BY <2>2 DEF Aligned
    <3>6. Cardinality(L) <= T[u - 1][k - 1] /\ T[u - 1][k - 1] \in Nat
      BY <1>3, <2>5, <2>6, <3>3, <3>4, <3>5
    <3>7. Cardinality(K) = Cardinality(L) + 1 /\ Cardinality(L) \in Nat
      <4>1. IsFiniteSet(K)
        <5>1. IsFiniteSet(1..l)
          BY FS_Interval
        <5> QED BY <5>1, FS_Subset
      <4>2. IsFiniteSet(L) /\ Cardinality(L) = Cardinality(K) - 1
        BY <4>1, FS_RemoveElement
      <4>3. Cardinality(K) \in Nat /\ Cardinality(L) \in Nat
        BY <4>1, <4>2, FS_CardinalityType
      <4> QED BY <4>2, <4>3
    <3>8. T[u][l] >= T[u - 1][k - 1] + 1
      BY <2>5, <3>1, <3>6, TableGrows DEF T, m, n
    <3>9. PICK a \in Nat, b \in Nat, c \in Nat :
             /\ a = Cardinality(L) /\ b = T[u - 1][k - 1] /\ c = T[u][l]
             /\ Cardinality(K) = a + 1 /\ a <= b /\ c >= b + 1
      BY <2>3, <3>6, <3>7, <3>8
    <3>10. a + 1 <= c
      <4>1. a \in Nat /\ b \in Nat /\ c \in Nat /\ a <= b /\ c >= b + 1
        BY <3>9
      <4> QED BY <4>1
    <3> HIDE DEF L, h
    <3>11. Cardinality(K) <= T[u][l]
      BY <3>9, <3>10
    <3> QED BY <2>2, <3>11, Zenon
  <2> QED BY <2>8, <2>9
<1> QED BY <1>4 DEF m, n, T

\* And some part that the text has in order is as large as the entry.
LEMMA TableAttained ==
    ASSUME NEW claim \in Seq(Tokens), NEW text \in Seq(Tokens), NEW places \in SUBSET (1..Len(text)),
           NEW t \in 0..Len(text), NEW j \in 0..Len(claim)
    PROVE  \E J \in SUBSET (1..j) : \E f \in [J -> places \cap (1..t)] :
              Aligned(f, claim, text) /\ Cardinality(J) = Table(claim, text, places)[t][j]
<1> DEFINE m == Len(text)
           n == Len(claim)
           T == Table(claim, text, places)
           Attained(u, l) == \E K \in SUBSET (1..l) : \E g \in [K -> places \cap (1..u)] :
                               Aligned(g, claim, text) /\ Cardinality(K) = T[u][l]
           Bad == {u \in 0..m : ~ \A l \in 0..n : Attained(u, l)}
<1>1. m \in Nat /\ n \in Nat
  OBVIOUS
<1>2. /\ T[0] = Zeros(claim)
      /\ \A u \in 1..m : T[u] = IF u \in places THEN NextRow(T[u - 1], text[u], claim) ELSE T[u - 1]
      /\ \A u \in 0..m : T[u] \in RowsOf(n)
  BY TableIs
<1> HIDE DEF T, m, n
<1>4. Bad = {}
  <2> SUFFICES ASSUME Bad # {} PROVE FALSE
    OBVIOUS
  <2>1. PICK u \in Bad : \A v \in Bad : u <= v
    <3>1. Bad \in SUBSET Nat
      OBVIOUS
    <3> QED BY <3>1, MinOf
  <2>2. PICK l \in 0..n : ~ Attained(u, l)
    BY <2>1
  <2>3. u # 0
    <3> SUFFICES ASSUME u = 0 PROVE FALSE
      OBVIOUS
    <3>1. [x \in {} |-> x] \in [{} -> places \cap (1..u)] /\ {} \in SUBSET (1..l)
      OBVIOUS
    <3>2. Aligned([x \in {} |-> x], claim, text)
      BY DEF Aligned
    <3>3. Cardinality({}) = T[u][l]
      BY <1>1, <1>2, FS_EmptySet DEF Zeros, n
    <3> QED BY <2>2, <3>1, <3>2, <3>3
  <2>4. u - 1 \in 0..m /\ u \in 1..m /\ ~ (u <= u - 1) /\ u \in Nat
    BY <1>1, <2>1, <2>3
  <2>5. \A k \in 0..n : Attained(u - 1, k)
    BY <2>1, <2>4
  <2>6. T[u][l] # T[u - 1][l]
    <3> SUFFICES ASSUME T[u][l] = T[u - 1][l] PROVE FALSE
      OBVIOUS
    <3>1. PICK K \in SUBSET (1..l) : \E g \in [K -> places \cap (1..(u - 1))] :
             Aligned(g, claim, text) /\ Cardinality(K) = T[u - 1][l]
      BY <2>5
    <3>2. PICK g \in [K -> places \cap (1..(u - 1))] :
             Aligned(g, claim, text) /\ Cardinality(K) = T[u - 1][l]
      BY <3>1
    <3>3. g \in [K -> places \cap (1..u)]
      BY <2>4
    <3> QED BY <2>2, <3>2, <3>3
  <2>7. PICK k \in 1..l : TokenMatch(text[u], claim[k]) /\ T[u][l] = T[u - 1][k - 1] + 1
    <3>1. \/ T[u][l] = T[u - 1][l]
          \/ u \in places /\ \E k \in 1..l : TokenMatch(text[u], claim[k]) /\ T[u][l] = T[u - 1][k - 1] + 1
      BY <2>4, TableGrows DEF T, m, n
    <3> QED BY <2>6, <3>1
  <2>8. u \in places
    BY <1>2, <2>4, <2>6
  <2>9. k \in Nat /\ k - 1 \in 0..n
    BY <1>1
  <2>10. PICK L \in SUBSET (1..(k - 1)) : \E h \in [L -> places \cap (1..(u - 1))] :
             Aligned(h, claim, text) /\ Cardinality(L) = T[u - 1][k - 1]
    BY <2>5, <2>9
  <2>11. PICK h \in [L -> places \cap (1..(u - 1))] :
             Aligned(h, claim, text) /\ Cardinality(L) = T[u - 1][k - 1]
    BY <2>10
  <2> DEFINE K == L \cup {k}
             g == [x \in K |-> IF x = k THEN u ELSE h[x]]
  <2>12. \A x \in L : x \in Nat /\ x < k /\ h[x] < u /\ h[x] \in places \cap (1..u)
    BY <2>4, <2>9
  <2>13. K \in SUBSET (1..l) /\ g \in [K -> places \cap (1..u)]
    <3>1. K \in SUBSET (1..l)
      BY <2>9, <2>12
    <3>2. u \in places \cap (1..u)
      BY <2>4, <2>8
    <3> QED BY <2>12, <3>1, <3>2
  <2>14. Aligned(g, claim, text)
    <3>1. ASSUME NEW x \in K PROVE TokenMatch(text[g[x]], claim[x])
      BY <2>7, <2>11 DEF Aligned
    <3>2. ASSUME NEW x \in K, NEW y \in K, x < y PROVE g[x] < g[y]
      <4>1. x # k
        BY <2>9, <2>12, <3>2
      <4>2. CASE y = k
        BY <2>12, <4>1, <4>2
      <4>3. CASE y # k
        BY <2>11, <3>2, <4>1, <4>3 DEF Aligned
      <4> QED BY <4>2, <4>3
    <3> QED BY <3>1, <3>2 DEF Aligned
  <2>15. Cardinality(K) = Cardinality(L) + 1
    <3>1. IsFiniteSet(L)
      <4>1. IsFiniteSet(1..(k - 1))
        BY <2>9, FS_Interval
      <4> QED BY <4>1, FS_Subset
    <3>2. k \notin L
      BY <2>12
    <3> QED BY <3>1, <3>2, FS_AddElement
  <2> HIDE DEF K, g
  <2> QED BY <2>2, <2>7, <2>11, <2>13, <2>14, <2>15
<1> QED BY <1>4 DEF m, n, T

\* The last entry is the length of the longest common subsequence.
LEMMA LcsIs ==
    ASSUME NEW claim \in Seq(Tokens), NEW text \in Seq(Tokens), NEW places \in SUBSET (1..Len(text))
    PROVE  /\ LcsLen(claim, text, places) = Longest(claim, text, places)
           /\ LcsLen(claim, text, places) \in Nat /\ LcsLen(claim, text, places) <= Len(claim)
           /\ \A J \in PartsIn(claim, text, places) :
                Cardinality(J) \in Nat /\ Cardinality(J) <= LcsLen(claim, text, places)
           /\ \E J \in PartsIn(claim, text, places) : Cardinality(J) = LcsLen(claim, text, places)
<1> DEFINE m == Len(text)
           n == Len(claim)
           v == LcsLen(claim, text, places)
           Sizes == {Cardinality(J) : J \in PartsIn(claim, text, places)}
<1>1. m \in Nat /\ n \in Nat /\ DOMAIN claim = 1..n /\ places \cap (1..m) = places
  <2>1. places \cap (1..m) = places
    OBVIOUS
  <2> QED BY <2>1
<1>2. m \in 0..m /\ n \in 0..n
  BY <1>1
<1>3. v = Table(claim, text, places)[m][n]
  BY DEF LcsLen
<1>4. v \in Nat /\ v <= n
  <2>1. Table(claim, text, places)[m] \in RowsOf(n)
    BY <1>2, TableIs
  <2> QED BY <1>2, <1>3, <2>1 DEF RowsOf
<1>5. ASSUME NEW J \in PartsIn(claim, text, places) PROVE Cardinality(J) \in Nat /\ Cardinality(J) <= v
  <2>1. J \in SUBSET (1..n)
    BY <1>1 DEF PartsIn
  <2>2. PICK f \in [J -> places \cap (1..m)] : Aligned(f, claim, text)
    BY <1>1 DEF PartsIn
  <2>3. Cardinality(J) <= v
    BY <1>2, <1>3, <2>1, <2>2, TableBounds
  <2>4. IsFiniteSet(1..n)
    BY <1>1, FS_Interval
  <2>5. Cardinality(J) \in Nat
    BY <2>1, <2>4, FS_Subset, FS_CardinalityType
  <2> QED BY <2>3, <2>5
<1>6. PICK J \in PartsIn(claim, text, places) : Cardinality(J) = v
  <2>1. PICK J \in SUBSET (1..n) : \E f \in [J -> places \cap (1..m)] :
            Aligned(f, claim, text) /\ Cardinality(J) = Table(claim, text, places)[m][n]
    BY <1>2, TableAttained
  <2>2. PICK f \in [J -> places] : Aligned(f, claim, text)
    BY <1>1, <2>1
  <2>3. J \in PartsIn(claim, text, places)
    BY <1>1, <2>2 DEF PartsIn
  <2> QED BY <1>3, <2>1, <2>3
<1> HIDE DEF v, n, m
<1>7. Max(Sizes) = v
  <2>1. Sizes \in SUBSET Nat /\ Sizes # {} /\ v \in Sizes /\ \A x \in Sizes : x <= v
    BY <1>5, <1>6
  <2>2. Max(Sizes) \in Sizes /\ \A y \in Sizes : Max(Sizes) >= y
    BY <1>4, <2>1, MaxOf, Zenon
  <2> QED BY <1>4, <2>1, <2>2
<1>8. Longest(claim, text, places) = v
  BY <1>7 DEF Longest
<1> QED BY <1>4, <1>5, <1>6, <1>8 DEF v, n

\* Along a row the entries do not fall.
LEMMA RowsAscend ==
    ASSUME NEW claim \in Seq(Tokens), NEW text \in Seq(Tokens), NEW places \in SUBSET (1..Len(text)),
           NEW t \in 0..Len(text), NEW j \in 1..Len(claim)
    PROVE  Table(claim, text, places)[t][j - 1] <= Table(claim, text, places)[t][j]
<1>1. j - 1 \in 0..Len(claim) /\ j \in 0..Len(claim) /\ (1..(j - 1)) \subseteq 1..j
  OBVIOUS
<1>2. PICK J \in SUBSET (1..(j - 1)) : \E f \in [J -> places \cap (1..t)] :
          Aligned(f, claim, text) /\ Cardinality(J) = Table(claim, text, places)[t][j - 1]
  BY <1>1, TableAttained
<1>3. J \in SUBSET (1..j)
  BY <1>1
<1> QED BY <1>1, <1>2, <1>3, TableBounds

\* A match is in order, in both, up to a place of each.
Ascending(s, claim, text, t, j) ==
    /\ s \in Seq([at : 1..t, claim : 1..j])
    /\ \A k \in 1..Len(s) :
         /\ TokenMatch(text[s[k].at], claim[s[k].claim])
         /\ k > 1 => s[k - 1].at < s[k].at /\ s[k - 1].claim < s[k].claim

\* It may end before the places do, and is extended by what comes after it.
LEMMA AscendingGrows ==
    ASSUME NEW claim, NEW text, NEW t \in Nat, NEW j \in Nat, NEW s,
           NEW u \in 0..t, NEW k \in 0..j, NEW last, Ascending(s, claim, text, u, k)
    PROVE  /\ Ascending(s, claim, text, t, j) /\ Len(s) \in Nat
           /\ u < t /\ k < j /\ TokenMatch(text[t], claim[j]) /\ last = [at |-> t, claim |-> j] =>
                 Ascending(Append(s, last), claim, text, t, j)
<1> DEFINE Pair(a, b) == [at : 1..a, claim : 1..b]
<1>1. /\ Pair(u, k) \subseteq Pair(t, j)
      /\ u < t /\ k < j /\ last = [at |-> t, claim |-> j] =>
                          /\ last \in Pair(t, j)
                          /\ \A x \in Pair(u, k) : x.at < last.at /\ x.claim < last.claim
  OBVIOUS
<1>2. s \in Seq(Pair(u, k)) /\ Len(s) \in Nat
  BY DEF Ascending
<1> HIDE DEF Pair
<1>3. s \in Seq(Pair(t, j))
  <2>1. \A l \in 1..Len(s) : s[l] \in Pair(u, k)
    BY <1>2
  <2> QED BY <1>1, <1>2, <2>1
<1>4. Ascending(s, claim, text, t, j)
  BY <1>3 DEF Ascending, Pair
<1>5. ASSUME u < t, k < j, TokenMatch(text[t], claim[j]), last = [at |-> t, claim |-> j]
      PROVE  Ascending(Append(s, last), claim, text, t, j)
  <2> DEFINE a == Append(s, last)
  <2>1. a \in Seq(Pair(t, j)) /\ Len(a) = Len(s) + 1
    BY <1>1, <1>3, <1>5
  <2>2. /\ \A l \in 1..Len(s) : a[l] = s[l] /\ s[l] \in Pair(u, k)
        /\ a[Len(s) + 1] = last
    BY <1>2
  <2> HIDE DEF a
  <2>3. ASSUME NEW l \in 1..Len(a)
        PROVE  /\ TokenMatch(text[a[l].at], claim[a[l].claim])
               /\ l > 1 => a[l - 1].at < a[l].at /\ a[l - 1].claim < a[l].claim
    <3>1. CASE l \in 1..Len(s)
      <4>1. l > 1 => l - 1 \in 1..Len(s)
        BY <1>2, <3>1
      <4> QED BY <2>2, <3>1, <4>1 DEF Ascending
    <3>2. CASE l = Len(s) + 1
      <4>1. TokenMatch(text[a[l].at], claim[a[l].claim])
        BY <1>5, <2>2, <3>2
      <4>2. ASSUME l > 1 PROVE a[l - 1] = s[l - 1] /\ s[l - 1] \in Pair(u, k)
        <5>1. l - 1 \in 1..Len(s)
          BY <1>2, <3>2, <4>2
        <5> QED BY <2>2, <5>1
      <4> QED BY <1>1, <1>5, <2>2, <3>2, <4>1, <4>2
    <3> QED BY <1>2, <2>1, <3>1, <3>2
  <2> QED BY <2>1, <2>3 DEF Ascending, Pair, a
<1> QED BY <1>2, <1>4, <1>5

\* The way back through the table, from any entry, is what its recursive definition
\* says.
LEMMA BackDef ==
    ASSUME NEW claim \in Seq(Tokens), NEW text \in Seq(Tokens),
           NEW t \in 0..Len(text), NEW j \in 0..Len(claim)
    PROVE  LET dp == Table(claim, text, DOMAIN text)
               B == Back(claim, text)
               taken == TokenMatch(text[t], claim[j]) /\ dp[t][j] = dp[t - 1][j - 1] + 1
           IN B[<<t, j>>] =
                IF t = 0 \/ j = 0 THEN <<>>
                ELSE IF taken THEN Append(B[<<t - 1, j - 1>>], [at |-> t, claim |-> j])
                ELSE IF dp[t - 1][j] >= dp[t][j - 1] THEN B[<<t - 1, j>>]
                ELSE B[<<t, j - 1>>]
<1> DEFINE m == Len(text)
           n == Len(claim)
           D == (0..m) \X (0..n)
           S == Seq([at : Nat, claim : Nat])
           dp == Table(claim, text, DOMAIN text)
           Taken(u, k) == TokenMatch(text[u], claim[k]) /\ dp[u][k] = dp[u - 1][k - 1] + 1
           Step(f, u, k) == IF u = 0 \/ k = 0 THEN <<>>
                            ELSE IF Taken(u, k) THEN Append(f[<<u - 1, k - 1>>], [at |-> u, claim |-> k])
                            ELSE IF dp[u - 1][k] >= dp[u][k - 1] THEN f[<<u - 1, k>>]
                            ELSE f[<<u, k - 1>>]
           Body(f) == [d \in D |-> Step(f, d[1], d[2])]
           G == [f \in [D -> S] |-> Body(f)]
           r == [d \in D |-> d[1] + d[2]]
<1>1. m \in Nat /\ n \in Nat /\ DOMAIN text = 1..m
  OBVIOUS
<1>2. Back(claim, text) = CHOOSE f : f = Body(f)
  BY DEF Back
<1> HIDE DEF m, n, Taken, dp
<1>3. ASSUME NEW d \in D
      PROVE  /\ d = <<d[1], d[2]>> /\ d[1] \in Nat /\ d[2] \in Nat /\ d[1] + d[2] <= m + n
             /\ d[1] # 0 /\ d[2] # 0 =>
                  /\ <<d[1] - 1, d[2] - 1>> \in D /\ <<d[1] - 1, d[2]>> \in D /\ <<d[1], d[2] - 1>> \in D
  BY <1>1
<1>4. ASSUME NEW f \in [D -> S] PROVE Body(f) \in [D -> S]
  <2> SUFFICES ASSUME NEW d \in D PROVE Step(f, d[1], d[2]) \in S
    OBVIOUS
  <2>1. <<>> \in S
    OBVIOUS
  <2>2. d[1] # 0 /\ d[2] # 0 =>
          /\ f[<<d[1] - 1, d[2] - 1>>] \in S /\ f[<<d[1] - 1, d[2]>>] \in S /\ f[<<d[1], d[2] - 1>>] \in S
    BY <1>3
  <2>3. ASSUME NEW s \in S PROVE Append(s, [at |-> d[1], claim |-> d[2]]) \in S
    BY <1>3
  <2> HIDE DEF S
  <2> QED BY <2>1, <2>2, <2>3
<1>5. G \in [[D -> S] -> [D -> S]]
  BY <1>4
<1>6. r \in [D -> Nat] /\ \A d \in D : r[d] = d[1] + d[2] /\ r[d] <= m + n
  <2> HIDE DEF D
  <2>1. ASSUME NEW d \in D PROVE d[1] + d[2] \in Nat /\ d[1] + d[2] <= m + n
    <3>1. d[1] \in Nat /\ d[2] \in Nat /\ d[1] + d[2] <= m + n
      BY <1>3, Zenon
    <3> QED BY <3>1
  <2> QED BY <2>1
<1>7. ASSUME NEW f \in [D -> S], NEW g \in [D -> S], NEW d \in D,
             \A e \in D : r[e] < r[d] => f[e] = g[e]
      PROVE  G[f][d] = G[g][d]
  <2>1. d[1] # 0 /\ d[2] # 0 =>
          /\ r[<<d[1] - 1, d[2] - 1>>] < r[d] /\ r[<<d[1] - 1, d[2]>>] < r[d]
          /\ r[<<d[1], d[2] - 1>>] < r[d]
    <3> HIDE DEF D, r
    <3> SUFFICES ASSUME d[1] # 0, d[2] # 0
                 PROVE  /\ r[<<d[1] - 1, d[2] - 1>>] < r[d] /\ r[<<d[1] - 1, d[2]>>] < r[d]
                        /\ r[<<d[1], d[2] - 1>>] < r[d]
      OBVIOUS
    <3>1. /\ r[d] = d[1] + d[2] /\ r[<<d[1] - 1, d[2] - 1>>] = (d[1] - 1) + (d[2] - 1)
          /\ r[<<d[1] - 1, d[2]>>] = (d[1] - 1) + d[2] /\ r[<<d[1], d[2] - 1>>] = d[1] + (d[2] - 1)
      BY <1>3, <1>6
    <3>2. d[1] \in Nat /\ d[2] \in Nat
      BY <1>3
    <3> QED BY <3>1, <3>2
  <2>2. d[1] # 0 /\ d[2] # 0 =>
          /\ f[<<d[1] - 1, d[2] - 1>>] = g[<<d[1] - 1, d[2] - 1>>]
          /\ f[<<d[1] - 1, d[2]>>] = g[<<d[1] - 1, d[2]>>]
          /\ f[<<d[1], d[2] - 1>>] = g[<<d[1], d[2] - 1>>]
    <3> HIDE DEF r
    <3> QED BY <1>3, <1>7, <2>1
  <2>3. Step(f, d[1], d[2]) = Step(g, d[1], d[2])
    BY <2>2
  <2> QED BY <2>3
<1>8. \E f \in [D -> S] : f = Body(f)
  <2>1. S # {} /\ m + n \in Nat
    <3>1. <<>> \in S
      OBVIOUS
    <3>2. m + n \in Nat
      BY <1>1
    <3> HIDE DEF S
    <3> QED BY <3>1, <3>2
  <2> HIDE DEF G, r, D, S, Body
  <2>2. \A f, g \in [D -> S] : \A d \in D :
           (\A e \in D : r[e] < r[d] => f[e] = g[e]) => G[f][d] = G[g][d]
    BY <1>7
  <2>3. Recursive(D, S, r, m + n, G)
    BY <1>5, <1>6, <2>1, <2>2, Zenon DEF Recursive
  <2>4. Solution(D, S, G)
    BY <2>3, Recursion, Zenon
  <2> QED BY <2>4 DEF Solution, G
<1> DEFINE B == Back(claim, text)
<1>9. B = Body(B)
  <2> HIDE DEF Body, B
  <2> QED BY <1>2, <1>8 DEF B
<1> HIDE DEF B
<1>10. <<t, j>> \in D
  BY DEF m, n
<1>11. B[<<t, j>>] = Step(B, t, j)
  BY <1>9, <1>10
<1> QED BY <1>11 DEF B, Taken, dp

\* From every entry the way back yields as many matched tokens as the entry says,
\* in order: where the tokens are not taken the entry is that above or the one
\* before, whichever is larger.
LEMMA BackIs ==
    ASSUME NEW claim \in Seq(Tokens), NEW text \in Seq(Tokens),
           NEW t \in 0..Len(text), NEW j \in 0..Len(claim)
    PROVE  /\ Ascending(Back(claim, text)[<<t, j>>], claim, text, t, j)
           /\ Len(Back(claim, text)[<<t, j>>]) = Table(claim, text, DOMAIN text)[t][j]
<1> DEFINE m == Len(text)
           n == Len(claim)
           all == DOMAIN text
           T == Table(claim, text, all)
           B == Back(claim, text)
           Good(u, k) == Ascending(B[<<u, k>>], claim, text, u, k) /\ Len(B[<<u, k>>]) = T[u][k]
           Bad == {x \in Nat : \E u \in 0..m : \E k \in 0..n : u + k = x /\ ~ Good(u, k)}
           Taken(u, k) == TokenMatch(text[u], claim[k]) /\ T[u][k] = T[u - 1][k - 1] + 1
<1>1. m \in Nat /\ n \in Nat /\ all = 1..m /\ all \in SUBSET (1..Len(text))
  OBVIOUS
<1> HIDE DEF all
<1>2. \A u \in 0..m : \A k \in 0..n : T[u][k] \in Nat /\ T[u][k] <= k
  <2>1. \A u \in 0..m : T[u] \in RowsOf(n)
    BY TableIs
  <2> QED BY <2>1 DEF RowsOf
<1>3. \A k \in 0..n : T[0][k] = 0
  <2>1. T[0] = Zeros(claim)
    BY TableIs
  <2> QED BY <2>1 DEF Zeros
<1>4. ASSUME NEW u \in 1..m, NEW k \in 1..n, ~ Taken(u, k)
      PROVE  IF T[u - 1][k] >= T[u][k - 1] THEN T[u][k] = T[u - 1][k] ELSE T[u][k] = T[u][k - 1]
  <2>1. k \in 0..n /\ k - 1 \in 0..n /\ u - 1 \in 0..m /\ u \in 0..m /\ u \in 1..m
    BY <1>1
  <2>2. T[u][k - 1] <= T[u][k]
    BY <1>1, <2>1, RowsAscend
  <2>3. /\ T[u - 1][k] <= T[u][k]
        /\ \/ T[u][k] = T[u - 1][k]
           \/ \E l \in 1..k : TokenMatch(text[u], claim[l]) /\ T[u][k] = T[u - 1][l - 1] + 1
    <3>1. /\ T[u - 1][k] <= T[u][k]
          /\ \/ T[u][k] = T[u - 1][k]
             \/ u \in all /\ \E l \in 1..k : TokenMatch(text[u], claim[l]) /\ T[u][k] = T[u - 1][l - 1] + 1
      BY <2>1, TableGrows
    <3> QED BY <3>1
  <2>4. ASSUME NEW l \in 1..(k - 1), TokenMatch(text[u], claim[l])
        PROVE  T[u - 1][l - 1] + 1 <= T[u][k - 1]
    <3>1. u \in all
      BY <1>1
    <3> QED BY <2>1, <2>4, <3>1, TableGrows
  <2>5. PICK a \in Nat, b \in Nat, c \in Nat : a = T[u][k] /\ b = T[u - 1][k] /\ c = T[u][k - 1]
    BY <1>2, <2>1
  <2> HIDE DEF T, m, n
  <2>6. a = b \/ a <= c
    <3>1. CASE T[u][k] = T[u - 1][k]
      BY <2>5, <3>1
    <3>2. ASSUME NEW l \in 1..k, TokenMatch(text[u], claim[l]), T[u][k] = T[u - 1][l - 1] + 1
          PROVE  a <= c
      <4>1. l # k
        BY <1>4, <3>2
      <4>2. l \in 1..(k - 1)
        BY <4>1
      <4> QED BY <2>4, <2>5, <3>2, <4>2
    <3> QED BY <2>3, <3>1, <3>2
  <2>7. b <= a /\ c <= a
    BY <2>2, <2>3, <2>5
  <2> QED BY <2>5, <2>6, <2>7
<1>5. \A u \in 0..m : \A k \in 0..n : B[<<u, k>>] =
         IF u = 0 \/ k = 0 THEN <<>>
         ELSE IF Taken(u, k) THEN Append(B[<<u - 1, k - 1>>], [at |-> u, claim |-> k])
         ELSE IF T[u - 1][k] >= T[u][k - 1] THEN B[<<u - 1, k>>]
         ELSE B[<<u, k - 1>>]
  BY BackDef DEF all
<1> HIDE DEF T, B, m, n
<1>6. Bad = {}
  <2> SUFFICES ASSUME Bad # {} PROVE FALSE
    OBVIOUS
  <2>1. PICK x \in Bad : \A y \in Bad : x <= y
    BY MinOf
  <2>2. PICK u \in 0..m, k \in 0..n : u + k = x /\ ~ Good(u, k)
    BY <2>1
  <2>3. ASSUME NEW v \in 0..m, NEW l \in 0..n, v + l < u + k PROVE Good(v, l)
    <3>1. v + l \in Nat /\ x \in Nat /\ ~ (x <= v + l)
      BY <1>1, <2>2, <2>3
    <3> QED BY <2>1, <3>1
  <2>4. CASE u = 0 \/ k = 0
    <3>1. B[<<u, k>>] = <<>> /\ T[u][k] = 0
      <4>1. B[<<u, k>>] = <<>>
        BY <1>5, <2>4
      <4>2. T[u][k] = 0
        <5>1. CASE u = 0
          BY <1>3, <5>1
        <5>2. CASE k = 0
          <6>1. T[u][0] \in Nat /\ T[u][0] <= 0
            BY <1>2, <5>2
          <6> QED BY <5>2, <6>1
        <5> QED BY <2>4, <5>1, <5>2
      <4> QED BY <4>1, <4>2
    <3>2. Ascending(<<>>, claim, text, u, k)
      BY DEF Ascending
    <3> QED BY <2>2, <3>1, <3>2
  <2>5. CASE u # 0 /\ k # 0
    <3>1. /\ u \in 1..m /\ k \in 1..n /\ u - 1 \in 0..m /\ k - 1 \in 0..n
          /\ u \in Nat /\ k \in Nat /\ u - 1 \in Nat /\ k - 1 \in Nat
      BY <1>1, <2>5
    <3>2. Good(u - 1, k - 1) /\ Good(u - 1, k) /\ Good(u, k - 1)
      <4>1. (u - 1) + (k - 1) < u + k /\ (u - 1) + k < u + k /\ u + (k - 1) < u + k
        BY <3>1
      <4> HIDE DEF Good
      <4> QED BY <2>3, <3>1, <4>1
    <3>3. CASE Taken(u, k)
      <4>1. B[<<u, k>>] = Append(B[<<u - 1, k - 1>>], [at |-> u, claim |-> k])
        BY <1>5, <2>5, <3>3
      <4>2. /\ Ascending(B[<<u, k>>], claim, text, u, k)
            /\ Len(B[<<u, k>>]) = Len(B[<<u - 1, k - 1>>]) + 1
        <5>1. /\ Ascending(B[<<u - 1, k - 1>>], claim, text, u - 1, k - 1)
              /\ TokenMatch(text[u], claim[k]) /\ u - 1 \in 0..u /\ k - 1 \in 0..k
              /\ u - 1 < u /\ k - 1 < k
          BY <3>1, <3>2, <3>3
        <5>2. PICK last : last = [at |-> u, claim |-> k]
          OBVIOUS
        <5>3. Ascending(Append(B[<<u - 1, k - 1>>], last), claim, text, u, k)
          BY <3>1, <5>1, <5>2, AscendingGrows, Zenon
        <5>4. Len(Append(B[<<u - 1, k - 1>>], last)) = Len(B[<<u - 1, k - 1>>]) + 1
          BY <5>1 DEF Ascending
        <5> QED BY <4>1, <5>2, <5>3, <5>4
      <4> QED BY <2>2, <3>2, <3>3, <4>2
    <3>4. CASE ~ Taken(u, k) /\ T[u - 1][k] >= T[u][k - 1]
      <4>1. B[<<u, k>>] = B[<<u - 1, k>>] /\ T[u][k] = T[u - 1][k]
        BY <1>4, <1>5, <2>5, <3>1, <3>4
      <4>2. Ascending(B[<<u - 1, k>>], claim, text, u, k)
        <5>1. Ascending(B[<<u - 1, k>>], claim, text, u - 1, k) /\ u - 1 \in 0..u /\ k \in 0..k
          BY <3>1, <3>2
        <5> QED BY <3>1, <5>1, AscendingGrows, Zenon
      <4> QED BY <2>2, <3>1, <3>2, <4>1, <4>2
    <3>5. CASE ~ Taken(u, k) /\ ~ (T[u - 1][k] >= T[u][k - 1])
      <4>1. B[<<u, k>>] = B[<<u, k - 1>>] /\ T[u][k] = T[u][k - 1]
        BY <1>4, <1>5, <2>5, <3>1, <3>5
      <4>2. Ascending(B[<<u, k - 1>>], claim, text, u, k)
        <5>1. Ascending(B[<<u, k - 1>>], claim, text, u, k - 1) /\ u \in 0..u /\ k - 1 \in 0..k
          BY <3>1, <3>2
        <5> QED BY <3>1, <5>1, AscendingGrows, Zenon
      <4> QED BY <2>2, <3>1, <3>2, <4>1, <4>2
    <3> QED BY <3>3, <3>4, <3>5
  <2> QED BY <2>4, <2>5
<1>7. Good(t, j)
  <2>1. t + j \in Nat
    OBVIOUS
  <2> QED BY <1>6, <2>1 DEF m, n
<1> QED BY <1>7 DEF T, B, all

\* What is located is in the text and in the claim, in the order of both, and is
\* nothing or the whole of the longest common subsequence.
LEMMA LocatedIs ==
    ASSUME NEW claim \in Seq(Tokens), NEW text \in Seq(Tokens)
    PROVE  /\ Ascending(Located(claim, text), claim, text, Len(text), Len(claim))
           /\ Len(Located(claim, text)) \in {0, LcsLen(claim, text, DOMAIN text)}
           /\ Located(claim, text) # <<>> =>
                Len(Located(claim, text)) = LcsLen(claim, text, DOMAIN text)
           /\ LcsLen(claim, text, DOMAIN text) = Len(claim) /\ Len(claim) >= 2 =>
                Len(Located(claim, text)) = Len(claim)
<1> DEFINE m == Len(text)
           n == Len(claim)
           b == Back(claim, text)[<<m, n>>]
           best == LcsLen(claim, text, DOMAIN text)
<1>1. m \in Nat /\ n \in Nat /\ DOMAIN text = 1..m /\ m \in 0..m /\ n \in 0..n
  OBVIOUS
<1>2. Ascending(b, claim, text, m, n) /\ Len(b) = best
  BY <1>1, BackIs DEF LcsLen
<1>3. Ascending(<<>>, claim, text, m, n) /\ Len(<<>>) = 0
  BY DEF Ascending
<1> HIDE DEF best, b, m, n
<1>4. CASE best >= 2 /\ (best = n \/ 2 * best >= n)
  <2>1. Located(claim, text) = b
    BY <1>4 DEF Located, best, b, n, m
  <2> QED BY <1>2, <2>1 DEF best, n, m
<1>5. CASE ~ (best >= 2 /\ (best = n \/ 2 * best >= n))
  <2>1. Located(claim, text) = <<>>
    BY <1>5 DEF Located, best, n
  <2>2. ~ (best = n /\ n >= 2)
    BY <1>5
  <2> QED BY <1>3, <2>1, <2>2 DEF best, n, m
<1> QED BY <1>4, <1>5

-----------------------------------------------------------------------------
(* The citation. *)

\* The passages and the tag are of those there are.
CiteInv ==
    /\ shown \in Shown
    /\ tag \in [idx : DOMAIN shown, page : WrittenPages, claim : Claims]

\* _resolve_citations changes neither the passages nor what the model wrote.
THEOREM CiteInvariant == CiteSpec => []CiteInv
<1>1. CiteInit => CiteInv
  BY DEF CiteInit, CiteInv
<1>2. CiteInv /\ [Resolve]_citeVars => CiteInv'
  BY DEF CiteInv, Resolve, citeVars
<1> QED BY <1>1, <1>2, PTL DEF CiteSpec

\* A passage has pages, whose numbers are tokens.
LEMMA PassageIs ==
    ASSUME CiteInv, NEW n \in DOMAIN shown
    PROVE  LET p == shown[n]
           IN /\ p.pages \in Seq([page : Int, words : Seq(Tokens)])
              /\ Len(p.pages) \in Nat \ {0} /\ DOMAIN p.pages = 1..Len(p.pages)
              /\ \A k \in DOMAIN p.pages : NumberOf(p, k) \in Tokens
<1> DEFINE P == [page : Int, words : Seq(Tokens)]
           Q == [book : CiteBooks, pages : Seq(P)]
           p == shown[n]
<1>1. /\ shown \in Seq(Q) /\ p.pages # <<>>
      /\ \A k \in DOMAIN p.pages : p.pages[k].page \in Tokens /\ p.pages[k].page + Shift \in Tokens
  BY CitationAssumption DEF CiteInv
<1>2. p \in Q
  <2> HIDE DEF Q
  <2>1. n \in 1..Len(shown)
    BY <1>1
  <2> QED BY <1>1, <2>1
<1>3. p.pages \in Seq(P)
  <2> HIDE DEF P
  <2> QED BY <1>2
<1>4. Len(p.pages) \in Nat \ {0} /\ DOMAIN p.pages = 1..Len(p.pages)
  <2> HIDE DEF P, p
  <2> QED BY <1>1, <1>3, EmptySeq
<1>5. \A k \in DOMAIN p.pages : NumberOf(p, k) \in Tokens
  BY <1>1 DEF NumberOf, Number
<1> QED BY <1>3, <1>4, <1>5

\* What the annotated text of a passage consists of.
Piece(p) == [token : Tokens, number : Numbers(p), marker : BOOLEAN]

LEMMA SegmentIs ==
    ASSUME CiteInv, NEW n \in DOMAIN shown, NEW k \in DOMAIN shown[n].pages
    PROVE  Segment(shown[n], k) \in Seq(Piece(shown[n]))
<1> DEFINE p == shown[n]
           number == NumberOf(p, k)
           PW == [page : Int, words : Seq(Tokens)]
<1>1. number \in Tokens /\ number \in Numbers(p) /\ PageWord \in Tokens
  BY PassageIs, CitationAssumption DEF Numbers
<1>2. p.pages[k].words \in Seq(Tokens)
  <2>1. p.pages \in Seq(PW) /\ \A x \in PW : x.words \in Seq(Tokens)
    BY PassageIs
  <2> HIDE DEF PW, p
  <2> QED BY <2>1 DEF p
<1>3. Marker(p, k) \in Seq(Tokens)
  <2>1. <<PageWord, number>> \in Seq(Tokens) /\ <<>> \in Seq(Tokens)
    BY <1>1
  <2> QED BY <2>1 DEF Marker
<1> HIDE DEF number, p
<1>4. ASSUME NEW tokens \in Seq(Tokens), NEW marker \in BOOLEAN
      PROVE  Pieces(tokens, number, marker) \in Seq(Piece(p))
  <2>1. DOMAIN tokens = 1..Len(tokens) /\ Len(tokens) \in Nat
    OBVIOUS
  <2>2. \A m \in 1..Len(tokens) :
           [token |-> tokens[m], number |-> number, marker |-> marker] \in Piece(p)
    BY <1>1 DEF Piece
  <2>3. Pieces(tokens, number, marker) \in [1..Len(tokens) -> Piece(p)]
    BY <2>1, <2>2 DEF Pieces
  <2> QED BY <2>1, <2>3, FunIsSeq
<1>5. /\ Pieces(Marker(p, k), number, TRUE) \in Seq(Piece(p))
      /\ Pieces(p.pages[k].words, number, FALSE) \in Seq(Piece(p))
  BY <1>2, <1>3, <1>4
<1>6. Segment(p, k) = Pieces(Marker(p, k), number, TRUE) \o Pieces(p.pages[k].words, number, FALSE)
  BY DEF Segment, number
<1>7. \A s, t \in Seq(Piece(p)) : s \o t \in Seq(Piece(p))
  <2> DEFINE S == Piece(p)
  <2> HIDE DEF S
  <2>1. \A s, t \in Seq(S) : s \o t \in Seq(S)
    OBVIOUS
  <2> QED BY <2>1 DEF S
<1> QED BY <1>5, <1>6, <1>7, Zenon DEF p

\* The recursive definition of the annotated text has a solution.
LEMMA AnnotatedIs ==
    ASSUME CiteInv, NEW n \in DOMAIN shown
    PROVE  Annotated(shown[n]) \in Seq(Piece(shown[n]))
<1> DEFINE p == shown[n]
           m == Len(p.pages)
           S == Seq(Piece(p))
           Step(f, k) == IF k = 0 THEN <<>> ELSE f[k - 1] \o Segment(p, k)
           Body(f) == [k \in 0..m |-> Step(f, k)]
           T == CHOOSE f : f = Body(f)
           G == [f \in [0..m -> S] |-> Body(f)]
           r == [k \in 0..m |-> k]
<1>1. m \in Nat /\ DOMAIN p.pages = 1..m
  BY PassageIs
<1>2. <<>> \in S /\ \A k \in 1..m : Segment(p, k) \in S
  BY <1>1, SegmentIs
<1>3. \A s, t \in S : s \o t \in S
  <2> HIDE DEF p
  <2> QED OBVIOUS
<1> HIDE DEF S, m, p
<1>4. \A f \in [0..m -> S] : Body(f) \in [0..m -> S]
  <2> SUFFICES ASSUME NEW f \in [0..m -> S], NEW k \in 0..m PROVE Step(f, k) \in S
    OBVIOUS
  <2>1. k # 0 => k \in 1..m /\ f[k - 1] \in S
    BY <1>1
  <2> QED BY <1>2, <1>3, <2>1
<1>5. G \in [[0..m -> S] -> [0..m -> S]]
  BY <1>4
<1>6. r \in [0..m -> Nat] /\ \A k \in 0..m : r[k] <= m
  BY <1>1
<1>7. ASSUME NEW f \in [0..m -> S], NEW g \in [0..m -> S], NEW k \in 0..m,
             \A e \in 0..m : r[e] < r[k] => f[e] = g[e]
      PROVE  G[f][k] = G[g][k]
  <2>1. k # 0 => f[k - 1] = g[k - 1]
    BY <1>1, <1>7
  <2>2. Step(f, k) = Step(g, k)
    BY <2>1
  <2> QED BY <2>2
<1>8. \E f \in [0..m -> S] : f = Body(f)
  <2> HIDE DEF Body
  <2>1. S # {}
    BY <1>2
  <2>2. \E f \in [0..m -> S] : f = G[f]
    <3> HIDE DEF G, r
    <3>1. \A f, g \in [0..m -> S] : \A k \in 0..m :
             (\A e \in 0..m : r[e] < r[k] => f[e] = g[e]) => G[f][k] = G[g][k]
      BY <1>7
    <3>2. Recursive(0..m, S, r, m, G)
      BY <1>1, <1>5, <1>6, <2>1, <3>1, Zenon DEF Recursive
    <3>3. Solution(0..m, S, G)
      BY <3>2, Recursion, Zenon
    <3> QED BY <3>3 DEF Solution
  <2> QED BY <2>2
<1>9. Annotated(p) = T[m]
  BY DEF Annotated, m
<1>10. T = Body(T)
  <2> HIDE DEF Body
  <2> QED BY <1>8
<1> HIDE DEF T
<1>11. T[0] = <<>> /\ \A k \in 1..m : T[k] = T[k - 1] \o Segment(p, k)
  <2>1. T[0] = Step(T, 0)
    BY <1>1, <1>10
  <2>2. \A k \in 1..m : T[k] = Step(T, k) /\ k # 0
    <3> TAKE k \in 1..m
    <3>1. k \in 0..m /\ k # 0
      BY <1>1
    <3> QED BY <1>10, <3>1
  <2> QED BY <2>1, <2>2
<1>12. \A k \in 0..m : T[k] \in S
  <2> DEFINE Bad == {k \in 0..m : T[k] \notin S}
  <2> SUFFICES ASSUME Bad # {} PROVE FALSE
    OBVIOUS
  <2>1. PICK k \in Bad : \A j \in Bad : k <= j
    <3>1. Bad \in SUBSET Nat
      OBVIOUS
    <3> QED BY <3>1, MinOf
  <2>2. k # 0 /\ k \in 1..m
    BY <1>1, <1>2, <1>11, <2>1
  <2>3. T[k - 1] \in S
    <3>1. k - 1 \in 0..m /\ ~ (k <= k - 1)
      BY <1>1, <2>2
    <3> QED BY <2>1, <3>1
  <2>4. T[k] \in S
    BY <1>2, <1>3, <1>11, <2>2, <2>3
  <2> QED BY <2>1, <2>4
<1>13. m \in 0..m
  BY <1>1
<1> QED BY <1>9, <1>12, <1>13 DEF S, p

\* An annotated text has tokens, each with a number of the passage.
LEMMA TextIs ==
    ASSUME CiteInv, NEW n \in DOMAIN shown
    PROVE  LET text == Annotated(shown[n])
           IN /\ Len(text) \in Nat /\ DOMAIN text = 1..Len(text)
              /\ TokensOf(text) \in Seq(Tokens) /\ Len(TokensOf(text)) = Len(text)
              /\ DOMAIN TokensOf(text) = DOMAIN text
              /\ \A k \in DOMAIN text : text[k].number \in Numbers(shown[n])
              /\ \A page : PlacesOn(text, page) \in SUBSET (DOMAIN text)
<1> DEFINE text == Annotated(shown[n])
           P == Piece(shown[n])
<1>1. text \in Seq(P)
  BY AnnotatedIs
<1>2. \A x \in P : x.token \in Tokens /\ x.number \in Numbers(shown[n])
  BY DEF Piece
<1> HIDE DEF text, P
<1>3. Len(text) \in Nat /\ DOMAIN text = 1..Len(text) /\ \A k \in DOMAIN text : text[k] \in P
  BY <1>1
<1>4. TokensOf(text) \in [1..Len(text) -> Tokens]
  BY <1>2, <1>3 DEF TokensOf
<1>5. TokensOf(text) \in Seq(Tokens) /\ Len(TokensOf(text)) = Len(text)
  BY <1>3, <1>4, FunIsSeq
<1> QED BY <1>2, <1>3, <1>4, <1>5 DEF PlacesOn, text

\* The cited passage is one of those shown, and the claim has tokens.
LEMMA TagIs == ASSUME CiteInv PROVE tag.idx \in DOMAIN shown /\ tag.claim \in Seq(Tokens)
BY CitationAssumption DEF CiteInv

\* For every claim and every text, the table counts the longest common subsequence,
\* of the text and of each page, and what is located is nothing or that many tokens.
THEOREM MatchIsLongest == CiteSpec => []LongestMatch
<1>1. CiteInv => LongestMatch
  <2> SUFFICES ASSUME CiteInv, NEW n \in DOMAIN shown
               PROVE  LET annotated == Annotated(shown[n])
                          text == TokensOf(annotated)
                          matched == Located(tag.claim, text)
                      IN /\ \A places \in {DOMAIN text} \cup {PlacesOn(annotated, m) : m \in Numbers(shown[n])} :
                              LcsLen(tag.claim, text, places) = Longest(tag.claim, text, places)
                         /\ Len(matched) \in {0, Longest(tag.claim, text, DOMAIN text)}
                         /\ \A k \in DOMAIN matched :
                              /\ TokenMatch(text[matched[k].at], tag.claim[matched[k].claim])
                              /\ k > 1 => /\ matched[k - 1].at < matched[k].at
                                          /\ matched[k - 1].claim < matched[k].claim
    BY DEF LongestMatch
  <2> DEFINE annotated == Annotated(shown[n])
             text == TokensOf(annotated)
             matched == Located(tag.claim, text)
  <2>1. /\ text \in Seq(Tokens) /\ DOMAIN text = 1..Len(text) /\ tag.claim \in Seq(Tokens)
        /\ \A page : PlacesOn(annotated, page) \in SUBSET (1..Len(text))
    BY TextIs, TagIs
  <2> HIDE DEF text, annotated
  <2>2. \A places \in SUBSET (1..Len(text)) :
           LcsLen(tag.claim, text, places) = Longest(tag.claim, text, places)
    BY <2>1, LcsIs
  <2>3. /\ Ascending(matched, tag.claim, text, Len(text), Len(tag.claim))
        /\ Len(matched) \in {0, LcsLen(tag.claim, text, DOMAIN text)}
    BY <2>1, LocatedIs
  <2> HIDE DEF matched
  <2>4. DOMAIN matched = 1..Len(matched)
    BY <2>3 DEF Ascending
  <2>5. \A places \in {DOMAIN text} \cup {PlacesOn(annotated, m) : m \in Numbers(shown[n])} :
           LcsLen(tag.claim, text, places) = Longest(tag.claim, text, places)
    BY <2>1, <2>2
  <2>6. \A k \in DOMAIN matched :
           /\ TokenMatch(text[matched[k].at], tag.claim[matched[k].claim])
           /\ k > 1 => matched[k - 1].at < matched[k].at /\ matched[k - 1].claim < matched[k].claim
    BY <2>3, <2>4 DEF Ascending
  <2> QED BY <2>3, <2>5, <2>6 DEF text, annotated, matched
<1> QED BY <1>1, CiteInvariant, PTL

-----------------------------------------------------------------------------
(* The page that is cited was shown. *)

\* How three scores are compared.
LEMMA NotBeaten ==
    ASSUME NEW p \in Int, NEW q \in Int, NEW r \in Int,
           NEW p1 \in Int, NEW q1 \in Int, NEW r1 \in Int,
           p <= p1, p = p1 => q <= q1, p = p1 /\ q = q1 => r <= r1
    PROVE  ~ Beats(<<p, q, r>>, <<p1, q1, r1>>)
<1> SUFFICES ASSUME NEW k \in 1..3, <<p, q, r>>[k] > <<p1, q1, r1>>[k],
                    \A m \in 1..(k - 1) : <<p, q, r>>[m] = <<p1, q1, r1>>[m]
             PROVE  FALSE
  BY DEF Beats
<1>1. CASE k = 1
  BY <1>1
<1>2. CASE k = 2
  <2>1. 1 \in 1..(k - 1)
    BY <1>2
  <2> QED BY <1>2, <2>1
<1>3. CASE k = 3
  <2>1. 1 \in 1..(k - 1) /\ 2 \in 1..(k - 1)
    BY <1>3
  <2> QED BY <1>3, <2>1
<1> QED BY <1>1, <1>2, <1>3

\* Of bounded scores one is not beaten.
LEMMA Unbeaten ==
    ASSUME NEW X, X # {}, NEW N \in Nat, NEW a \in [X -> 0..N], NEW b \in [X -> 0..N],
           NEW c \in [X -> Nat]
    PROVE  \E x \in X : \A y \in X : ~ Beats(<<a[y], b[y], -c[y]>>, <<a[x], b[x], -c[x]>>)
<1>1. PICK x1 \in X : \A y \in X : a[y] <= a[x1]
  <2> DEFINE V == {a[y] : y \in X}
  <2>1. V \in SUBSET Nat /\ V # {} /\ \A n \in V : n <= N
    OBVIOUS
  <2>2. Max(V) \in V /\ \A n \in V : Max(V) >= n
    BY <2>1, MaxOf, Zenon
  <2> QED BY <2>1, <2>2
<1> DEFINE Y == {y \in X : a[y] = a[x1]}
<1>2. PICK x2 \in Y : \A y \in Y : b[y] <= b[x2]
  <2> DEFINE V == {b[y] : y \in Y}
  <2>1. V \in SUBSET Nat /\ V # {} /\ \A n \in V : n <= N
    OBVIOUS
  <2>2. Max(V) \in V /\ \A n \in V : Max(V) >= n
    BY <2>1, MaxOf, Zenon
  <2> QED BY <2>1, <2>2
<1> DEFINE Z == {y \in Y : b[y] = b[x2]}
<1>3. PICK x3 \in Z : \A z \in Z : c[x3] <= c[z]
  <2> DEFINE V == {c[y] : y \in Z}
  <2>1. V \in SUBSET Nat /\ V # {}
    OBVIOUS
  <2>2. Min(V) \in V /\ \A n \in V : Min(V) <= n
    BY <2>1, MinOf, Zenon
  <2> QED BY <2>1, <2>2
<1>4. ASSUME NEW y \in X PROVE ~ Beats(<<a[y], b[y], -c[y]>>, <<a[x3], b[x3], -c[x3]>>)
  <2>1. /\ a[y] \in Nat /\ b[y] \in Nat /\ c[y] \in Nat
        /\ a[x3] \in Nat /\ b[x3] \in Nat /\ c[x3] \in Nat
    OBVIOUS
  <2>2. a[y] <= a[x3]
    BY <1>1
  <2>3. a[y] = a[x3] => b[y] <= b[x3]
    BY <1>2
  <2>4. a[y] = a[x3] /\ b[y] = b[x3] => c[x3] <= c[y]
    BY <1>3
  <2> HIDE DEF Y, Z
  <2>5. /\ -c[y] \in Int /\ -c[x3] \in Int
        /\ a[y] = a[x3] /\ b[y] = b[x3] => -c[y] <= -c[x3]
    BY <2>1, <2>4
  <2>6. a[y] \in Int /\ b[y] \in Int /\ a[x3] \in Int /\ b[x3] \in Int
    BY <2>1
  <2> QED BY <2>2, <2>3, <2>5, <2>6, NotBeaten, Zenon
<1> QED BY <1>4

\* The page that is chosen is one that the match touches, and no other has a better
\* score.
LEMMA DensePageIs ==
    ASSUME CiteInv, NEW n \in DOMAIN shown, NEW freq, NEW matched,
           matched = Located(tag.claim, TokensOf(Annotated(shown[n]))), matched # <<>>
    PROVE  LET p == Annotated(shown[n])
               page == DensePage(p, tag.claim, matched, freq)
           IN /\ page \in Touched(p, matched) /\ Touched(p, matched) \subseteq Numbers(shown[n])
              /\ \A q \in Touched(p, matched) :
                   ~ Beats(PageScore(p, tag.claim, matched, freq, q),
                           PageScore(p, tag.claim, matched, freq, page))
<1> DEFINE p == Annotated(shown[n])
           text == TokensOf(p)
           X == Touched(p, matched)
           L == Len(tag.claim)
           W == (DOMAIN matched) \X (1..3)
           Worth(q) == PageScore(p, tag.claim, matched, freq, q)
           lcs == [q \in X |-> LcsLen(tag.claim, text, PlacesOn(p, q))]
           share == [q \in X |-> Share(p, tag.claim, matched, freq, q)]
           first == [q \in X |-> Min(MatchedOn(p, matched, q))]
<1>1. /\ text \in Seq(Tokens) /\ tag.claim \in Seq(Tokens) /\ L \in Nat /\ Len(text) \in Nat
      /\ Len(text) = Len(p) /\ DOMAIN p = 1..Len(text)
      /\ \A page : PlacesOn(p, page) \in SUBSET (1..Len(text))
  BY TextIs, TagIs
<1>2. Ascending(matched, tag.claim, text, Len(text), L)
  BY <1>1, LocatedIs
<1>3. /\ Len(matched) \in Nat \ {0} /\ DOMAIN matched = 1..Len(matched)
      /\ \A k \in DOMAIN matched : matched[k].at \in DOMAIN p
  <2> DEFINE P == [at : 1..Len(text), claim : 1..L]
  <2>1. matched \in Seq(P)
    BY <1>2 DEF Ascending
  <2>2. \A x \in P : x.at \in DOMAIN p
    BY <1>1
  <2> HIDE DEF P
  <2>3. Len(matched) # 0
    BY <2>1, EmptySeq
  <2> QED BY <2>1, <2>2, <2>3
<1>4. X # {} /\ X \subseteq Numbers(shown[n])
  <2>1. \A k \in DOMAIN p : p[k].number \in Numbers(shown[n])
    BY TextIs
  <2>2. X = {p[matched[k].at].number : k \in DOMAIN matched}
    BY DEF Touched
  <2> HIDE DEF p, X
  <2>3. 1 \in DOMAIN matched
    BY <1>3
  <2>4. \A k \in DOMAIN matched : p[matched[k].at].number \in Numbers(shown[n])
    BY <1>3, <2>1
  <2> QED BY <2>2, <2>3, <2>4
<1>5. IsFiniteSet(W)
  <2>1. IsFiniteSet(DOMAIN matched) /\ IsFiniteSet(1..3)
    <3>1. PICK m \in Int : m = Len(matched)
      BY <1>3
    <3>2. IsFiniteSet(1..m)
      BY <3>1, FS_Interval
    <3>3. IsFiniteSet(1..3)
      <4>1. 1 \in Int /\ 3 \in Int
        OBVIOUS
      <4> QED BY <4>1, FS_Interval, Zenon
    <3>4. DOMAIN matched = 1..m
      BY <1>3, <3>1
    <3> QED BY <3>2, <3>3, <3>4, Zenon
  <2>2. PICK S, T : S = DOMAIN matched /\ T = 1..3
    OBVIOUS
  <2>3. IsFiniteSet(S \X T)
    BY <2>1, <2>2, FS_Product
  <2> QED BY <2>2, <2>3
<1>6. Cardinality(W) \in Nat
  BY <1>5, FS_CardinalityType
<1>7. \A q \in X : lcs[q] \in Nat /\ lcs[q] <= L
  BY <1>1, LcsIs
<1>8. ASSUME NEW q \in X PROVE share[q] \in Nat /\ share[q] <= Cardinality(W)
  <2> DEFINE Z == {kw \in MatchedOn(p, matched, q) \X (1..3) :
                     kw[2] <= Weight(freq[tag.claim[matched[kw[1]].claim]])}
  <2>1. Z \in SUBSET W
    BY DEF MatchedOn
  <2>2. share[q] = Cardinality(Z)
    BY DEF Share
  <2> HIDE DEF Z, W, share
  <2>3. IsFiniteSet(Z) /\ Cardinality(Z) <= Cardinality(W)
    BY <1>5, <2>1, FS_Subset
  <2> QED BY <2>2, <2>3, FS_CardinalityType
<1>9. ASSUME NEW q \in X PROVE first[q] \in Nat
  <2>1. MatchedOn(p, matched, q) \in SUBSET Nat /\ MatchedOn(p, matched, q) # {}
    BY <1>3 DEF MatchedOn, Touched
  <2>2. Min(MatchedOn(p, matched, q)) \in Nat
    BY <2>1, MinOf
  <2> QED BY <2>2
<1> DEFINE top == L + Cardinality(W)
<1>10. /\ top \in Nat /\ lcs \in [X -> 0..top] /\ share \in [X -> 0..top]
       /\ first \in [X -> Nat]
  <2>1. top \in Nat /\ L <= top /\ Cardinality(W) <= top
    BY <1>1, <1>6
  <2>2. \A q \in X : lcs[q] \in 0..top
    <3> HIDE DEF X, lcs
    <3> QED BY <1>1, <1>7, <2>1
  <2>3. \A q \in X : share[q] \in 0..top
    <3> HIDE DEF X, share, W
    <3> QED BY <1>6, <1>8, <2>1
  <2>4. \A q \in X : first[q] \in Nat
    BY <1>9
  <2> HIDE DEF X, top
  <2> QED BY <2>1, <2>2, <2>3, <2>4
<1>11. \A q \in X : Worth(q) = <<lcs[q], share[q], -first[q]>>
  BY DEF PageScore
<1>12. \E q \in X : \A r \in X : ~ Beats(Worth(r), Worth(q))
  <2> HIDE DEF X, lcs, share, first, Worth, top
  <2>1. \E q \in X : \A r \in X :
           ~ Beats(<<lcs[r], share[r], -first[r]>>, <<lcs[q], share[q], -first[q]>>)
    BY <1>4, <1>10, Unbeaten
  <2> QED BY <1>11, <2>1
<1>13. DensePage(p, tag.claim, matched, freq) = CHOOSE q \in X : \A r \in X : ~ Beats(Worth(r), Worth(q))
  BY DEF DensePage
<1> HIDE DEF Worth, X
<1>14. /\ DensePage(p, tag.claim, matched, freq) \in X
       /\ \A r \in X : ~ Beats(Worth(r), Worth(DensePage(p, tag.claim, matched, freq)))
  BY <1>12, <1>13
<1> QED BY <1>4, <1>14 DEF Worth, X

\* Whatever is found is a number of a passage of the cited book.
LEMMA FoundIsShown ==
    ASSUME CiteInv, NEW f \in Found(tag.idx, tag.claim)
    PROVE  \E n \in DOMAIN shown : shown[n].book = shown[tag.idx].book /\ f.page \in Numbers(shown[n])
<1>1. PICK g \in Findings(tag.idx, tag.claim) :
         f.page = DensePage(g.text, tag.claim, g.matched, Frequency(tag.idx))
  BY DEF Found
<1>2. PICK k \in Candidates(tag.idx) : g = Finding(k, tag.claim) /\ g.matched # <<>>
  BY DEF Findings
<1>3. k \in DOMAIN shown /\ shown[k].book = shown[tag.idx].book
  BY <1>2 DEF Candidates
<1>4. g.text = Annotated(shown[k]) /\ g.matched = Located(tag.claim, TokensOf(Annotated(shown[k])))
  BY <1>2 DEF Finding
<1>5. f.page \in Numbers(shown[k])
  BY <1>1, <1>2, <1>3, <1>4, DensePageIs
<1> QED BY <1>3, <1>5

\* And so is what _claim_page falls back on.
LEMMA ClaimPageIsShown ==
    ASSUME CiteInv
    PROVE  \E n \in DOMAIN shown :
              /\ shown[n].book = shown[tag.idx].book
              /\ ClaimPage(tag.idx, tag.page, tag.claim) \in Numbers(shown[n])
<1> DEFINE accepted == {f \in Found(tag.idx, tag.claim) : Accepted(tag.idx, tag.claim, f)}
<1>1. CASE tag.claim # <<>> /\ accepted # {}
  <2>1. ClaimPage(tag.idx, tag.page, tag.claim) = (CHOOSE f \in accepted : TRUE).page
    BY <1>1 DEF ClaimPage
  <2>2. PICK f \in accepted : f = CHOOSE g \in accepted : TRUE
    BY <1>1
  <2> QED BY <2>1, <2>2, FoundIsShown
<1>2. CASE ~ (tag.claim # <<>> /\ accepted # {})
  <2>1. ClaimPage(tag.idx, tag.page, tag.claim) = Fallback(tag.idx, tag.page)
    BY <1>2 DEF ClaimPage
  <2>2. 1 \in DOMAIN shown[tag.idx].pages /\ tag.idx \in DOMAIN shown
    BY PassageIs, TagIs
  <2>3. Fallback(tag.idx, tag.page) \in Numbers(shown[tag.idx])
    BY <2>2 DEF Fallback, Numbers
  <2> QED BY <2>1, <2>2, <2>3
<1> QED BY <1>1, <1>2

\* Whatever the model writes and whatever it was shown, the page of a citation is
\* one of the cited book that was shown.
THEOREM CitedIsShown == CiteSpec => []PageIsShown
<1>1. CiteInit => PageIsShown
  BY DEF CiteInit, PageIsShown
<1>2. CiteInv /\ PageIsShown /\ [Resolve]_citeVars => PageIsShown'
  <2> SUFFICES ASSUME CiteInv, PageIsShown, [Resolve]_citeVars PROVE PageIsShown'
    OBVIOUS
  <2>1. shown' = shown /\ tag' = tag /\ numbered' = numbered
    BY DEF Resolve, citeVars
  <2>2. \A n : Numbers(shown[n])' = Numbers(shown[n])
    BY <2>1 DEF Numbers, NumberOf, Number
  <2>3. CASE Resolve
    <3>1. cited' = ClaimPage(tag.idx, tag.page, tag.claim)
      BY <2>3 DEF Resolve
    <3> QED BY <2>1, <2>2, <3>1, ClaimPageIsShown DEF PageIsShown
  <2>4. CASE UNCHANGED citeVars
    BY <2>1, <2>2, <2>4 DEF PageIsShown, citeVars
  <2> QED BY <2>3, <2>4
<1> QED BY <1>1, <1>2, CiteInvariant, PTL DEF CiteSpec

-----------------------------------------------------------------------------
(* A claim that one page holds. *)

\* How many numbers there are up to one.
LEMMA UpToIs == ASSUME NEW n \in Nat PROVE IsFiniteSet(1..n) /\ Cardinality(1..n) = n
<1>1. IsFiniteSet(1..n) /\ Cardinality(1..n) = IF 1 > n THEN 0 ELSE n - 1 + 1
  BY FS_Interval
<1>2. (IF 1 > n THEN 0 ELSE n - 1 + 1) = n
  OBVIOUS
<1> QED BY <1>1, <1>2

\* Places hold the whole claim when the longest common subsequence is as long.
LEMMA HoldsIs ==
    ASSUME NEW claim \in Seq(Tokens), NEW text \in Seq(Tokens), NEW places \in SUBSET (1..Len(text))
    PROVE  Holds(claim, text, places) <=> LcsLen(claim, text, places) = Len(claim)
<1> DEFINE n == Len(claim)
           v == LcsLen(claim, text, places)
<1>1. n \in Nat /\ DOMAIN claim = 1..n
  OBVIOUS
<1>2. IsFiniteSet(1..n) /\ Cardinality(1..n) = n
  BY <1>1, UpToIs, Zenon
<1>3. /\ v \in Nat /\ v <= n
      /\ \A J \in PartsIn(claim, text, places) : Cardinality(J) <= v
      /\ \E J \in PartsIn(claim, text, places) : Cardinality(J) = v
  BY LcsIs
<1> HIDE DEF n, v
<1>4. ASSUME Holds(claim, text, places) PROVE v = n
  <2>1. 1..n \in PartsIn(claim, text, places)
    BY <1>1, <1>4 DEF Holds
  <2> QED BY <1>1, <1>2, <1>3, <2>1
<1>5. ASSUME v = n PROVE Holds(claim, text, places)
  <2>1. PICK J \in PartsIn(claim, text, places) : Cardinality(J) = n
    BY <1>3, <1>5
  <2>2. J \in SUBSET (1..n)
    BY <1>1 DEF PartsIn
  <2>3. J = 1..n
    BY <1>2, <2>1, <2>2, FS_Subset
  <2> QED BY <1>1, <2>1, <2>3 DEF Holds
<1> QED BY <1>4, <1>5 DEF n, v

\* What a page holds the passage holds.
LEMMA HoldsGrows ==
    ASSUME NEW claim, NEW text, NEW places, NEW all, places \subseteq all,
           Holds(claim, text, places)
    PROVE  Holds(claim, text, all)
<1>1. PICK f \in [DOMAIN claim -> places] : Aligned(f, claim, text)
  BY DEF Holds, PartsIn
<1>2. f \in [DOMAIN claim -> all]
  OBVIOUS
<1> QED BY <1>1, <1>2 DEF Holds, PartsIn

\* A sequence of numbers that grows at every step grows by as many as there are
\* steps.
LEMMA Growing ==
    ASSUME NEW n \in Nat, NEW g \in [1..n -> Nat], \A k \in 1..n : k > 1 => g[k - 1] < g[k],
           NEW j \in 1..n, NEW k \in 1..n, j <= k
    PROVE  g[k] - g[j] >= k - j
<1> DEFINE Bad == {x \in 1..n : j <= x /\ ~ (g[x] - g[j] >= x - j)}
<1>1. Bad = {}
  <2> SUFFICES ASSUME Bad # {} PROVE FALSE
    OBVIOUS
  <2>1. PICK x \in Bad : \A y \in Bad : x <= y
    <3>1. Bad \in SUBSET Nat
      OBVIOUS
    <3> QED BY <3>1, MinOf
  <2>2. x # j /\ x > 1 /\ x - 1 \in 1..n /\ j <= x - 1 /\ ~ (x <= x - 1) /\ x \in 1..n
    BY <2>1
  <2>3. g[x - 1] - g[j] >= (x - 1) - j
    BY <2>1, <2>2
  <2>4. g[x - 1] < g[x] /\ g[x - 1] \in Nat /\ g[x] \in Nat /\ g[j] \in Nat
    BY <2>2
  <2>5. g[x] - g[j] >= x - j
    BY <2>2, <2>3, <2>4
  <2> QED BY <2>1, <2>5
<1> QED BY <1>1

\* A match as long as the claim is the claim, so places that hold all of the match
\* hold the claim.
LEMMA WholeMatch ==
    ASSUME NEW claim \in Seq(Tokens), NEW text \in Seq(Tokens), NEW matched,
           Ascending(matched, claim, text, Len(text), Len(claim)), Len(matched) = Len(claim),
           NEW places, \A k \in 1..Len(claim) : matched[k].at \in places
    PROVE  Holds(claim, text, places)
<1> DEFINE n == Len(claim)
           P == [at : 1..Len(text), claim : 1..n]
           at == [k \in 1..n |-> matched[k].at]
           of == [k \in 1..n |-> matched[k].claim]
<1>1. n \in Nat /\ DOMAIN claim = 1..n
  OBVIOUS
<1>2. ASSUME NEW k \in 1..n PROVE matched[k].at \in Nat /\ matched[k].claim \in 1..n
  <2>1. matched \in Seq(P)
    BY DEF Ascending
  <2>2. \A x \in P : x.at \in Nat /\ x.claim \in 1..n
    BY <1>1
  <2> HIDE DEF P
  <2>3. matched[k] \in P
    BY <2>1
  <2> QED BY <2>2, <2>3
<1>3. \A k \in 1..n : k > 1 => k - 1 \in 1..n
  BY <1>1
<1>4. /\ at \in [1..n -> Nat] /\ \A k \in 1..n : k > 1 => at[k - 1] < at[k]
      /\ of \in [1..n -> 1..n] /\ of \in [1..n -> Nat] /\ \A k \in 1..n : k > 1 => of[k - 1] < of[k]
      /\ \A k \in 1..n : TokenMatch(text[at[k]], claim[of[k]])
  <2>1. at \in [1..n -> Nat] /\ of \in [1..n -> 1..n] /\ of \in [1..n -> Nat]
    BY <1>1, <1>2
  <2>2. \A k \in 1..n : k > 1 => matched[k - 1].at < matched[k].at /\ matched[k - 1].claim < matched[k].claim
    BY DEF Ascending
  <2>3. \A k \in 1..n : TokenMatch(text[matched[k].at], claim[matched[k].claim])
    BY DEF Ascending
  <2> QED BY <1>3, <2>1, <2>2, <2>3
<1>5. \A k \in 1..n : at[k] \in places
  OBVIOUS
<1> HIDE DEF at, of, n
<1>6. ASSUME NEW k \in 1..n PROVE of[k] = k
  <2>1. 1 \in 1..n /\ n \in 1..n /\ 1 <= k /\ k <= n
    BY <1>1
  <2>2. of[k] - of[1] >= k - 1
    BY <1>1, <1>4, <2>1, Growing
  <2>3. of[n] - of[k] >= n - k
    BY <1>1, <1>4, <2>1, Growing
  <2>4. of[1] \in 1..n /\ of[n] \in 1..n /\ of[k] \in 1..n
    BY <1>4, <2>1
  <2> QED BY <1>1, <2>1, <2>2, <2>3, <2>4
<1>7. ASSUME NEW j \in 1..n, NEW k \in 1..n, j < k PROVE at[j] < at[k]
  <2>1. j <= k
    BY <1>1, <1>7
  <2>2. at[k] - at[j] >= k - j
    BY <1>1, <1>4, <2>1, Growing
  <2>3. at[k] \in Nat /\ at[j] \in Nat
    BY <1>4
  <2> QED BY <1>1, <1>7, <2>1, <2>2, <2>3
<1>8. at \in [DOMAIN claim -> places]
  BY <1>1, <1>4, <1>5
<1>9. Aligned(at, claim, text)
  BY <1>1, <1>4, <1>6, <1>7 DEF Aligned
<1> QED BY <1>8, <1>9 DEF Holds, PartsIn

\* A passage on two pages has two numbers.
LEMMA TwoNumbers ==
    ASSUME CiteInv, NEW n \in DOMAIN shown, Len(shown[n].pages) = 2
    PROVE  \A x, y, z \in Numbers(shown[n]) : x = y \/ x = z \/ y = z
<1>1. DOMAIN shown[n].pages = 1..2
  BY PassageIs
<1>2. \A x \in Numbers(shown[n]) : x = NumberOf(shown[n], 1) \/ x = NumberOf(shown[n], 2)
  BY <1>1 DEF Numbers
<1> QED BY <1>2

\* The claim is on one of the two pages of the cited passage, has nothing of their
\* markers, and no other passage of the book has all of it.
Whole(n) ==
    LET p == shown[tag.idx]
        text == Annotated(p)
    IN /\ Len(p.pages) = 2
       /\ Len(tag.claim) >= (IF p.book \in numbered THEN 3 ELSE 2)
       /\ \A k \in DOMAIN text, j \in DOMAIN tag.claim :
            text[k].marker => ~TokenMatch(text[k].token, tag.claim[j])
       /\ n \in Numbers(p) /\ HoldsOn(text, tag.claim, n)
       /\ \A k \in Candidates(tag.idx) \ {tag.idx} :
            LET other == TokensOf(Annotated(shown[k]))
            IN ~Holds(tag.claim, other, DOMAIN other)

\* What a page holds with its marker, its own words hold.
LEMMA NoMarkerIsMatched ==
    ASSUME CiteInv, NEW n, Whole(n), NEW page,
           Holds(tag.claim, TokensOf(Annotated(shown[tag.idx])),
                 PlacesOn(Annotated(shown[tag.idx]), page))
    PROVE  HoldsOn(Annotated(shown[tag.idx]), tag.claim, page)
<1> DEFINE text == Annotated(shown[tag.idx])
           claim == tag.claim
<1>1. PICK f \in [DOMAIN claim -> PlacesOn(text, page)] : Aligned(f, claim, TokensOf(text))
  BY DEF Holds, PartsIn
<1>2. \A k \in DOMAIN text, j \in DOMAIN claim :
         text[k].marker => ~TokenMatch(text[k].token, claim[j])
  BY DEF Whole
<1> HIDE DEF text, claim
<1>3. ASSUME NEW j \in DOMAIN claim PROVE f[j] \in WordsOn(text, page)
  <2>1. f[j] \in PlacesOn(text, page) /\ f[j] \in DOMAIN text
    BY <1>1 DEF PlacesOn
  <2>2. TokensOf(text)[f[j]] = text[f[j]].token
    BY <2>1 DEF TokensOf
  <2>3. TokenMatch(text[f[j]].token, claim[j])
    BY <1>1, <2>2 DEF Aligned
  <2>4. ~ text[f[j]].marker
    BY <1>2, <2>1, <2>3
  <2> QED BY <2>1, <2>4 DEF WordsOn
<1>4. f \in [DOMAIN claim -> WordsOn(text, page)]
  BY <1>1, <1>3
<1>5. Holds(claim, TokensOf(text), WordsOn(text, page))
  BY <1>1, <1>4 DEF Holds, PartsIn
<1> QED BY <1>5 DEF HoldsOn, text, claim

\* Then all of it is found in the cited passage, and nowhere else as much.
LEMMA WholeIsFound ==
    ASSUME CiteInv, NEW n, Whole(n)
    PROVE  LET p == Annotated(shown[tag.idx])
               matched == Located(tag.claim, TokensOf(p))
           IN /\ Len(matched) = Len(tag.claim) /\ matched # <<>>
              /\ Found(tag.idx, tag.claim) =
                   {[page |-> DensePage(p, tag.claim, matched, Frequency(tag.idx)),
                     total |-> Len(tag.claim)]}
<1> DEFINE idx == tag.idx
           claim == tag.claim
           p == Annotated(shown[idx])
           text == TokensOf(p)
           M == Located(claim, text)
           freq == Frequency(idx)
           findings == Findings(idx, claim)
           S(f) == Strength(f.text, claim, f.matched, freq)
           own == [at |-> idx, text |-> p, matched |-> M]
           First(f) == \A g \in findings :
                          ~Beats(S(g), S(f)) /\ (Beats(S(f), S(g)) \/ NotAfter(f.at, g.at, idx))
           Result(f) == [page |-> DensePage(f.text, claim, f.matched, freq), total |-> Len(f.matched)]
<1>1. /\ idx \in DOMAIN shown /\ claim \in Seq(Tokens) /\ Len(claim) \in Nat /\ Len(claim) >= 2
      /\ text \in Seq(Tokens) /\ DOMAIN text = 1..Len(text)
      /\ WordsOn(p, n) \in SUBSET (1..Len(text))
  <2>1. idx \in DOMAIN shown /\ claim \in Seq(Tokens)
    BY TagIs
  <2>2. text \in Seq(Tokens) /\ DOMAIN text = 1..Len(text) /\ PlacesOn(p, n) \in SUBSET (1..Len(text))
    BY <2>1, TextIs
  <2>3. Len(claim) >= 2
    BY <2>1 DEF Whole
  <2> QED BY <2>1, <2>2, <2>3 DEF WordsOn
<1>2. Holds(claim, text, WordsOn(p, n))
  BY DEF Whole, HoldsOn
<1>3. LcsLen(claim, text, DOMAIN text) = Len(claim)
  <2>1. Holds(claim, text, 1..Len(text))
    BY <1>1, <1>2, HoldsGrows
  <2> QED BY <1>1, <2>1, HoldsIs
<1>4. Len(M) = Len(claim) /\ M # <<>>
  <2>1. Len(M) = Len(claim)
    <3>1. Len(claim) >= 2
      BY <1>1
    <3> QED BY <1>1, <1>3, <3>1, LocatedIs
  <2>2. Len(<<>>) = 0
    OBVIOUS
  <2> QED BY <1>1, <2>1, <2>2
<1>5. own \in findings
  <2>1. idx \in Candidates(idx)
    BY <1>1 DEF Candidates
  <2>2. Marked(shown[idx])
    BY DEF Marked, Whole
  <2>3. Finding(idx, claim) = own
    BY DEF Finding
  <2> QED BY <1>4, <2>1, <2>2, <2>3 DEF Findings
<1>6. ASSUME NEW g \in findings, g # own
      PROVE  Len(g.matched) \in Nat /\ Len(g.matched) < Len(claim)
  <2>1. PICK k \in Candidates(idx) : g = Finding(k, claim) /\ g.matched # <<>>
    BY DEF Findings
  <2> DEFINE other == TokensOf(Annotated(shown[k]))
  <2>2. g.at = k /\ g.matched = Located(claim, other) /\ g.matched # <<>>
    BY <2>1 DEF Finding
  <2>3. k # idx
    BY <1>6, <2>1 DEF Finding
  <2>4. k \in DOMAIN shown
    BY <2>1 DEF Candidates
  <2>5. other \in Seq(Tokens) /\ DOMAIN other = 1..Len(other)
    BY <2>4, TextIs
  <2>6. ~ Holds(claim, other, DOMAIN other)
    BY <2>1, <2>2, <2>3, <2>5 DEF Whole
  <2>7. LcsLen(claim, other, DOMAIN other) # Len(claim)
    BY <1>1, <2>5, <2>6, HoldsIs
  <2>8. LcsLen(claim, other, DOMAIN other) \in Nat /\ LcsLen(claim, other, DOMAIN other) <= Len(claim)
    <3>1. DOMAIN other \in SUBSET (1..Len(other))
      BY <2>5
    <3> QED BY <1>1, <2>5, <3>1, LcsIs
  <2>9. Len(g.matched) = LcsLen(claim, other, DOMAIN other)
    BY <1>1, <2>2, <2>5, LocatedIs
  <2> QED BY <1>1, <2>7, <2>8, <2>9
<1>7. \A f : S(f)[1] = Len(f.matched) /\ DOMAIN S(f) = 1..3
  BY DEF Strength
<1> HIDE DEF S, findings
<1>8. First(own)
  <2> SUFFICES ASSUME NEW g \in findings
               PROVE  ~Beats(S(g), S(own)) /\ (Beats(S(own), S(g)) \/ NotAfter(own.at, g.at, idx))
    OBVIOUS
  <2>1. own.at = idx /\ own.matched = M
    OBVIOUS
  <2>2. NotAfter(own.at, g.at, idx)
    BY <2>1 DEF NotAfter
  <2>3. ~Beats(S(g), S(own))
    <3>1. CASE g = own
      <4> DEFINE Equal == {k \in DOMAIN M : p[M[k].at].token = claim[M[k].claim]}
                 Rare == {k \in DOMAIN M : freq[claim[M[k].claim]] = 1}
      <4>1. DOMAIN M = 1..Len(claim) /\ IsFiniteSet(1..Len(claim))
        <5>1. Ascending(M, claim, text, Len(text), Len(claim))
          BY <1>1, LocatedIs
        <5> QED BY <1>1, <1>4, <5>1, UpToIs DEF Ascending
      <4>2. Cardinality(Equal) \in Nat /\ Cardinality(Rare) \in Nat
        <5>1. Equal \in SUBSET (1..Len(claim)) /\ Rare \in SUBSET (1..Len(claim))
          BY <4>1
        <5> HIDE DEF Equal, Rare
        <5> QED BY <4>1, <5>1, FS_Subset, FS_CardinalityType
      <4>3. S(own) = <<Len(M), Cardinality(Equal), Cardinality(Rare)>>
        BY DEF S, Strength
      <4> HIDE DEF Equal, Rare, M, own
      <4>4. PICK a \in Int, b \in Int, c \in Int : S(own) = <<a, b, c>>
        BY <1>1, <1>4, <4>2, <4>3
      <4>5. ~ Beats(<<a, b, c>>, <<a, b, c>>)
        BY <4>4, NotBeaten
      <4> QED BY <3>1, <4>4, <4>5
    <3>2. CASE g # own
      <4>1. Len(g.matched) \in Nat /\ Len(g.matched) < Len(claim)
        BY <1>6, <3>2
      <4>2. S(own)[1] = Len(claim) /\ S(g)[1] = Len(g.matched) /\ DOMAIN S(g) = 1..3
        BY <1>4, <1>7, <2>1
      <4>3. ~ (S(g)[1] > S(own)[1]) /\ S(g)[1] # S(own)[1]
        BY <1>1, <4>1, <4>2
      <4>4. ASSUME NEW k \in 1..3, k # 1 PROVE 1 \in 1..(k - 1)
        BY <4>4
      <4> QED BY <4>2, <4>3, <4>4 DEF Beats
    <3> QED BY <3>1, <3>2
  <2> QED BY <2>2, <2>3
<1>9. ASSUME NEW f \in findings, First(f) PROVE f = own
  <2> SUFFICES ASSUME f # own PROVE FALSE
    OBVIOUS
  <2>1. Len(f.matched) \in Nat /\ Len(f.matched) < Len(claim)
    BY <1>6
  <2>2. ~ Beats(S(own), S(f))
    BY <1>5, <1>9
  <2>3. S(own)[1] = Len(claim) /\ S(f)[1] = Len(f.matched) /\ DOMAIN S(own) = 1..3
    BY <1>4, <1>7
  <2>4. Beats(S(own), S(f))
    <3>1. 1 \in DOMAIN S(own) /\ S(own)[1] > S(f)[1] /\ 1..(1 - 1) = {}
      BY <1>1, <2>1, <2>3
    <3> QED BY <3>1 DEF Beats
  <2> QED BY <2>2, <2>4
<1> HIDE DEF First
<1>10. Found(idx, claim) = {Result(f) : f \in {f \in findings : First(f)}}
  BY DEF Found, First, findings, S
<1>11. {f \in findings : First(f)} = {own}
  BY <1>5, <1>8, <1>9
<1>12. Result(own) = [page |-> DensePage(p, claim, M, freq), total |-> Len(claim)]
  BY <1>4
<1> HIDE DEF own, Result
<1> QED BY <1>4, <1>10, <1>11, <1>12

\* And the page that is chosen holds it: it holds as much as any page that the
\* match touches, and one of those holds it all.
LEMMA WholeIsOnPage ==
    ASSUME CiteInv, NEW n, Whole(n)
    PROVE  HoldsOn(Annotated(shown[tag.idx]), tag.claim, ClaimPage(tag.idx, tag.page, tag.claim))
<1> DEFINE idx == tag.idx
           claim == tag.claim
           p == Annotated(shown[idx])
           text == TokensOf(p)
           M == Located(claim, text)
           freq == Frequency(idx)
           page == DensePage(p, claim, M, freq)
           X == Touched(p, M)
           L == Len(claim)
           found == [page |-> page, total |-> L]
           Lcs(q) == LcsLen(claim, text, PlacesOn(p, q))
<1>1. /\ idx \in DOMAIN shown /\ claim \in Seq(Tokens) /\ L \in Nat /\ L >= 2 /\ (shown[idx].book \in numbered => L >= 3)
      /\ text \in Seq(Tokens) /\ DOMAIN text = DOMAIN p /\ DOMAIN text = 1..Len(text)
      /\ (\A q : PlacesOn(p, q) \in SUBSET (1..Len(text)))
      /\ \A k \in DOMAIN p : p[k].number \in Numbers(shown[idx])
  <2>1. idx \in DOMAIN shown /\ claim \in Seq(Tokens)
    BY TagIs
  <2>2. /\ text \in Seq(Tokens) /\ DOMAIN text = DOMAIN p /\ DOMAIN text = 1..Len(text)
        /\ (\A q : PlacesOn(p, q) \in SUBSET (1..Len(text)))
        /\ \A k \in DOMAIN p : p[k].number \in Numbers(shown[idx])
    BY <2>1, TextIs
  <2>3. L \in Nat /\ L >= 2 /\ (shown[idx].book \in numbered => L >= 3)
    BY <2>1 DEF Whole
  <2> HIDE DEF text, p, L
  <2> QED BY <2>1, <2>2, <2>3
<1>2. Len(M) = L /\ M # <<>> /\ Found(idx, claim) = {found}
  BY WholeIsFound
<1>3. /\ page \in X /\ X \subseteq Numbers(shown[idx])
      /\ \A q \in X : ~ Beats(PageScore(p, claim, M, freq, q), PageScore(p, claim, M, freq, page))
  BY <1>1, <1>2, DensePageIs
<1>4. ClaimPage(idx, tag.page, claim) = page
  <2> HIDE DEF page, L
  <2>1. 2 * L >= L
    BY <1>1
  <2>2. ASSUME shown[idx].book \in numbered PROVE L >= Max({3, (3 * L) \div 4 + 1})
    <3>0. L >= 3 /\ (3 * L) \div 4 + 1 <= L /\ (3 * L) \div 4 + 1 \in Nat
      BY <1>1, <2>2
    <3> DEFINE V == {3, (3 * L) \div 4 + 1}
    <3>1. V \in SUBSET Nat /\ V # {} /\ \A x \in V : x <= L
      BY <1>1, <3>0
    <3>2. Max(V) \in V
      BY <1>1, <3>1, MaxOf, Zenon
    <3> HIDE DEF V
    <3>3. Max(V) \in Nat /\ Max(V) <= L
      BY <3>1, <3>2
    <3> QED BY <1>1, <3>3 DEF V
  <2>3. ASSUME shown[idx].book \notin numbered PROVE page \in PagesOf(shown[idx])
    BY <1>3, <2>3 DEF Numbers, NumberOf, Number, PagesOf
  <2>4. Accepted(idx, claim, found)
    BY <2>1, <2>2, <2>3 DEF Accepted, L
  <2>5. {f \in Found(idx, claim) : Accepted(idx, claim, f)} = {found}
    BY <1>2, <2>4
  <2>6. claim # <<>>
    BY <1>1 DEF L
  <2>7. (CHOOSE f \in {found} : TRUE).page = page
    <3>1. found.page = page
      OBVIOUS
    <3>2. (CHOOSE f \in {found} : TRUE) = found
      <4> HIDE DEF found
      <4> QED OBVIOUS
    <3> QED BY <3>1, <3>2
  <2> HIDE DEF found
  <2> QED BY <2>5, <2>6, <2>7 DEF ClaimPage
<1>5. \E q \in X : Lcs(q) = L
  <2>1. Lcs(n) = L /\ n \in Numbers(shown[idx])
    <3>1. Holds(claim, text, WordsOn(p, n)) /\ n \in Numbers(shown[idx])
      BY DEF Whole, HoldsOn
    <3>2. WordsOn(p, n) \subseteq PlacesOn(p, n)
      BY DEF WordsOn
    <3>3. Holds(claim, text, PlacesOn(p, n))
      BY <3>1, <3>2, HoldsGrows
    <3> QED BY <1>1, <3>1, <3>3, HoldsIs
  <2>2. CASE n \in X
    BY <2>1, <2>2
  <2>3. CASE n \notin X
    <3>1. Ascending(M, claim, text, Len(text), L)
      BY <1>1, LocatedIs
    <3>2. DOMAIN M = 1..L /\ \A k \in 1..L : M[k].at \in DOMAIN p
      <4> DEFINE P == [at : 1..Len(text), claim : 1..L]
      <4>1. M \in Seq(P)
        BY <3>1 DEF Ascending
      <4>2. \A x \in P : x.at \in DOMAIN p
        BY <1>1
      <4> HIDE DEF P, M, L
      <4>3. DOMAIN M = 1..L /\ \A k \in 1..L : M[k] \in P
        BY <1>2, <4>1
      <4> QED BY <4>2, <4>3
    <3>3. ASSUME NEW k \in 1..L PROVE M[k].at \in PlacesOn(p, page)
      <4>1. p[M[k].at].number \in X
        BY <3>2 DEF Touched
      <4>2. p[M[k].at].number = page
        <5>1. p[M[k].at].number # n /\ page # n
          BY <1>3, <2>3, <4>1
        <5>2. Len(shown[idx].pages) = 2
          BY DEF Whole
        <5> HIDE DEF X, page, M, L, p
        <5> QED BY <1>1, <1>3, <2>1, <4>1, <5>1, <5>2, TwoNumbers
      <4> QED BY <3>2, <4>2 DEF PlacesOn
    <3>4. Holds(claim, text, PlacesOn(p, page))
      BY <1>1, <1>2, <3>1, <3>3, WholeMatch
    <3> QED BY <1>1, <1>3, <3>4, HoldsIs
  <2> QED BY <2>2, <2>3
<1>6. Lcs(page) = L
  <2> SUFFICES ASSUME Lcs(page) # L PROVE FALSE
    OBVIOUS
  <2>1. PICK q \in X : Lcs(q) = L
    BY <1>5
  <2>2. Lcs(page) \in Nat /\ Lcs(page) <= L
    BY <1>1, LcsIs
  <2>3. /\ PageScore(p, claim, M, freq, q)[1] = L /\ PageScore(p, claim, M, freq, page)[1] = Lcs(page)
        /\ DOMAIN PageScore(p, claim, M, freq, q) = 1..3
    BY <2>1 DEF PageScore
  <2>4. Beats(PageScore(p, claim, M, freq, q), PageScore(p, claim, M, freq, page))
    <3> HIDE DEF page, M, freq, p, Lcs, L
    <3>1. /\ 1 \in DOMAIN PageScore(p, claim, M, freq, q) /\ 1..(1 - 1) = {}
          /\ PageScore(p, claim, M, freq, q)[1] > PageScore(p, claim, M, freq, page)[1]
      BY <1>1, <2>2, <2>3
    <3> QED BY <3>1 DEF Beats
  <2> QED BY <1>3, <2>1, <2>4
<1>7. Holds(claim, text, PlacesOn(p, page))
  BY <1>1, <1>6, HoldsIs
<1> QED BY <1>4, <1>7, NoMarkerIsMatched

\* However many passages there are, whatever they, the claim and the tag say: a
\* claim of three tokens (two, if the book's pages have no printed numbers), none
\* of them the word or a number of the markers, that stands on one of the two pages
\* of the cited passage and in no other passage of the book is given a page that
\* holds all of it.
THEOREM WholeClaimIsFound == CiteSpec => []WholeClaimFound
<1> DEFINE WholeIsCited ==
             cited # NoPage /\ (\E n : Whole(n)) =>
                HoldsOn(Annotated(shown[tag.idx]), tag.claim, cited)
<1>1. CiteInit => WholeIsCited
  BY DEF CiteInit
<1>2. CiteInv /\ WholeIsCited /\ [Resolve]_citeVars => WholeIsCited'
  <2> SUFFICES ASSUME CiteInv, WholeIsCited, [Resolve]_citeVars, cited' # NoPage,
                      NEW n, Whole(n)'
               PROVE  HoldsOn(Annotated(shown[tag.idx]), tag.claim, cited)'
    OBVIOUS
  <2>1. shown' = shown /\ tag' = tag /\ numbered' = numbered
    BY DEF Resolve, citeVars
  <2>2. \A p, k : Segment(p, k)' = Segment(p, k)
    BY <2>1 DEF Segment, Pieces, Marker, Marked, NumberOf, Number
  <2>3. \A p : Annotated(p)' = Annotated(p)
    BY <2>2 DEF Annotated
  <2>4. \A p : Numbers(p)' = Numbers(p)
    BY <2>1 DEF Numbers, NumberOf, Number
  <2>5. \A k : Candidates(k)' = Candidates(k)
    BY <2>1 DEF Candidates
  <2>6. Whole(n)
    BY <2>1, <2>3, <2>4, <2>5 DEF Whole
  <2>7. HoldsOn(Annotated(shown[tag.idx]), tag.claim, cited')
    <3>1. CASE Resolve
      <4>1. cited' = ClaimPage(tag.idx, tag.page, tag.claim)
        BY <3>1 DEF Resolve
      <4> QED BY <2>6, <4>1, WholeIsOnPage
    <3>2. CASE UNCHANGED citeVars
      <4>1. cited' = cited
        BY <3>2 DEF citeVars
      <4> QED BY <2>6, <4>1
    <3> QED BY <3>1, <3>2
  <2> QED BY <2>1, <2>3, <2>7
<1>3. WholeIsCited => WholeClaimFound
  BY DEF WholeClaimFound, Whole
<1> QED BY <1>1, <1>2, <1>3, CiteInvariant, PTL DEF CiteSpec

-----------------------------------------------------------------------------
(* What of the hits is left out. *)

\* A strict order of a finite set.
Orders(order, S) ==
    /\ IsFiniteSet(S)
    /\ \A a \in S : <<a, a>> \notin order
    /\ \A a, b \in S : a = b \/ <<a, b>> \in order \/ <<b, a>> \in order
    /\ \A a, b, c \in S : <<a, b>> \in order /\ <<b, c>> \in order => <<a, c>> \in order

\* How many come before.
PlaceIn(S, order, a) == Cardinality({k \in S : <<k, a>> \in order})

\* What comes before has a smaller place.
LEMMA PlacesGrow ==
    ASSUME NEW S, NEW order, Orders(order, S), NEW a \in S
    PROVE  /\ PlaceIn(S, order, a) \in 0..(Cardinality(S) - 1)
           /\ \A b \in S : <<b, a>> \in order => PlaceIn(S, order, b) < PlaceIn(S, order, a)
<1> DEFINE Above(x) == {k \in S : <<k, x>> \in order}
<1> USE DEF Orders
<1>1. ASSUME NEW X, NEW Y \in SUBSET X, IsFiniteSet(X), NEW x \in X, x \notin Y
      PROVE  Cardinality(Y) \in Nat /\ Cardinality(X) \in Nat /\ Cardinality(Y) < Cardinality(X)
  <2>1. IsFiniteSet(Y) /\ Cardinality(Y) <= Cardinality(X) /\ Cardinality(X) # Cardinality(Y)
    BY <1>1, FS_Subset
  <2> QED BY <1>1, <2>1, FS_CardinalityType
<1>2. Above(a) \in SUBSET S /\ a \notin Above(a) /\ IsFiniteSet(Above(a))
  <2>1. Above(a) \in SUBSET S /\ a \notin Above(a)
    OBVIOUS
  <2> QED BY <2>1, FS_Subset
<1>3. PlaceIn(S, order, a) \in 0..(Cardinality(S) - 1)
  <2> HIDE DEF Above
  <2>1. /\ Cardinality(Above(a)) \in Nat /\ Cardinality(S) \in Nat
        /\ Cardinality(Above(a)) < Cardinality(S)
    BY <1>1, <1>2
  <2> QED BY <2>1 DEF PlaceIn, Above
<1>4. ASSUME NEW b \in S, <<b, a>> \in order PROVE PlaceIn(S, order, b) < PlaceIn(S, order, a)
  <2>1. Above(b) \in SUBSET Above(a) /\ b \in Above(a) /\ b \notin Above(b)
    BY <1>4
  <2> HIDE DEF Above
  <2>2. Cardinality(Above(b)) < Cardinality(Above(a))
    BY <1>1, <1>2, <2>1
  <2> QED BY <2>2 DEF PlaceIn, Above
<1> QED BY <1>3, <1>4

\* Every place is taken, by one.
LEMMA PlacesTaken ==
    ASSUME NEW S, NEW order, Orders(order, S), NEW m \in 0..(Cardinality(S) - 1)
    PROVE  \E a \in S : PlaceIn(S, order, a) = m /\ \A b \in S : PlaceIn(S, order, b) = m => b = a
<1> DEFINE N == Cardinality(S)
           T == 0..(N - 1)
           f == [a \in S |-> PlaceIn(S, order, a)]
<1>1. IsFiniteSet(S) /\ N \in Nat
  BY FS_CardinalityType DEF Orders
<1>2. \A a, b \in S : <<a, b>> \in order => PlaceIn(S, order, a) < PlaceIn(S, order, b)
  BY PlacesGrow
<1>3. \A a \in S : PlaceIn(S, order, a) \in T
  BY PlacesGrow
<1>4. ASSUME NEW a \in S, NEW b \in S, a # b PROVE PlaceIn(S, order, a) # PlaceIn(S, order, b)
  <2>1. PlaceIn(S, order, a) \in Int /\ PlaceIn(S, order, b) \in Int
    BY <1>1, <1>3
  <2>2. <<a, b>> \in order \/ <<b, a>> \in order
    BY <1>4 DEF Orders
  <2> QED BY <1>2, <2>1, <2>2
<1>5. f \in Injection(S, T)
  BY <1>3, <1>4 DEF Injection, IsInjective
<1>6. IsFiniteSet(T) /\ Cardinality(T) = N
  <2>1. PICK k \in Int : k = N - 1
    BY <1>1
  <2>2. IsFiniteSet(0..k) /\ Cardinality(0..k) = IF 0 > k THEN 0 ELSE k - 0 + 1
    <3>1. 0 \in Int
      OBVIOUS
    <3> QED BY <2>1, <3>1, FS_Interval, Zenon
  <2>3. (IF 0 > k THEN 0 ELSE k - 0 + 1) = N
    BY <1>1, <2>1
  <2> QED BY <2>1, <2>2, <2>3
<1>7. f \in Surjection(S, T)
  <2> HIDE DEF f, T
  <2> QED BY <1>5, <1>6, FS_Injection
<1>8. PICK a \in S : f[a] = m
  BY <1>7 DEF Surjection
<1> QED BY <1>4, <1>8

\* What the searches found does not change, and the question makes something of
\* every text.
RerankInv ==
    /\ hits.vector \in RankedLists /\ hits.keyword \in RankedLists
    /\ overlap \in [Texts -> Overlaps]
    /\ boost \in [Texts -> Boosts]

\* rerank changes neither the hits nor what the question makes of them.
LEMMA RerankTyped == RerankSpec => []RerankInv
<1>1. RerankInit => RerankInv
  BY DEF RerankInit, RerankInv
<1>2. RerankInv /\ [Rerank]_rerankVars => RerankInv'
  BY DEF RerankInv, Rerank, rerankVars, RankedLists, Texts
<1> QED BY <1>1, <1>2, PTL DEF RerankSpec

\* The lists of hits are sequences of passages.
LEMMA ListsAre ==
    ASSUME NEW list \in RankedLists
    PROVE  list \in Seq(Passages) /\ Len(list) \in Nat
<1>1. PICK k \in 0..MaxHits : list \in [1..k -> Passages]
  BY DEF RankedLists
<1>2. k \in Nat
  BY <1>1, RerankerAssumption
<1> QED BY <1>1, <1>2, FunIsSeq

\* The reciprocal ranks of a text add up to a number.
LEMMA ReciprocalsIs ==
    ASSUME NEW list \in Seq(Passages), NEW text
    PROVE  Reciprocals(list, text) \in Int
<1> DEFINE m == Len(list)
           Step(f, t) == IF t = 0 THEN 0
                         ELSE f[t - 1] + IF list[t].text = text THEN 1000000 \div (t + 59) ELSE 0
           Body(f) == [t \in 0..m |-> Step(f, t)]
           G == [f \in [0..m -> Int] |-> Body(f)]
           r == [t \in 0..m |-> t]
           sum == CHOOSE f : f = Body(f)
<1>1. m \in Nat
  OBVIOUS
<1>2. ASSUME NEW f \in [0..m -> Int], NEW t \in 0..m PROVE Step(f, t) \in Int
  <2>1. t # 0 => f[t - 1] \in Int
    BY <1>1
  <2>2. t \in Nat /\ (t # 0 => 1000000 \div (t + 59) \in Int)
    BY <1>1
  <2> QED BY <2>1, <2>2
<1>3. G \in [[0..m -> Int] -> [0..m -> Int]]
  BY <1>2
<1>4. r \in [0..m -> Nat] /\ \A t \in 0..m : r[t] <= m
  BY <1>1
<1>5. ASSUME NEW f \in [0..m -> Int], NEW g \in [0..m -> Int], NEW t \in 0..m,
             \A e \in 0..m : r[e] < r[t] => f[e] = g[e]
      PROVE  G[f][t] = G[g][t]
  <2>1. t # 0 => f[t - 1] = g[t - 1]
    BY <1>1, <1>5
  <2>2. Step(f, t) = Step(g, t)
    BY <2>1
  <2> QED BY <2>2
<1>6. \E f \in [0..m -> Int] : f = Body(f)
  <2> HIDE DEF Body
  <2>1. \E f \in [0..m -> Int] : f = G[f]
    <3> HIDE DEF G, r, m
    <3>1. \A f, g \in [0..m -> Int] : \A t \in 0..m :
             (\A e \in 0..m : r[e] < r[t] => f[e] = g[e]) => G[f][t] = G[g][t]
      BY <1>5
    <3>2. Int # {}
      OBVIOUS
    <3>3. Recursive(0..m, Int, r, m, G)
      BY <1>1, <1>3, <1>4, <3>1, <3>2, Zenon DEF Recursive
    <3>4. Solution(0..m, Int, G)
      BY <3>3, Recursion, Zenon
    <3> QED BY <3>4 DEF Solution
  <2> QED BY <2>1
<1>7. sum = Body(sum)
  <2> HIDE DEF Body
  <2> QED BY <1>6
<1>8. Reciprocals(list, text) = sum[m]
  BY DEF Reciprocals
<1> HIDE DEF sum
<1> DEFINE Bad == {t \in 0..m : sum[t] \notin Int}
<1>9. Bad = {}
  <2> SUFFICES ASSUME Bad # {} PROVE FALSE
    OBVIOUS
  <2>1. PICK t \in Bad : \A k \in Bad : t <= k
    <3>1. Bad \in SUBSET Nat
      BY <1>1
    <3> QED BY <3>1, MinOf
  <2>2. t \in 0..m /\ t \in Nat /\ sum[t] = Step(sum, t)
    BY <1>1, <1>7, <2>1
  <2>3. t # 0 /\ t - 1 \in 0..m /\ ~ (t <= t - 1)
    BY <1>1, <2>1, <2>2
  <2>4. sum[t - 1] \in Int
    BY <2>1, <2>3
  <2>5. 1000000 \div (t + 59) \in Int
    BY <2>2
  <2> QED BY <2>1, <2>2, <2>3, <2>4, <2>5
<1> QED BY <1>1, <1>8, <1>9

\* A score is a number, and that of the text.
LEMMA ScoreIs ==
    ASSUME RerankInv, NEW p \in Passages
    PROVE  /\ Score(p) \in Int
           /\ \A q : q.text = p.text => Score(q) = Score(p) /\ (Relevant(q) <=> Relevant(p))
<1>1. Reciprocals(hits.vector, p.text) \in Int /\ Reciprocals(hits.keyword, p.text) \in Int
  BY ListsAre, ReciprocalsIs DEF RerankInv
<1>2. overlap[p.text] \in Int /\ boost[p.text] \in Int
  BY RerankerAssumption DEF RerankInv, Texts
<1>3. Score(p) \in Int
  <2>1. overlap[p.text] \div 2 \in Int
    BY <1>2
  <2>2. PICK x \in Int : x = Reciprocals(hits.vector, p.text) + Reciprocals(hits.keyword, p.text)
                              + overlap[p.text] \div 2 + boost[p.text]
    BY <1>1, <1>2, <2>1
  <2>3. ((x + 50) \div 100) * 100 \in Int
    BY <2>2
  <2> QED BY <2>2, <2>3 DEF Score
<1>4. \A q : q.text = p.text => Score(q) = Score(p) /\ (Relevant(q) <=> Relevant(p))
  BY DEF Score, Relevant
<1> QED BY <1>3, <1>4

\* What is kept has places in the lists, and the order of their scores is strict.
LEMMA ByScoreOrders ==
    ASSUME RerankInv
    PROVE  /\ Results \in Seq(Passages) /\ Kept \subseteq 1..Len(Results)
           /\ Orders(ByScore, Kept)
           /\ \A a \in Kept : Results[a] \in Passages /\ Score(Results[a]) \in Int
           /\ \A ab \in ByScore : Score(Results[ab[1]]) >= Score(Results[ab[2]])
<1>1. Results \in Seq(Passages)
  BY ListsAre DEF RerankInv, Results
<1>2. Len(Results) \in Nat /\ DOMAIN Results = 1..Len(Results)
  BY <1>1
<1>3. Kept \subseteq 1..Len(Results)
  BY <1>2 DEF Kept, Deduped
<1>4. \A a \in Kept : Results[a] \in Passages /\ a \in Int
  BY <1>1, <1>3
<1>5. \A a \in Kept : Score(Results[a]) \in Int
  BY <1>4, ScoreIs
<1>6. IsFiniteSet(Kept)
  BY <1>2, <1>3, UpToIs, FS_Subset
<1> DEFINE S(a) == Score(Results[a])
<1>7. \A a, b \in Kept : <<a, b>> \in ByScore <=> S(a) > S(b) \/ (S(a) = S(b) /\ a < b)
  BY DEF ByScore
<1>8. \A ab \in ByScore : ab[1] \in Kept /\ ab[2] \in Kept /\ ab = <<ab[1], ab[2]>>
  BY DEF ByScore
<1>9. \A ab \in ByScore : S(ab[1]) >= S(ab[2])
  BY <1>5, <1>7, <1>8
<1>10. Orders(ByScore, Kept)
  <2> HIDE DEF S
  <2>1. \A a \in Kept : S(a) \in Int
    BY <1>5 DEF S
  <2> QED BY <1>4, <1>6, <1>7, <2>1 DEF Orders
<1> QED BY <1>1, <1>3, <1>4, <1>5, <1>9, <1>10

\* A passage is accepted if it repeats none that was accepted before it.
LEMMA AcceptedIs ==
    ASSUME RerankInv, NEW a \in Kept
    PROVE  LET K == SuppressOverlap(ByScore)
           IN a \in K <=> ~\E b \in K : <<b, a>> \in ByScore /\ Repeats(Results[a], Results[b])
<1> DEFINE Step(f, x) == ~\E b \in Kept : <<b, x>> \in ByScore /\ f[b] /\ Repeats(Results[x], Results[b])
           Body(f) == [x \in Kept |-> Step(f, x)]
           G == [f \in [Kept -> BOOLEAN] |-> Body(f)]
           r == [x \in Kept |-> PlaceIn(Kept, ByScore, x)]
           N == Cardinality(Kept)
           acc == CHOOSE f : f = Body(f)
<1>1. Orders(ByScore, Kept) /\ N \in Nat
  BY ByScoreOrders, FS_CardinalityType DEF Orders
<1>2. G \in [[Kept -> BOOLEAN] -> [Kept -> BOOLEAN]]
  OBVIOUS
<1>3. /\ r \in [Kept -> Nat] /\ \A x \in Kept : r[x] <= N
      /\ \A x, y \in Kept : <<x, y>> \in ByScore => r[x] < r[y]
  <2>1. \A x \in Kept : PlaceIn(Kept, ByScore, x) \in 0..(N - 1)
    BY <1>1, PlacesGrow
  <2>2. \A x, y \in Kept : <<x, y>> \in ByScore => r[x] < r[y]
    BY <1>1, PlacesGrow
  <2> HIDE DEF N
  <2>3. \A x \in Kept : r[x] \in Nat /\ r[x] <= N
    BY <1>1, <2>1
  <2>4. r \in [Kept -> Nat]
    BY <2>3
  <2> QED BY <2>2, <2>3, <2>4
<1>4. ASSUME NEW f \in [Kept -> BOOLEAN], NEW g \in [Kept -> BOOLEAN], NEW x \in Kept,
             \A e \in Kept : r[e] < r[x] => f[e] = g[e]
      PROVE  G[f][x] = G[g][x]
  <2>1. \A b \in Kept : <<b, x>> \in ByScore => f[b] = g[b]
    <3> HIDE DEF r
    <3> QED BY <1>3, <1>4
  <2>2. Step(f, x) <=> Step(g, x)
    BY <2>1
  <2>3. Body(f)[x] = Body(g)[x]
    <3> HIDE DEF Step
    <3>1. Step(f, x) \in BOOLEAN /\ Step(g, x) \in BOOLEAN
      BY DEF Step
    <3>2. Step(f, x) = Step(g, x)
      BY <2>2, <3>1
    <3> QED BY <3>2
  <2> QED BY <2>3
<1>5. \E f \in [Kept -> BOOLEAN] : f = Body(f)
  <2> HIDE DEF Body
  <2>1. \E f \in [Kept -> BOOLEAN] : f = G[f]
    <3> HIDE DEF G, r, N
    <3>1. \A f, g \in [Kept -> BOOLEAN] : \A x \in Kept :
             (\A e \in Kept : r[e] < r[x] => f[e] = g[e]) => G[f][x] = G[g][x]
      BY <1>4
    <3>2. BOOLEAN # {}
      OBVIOUS
    <3>3. Recursive(Kept, BOOLEAN, r, N, G)
      BY <1>1, <1>2, <1>3, <3>1, <3>2, Zenon DEF Recursive
    <3>4. Solution(Kept, BOOLEAN, G)
      BY <3>3, Recursion, Zenon
    <3> QED BY <3>4 DEF Solution
  <2> QED BY <2>1
<1>6. acc = Body(acc)
  <2> HIDE DEF Body
  <2> QED BY <1>5
<1>7. SuppressOverlap(ByScore) = {x \in Kept : acc[x]}
  BY DEF SuppressOverlap
<1> HIDE DEF acc
<1>8. acc[a] <=> Step(acc, a)
  BY <1>6
<1> QED BY <1>7, <1>8

\* The passages that are returned are the first of those accepted, in their order.
LEMMA FirstOfIs ==
    ASSUME NEW S, NEW order, Orders(order, S)
    PROVE  LET n == IF TOP_K <= Cardinality(S) THEN TOP_K ELSE Cardinality(S)
           IN /\ DOMAIN FirstOf(S, order) = 1..n
              /\ \A a \in S : PlaceIn(S, order, a) < n =>
                   \E m \in 1..n : FirstOf(S, order)[m] = Results[a]
              /\ \A m \in 1..n : \E a \in S : /\ FirstOf(S, order)[m] = Results[a]
                                            /\ PlaceIn(S, order, a) = m - 1
<1> DEFINE N == Cardinality(S)
           n == IF TOP_K <= N THEN TOP_K ELSE N
           At(m) == CHOOSE a \in S : PlaceIn(S, order, a) + 1 = m
<1>1. N \in Nat /\ TOP_K \in Nat
  BY FS_CardinalityType, RerankerAssumption DEF Orders
<1>2. Min({TOP_K, N}) = n
  <2> HIDE DEF N
  <2>1. {TOP_K, N} \in SUBSET Nat /\ {TOP_K, N} # {}
    BY <1>1
  <2>2. Min({TOP_K, N}) \in {TOP_K, N} /\ \A y \in {TOP_K, N} : Min({TOP_K, N}) <= y
    BY <2>1, MinOf
  <2> QED BY <1>1, <2>2
<1>3. FirstOf(S, order) = [m \in 1..n |-> Results[At(m)]]
  BY <1>2 DEF FirstOf, PlaceIn
<1>4. \A a \in S : PlaceIn(S, order, a) \in 0..(N - 1)
  BY PlacesGrow
<1>5. ASSUME NEW m \in 1..n
      PROVE  At(m) \in S /\ PlaceIn(S, order, At(m)) = m - 1
             /\ \A b \in S : PlaceIn(S, order, b) = m - 1 => b = At(m)
  <2>1. m - 1 \in 0..(N - 1)
    BY <1>1
  <2>2. PICK a \in S : PlaceIn(S, order, a) = m - 1 /\ \A b \in S : PlaceIn(S, order, b) = m - 1 => b = a
    BY <2>1, PlacesTaken
  <2>3. \A b \in S : PlaceIn(S, order, b) + 1 = m <=> PlaceIn(S, order, b) = m - 1
    <3> HIDE DEF N, n
    <3>1. m \in Int /\ \A b \in S : PlaceIn(S, order, b) \in Int
      BY <1>4
    <3> QED BY <3>1
  <2>4. At(m) \in S /\ PlaceIn(S, order, At(m)) + 1 = m
    BY <2>2, <2>3
  <2> HIDE DEF At
  <2> QED BY <2>2, <2>3, <2>4
<1> HIDE DEF At, n
<1>6. ASSUME NEW a \in S, PlaceIn(S, order, a) < n PROVE \E m \in 1..n : FirstOf(S, order)[m] = Results[a]
  <2>1. PICK m \in 1..n : m - 1 = PlaceIn(S, order, a)
    <3>1. PlaceIn(S, order, a) + 1 \in 1..n /\ (PlaceIn(S, order, a) + 1) - 1 = PlaceIn(S, order, a)
      BY <1>1, <1>4, <1>6 DEF n
    <3> QED BY <3>1
  <2>2. a = At(m)
    BY <1>5, <2>1
  <2> QED BY <1>3, <2>2
<1> QED BY <1>3, <1>5, <1>6 DEF n

\* What DroppedForBetter says of a list that is returned.
ForBetter(list) ==
    \A p \in Range(Results) \ Range(list) : Relevant(p) =>
        LET better == {k \in DOMAIN list : Score(list[k]) >= Score(p)}
            copies == {Results[a] : a \in {a \in Deduped : Results[a].text = p.text}}
        IN \/ \E k \in better, q \in copies : list[k].text = p.text \/ Repeats(q, list[k])
           \/ better = 1..TOP_K

\* The first copy of a hit's text was kept.  Either it was accepted or it repeats
\* something better; and either that is among the first or they all are better.
LEMMA RerankingIs == ASSUME RerankInv PROVE ForBetter(Reranking)
<1> DEFINE K == SuppressOverlap(ByScore)
           list == Reranking
           N == Cardinality(K)
           n == IF TOP_K <= N THEN TOP_K ELSE N
           S(a) == Score(Results[a])
           at(a) == PlaceIn(K, ByScore, a)
<1>1. /\ Results \in Seq(Passages) /\ Kept \subseteq 1..Len(Results) /\ Orders(ByScore, Kept)
      /\ \A a \in Kept : Results[a] \in Passages /\ S(a) \in Int
      /\ \A ab \in ByScore : S(ab[1]) >= S(ab[2])
  BY ByScoreOrders
<1>2. K \subseteq Kept
  BY DEF SuppressOverlap
<1>3. Orders(ByScore, K)
  <2>1. IsFiniteSet(K)
    BY <1>1, <1>2, FS_Subset DEF Orders
  <2> HIDE DEF K
  <2> QED BY <1>1, <1>2, <2>1 DEF Orders
<1>4. N \in Nat /\ TOP_K \in Nat
  BY <1>3, FS_CardinalityType, RerankerAssumption DEF Orders
<1>5. /\ DOMAIN list = 1..n
      /\ \A a \in K : at(a) < n => \E m \in 1..n : list[m] = Results[a]
      /\ \A m \in 1..n : \E a \in K : list[m] = Results[a] /\ at(a) = m - 1
  <2>1. list = FirstOf(K, ByScore)
    BY DEF Reranking
  <2> HIDE DEF K, list
  <2> QED BY <1>3, <2>1, FirstOfIs
<1>6. \A a, b \in K : <<a, b>> \in ByScore => at(a) < at(b)
  <2> HIDE DEF K
  <2> QED BY <1>3, PlacesGrow
<1>7. \A a \in K : at(a) \in 0..(N - 1)
  <2> HIDE DEF K
  <2> QED BY <1>3, PlacesGrow
<1>8. ASSUME NEW a \in Kept
      PROVE  a \in K \/ \E b \in K : <<b, a>> \in ByScore /\ Repeats(Results[a], Results[b])
  BY <1>8, AcceptedIs
<1> HIDE DEF K, list
<1> SUFFICES ASSUME NEW p \in Range(Results) \ Range(list), Relevant(p)
             PROVE  LET better == {k \in DOMAIN list : Score(list[k]) >= Score(p)}
                        copies == {Results[a] : a \in {a \in Deduped : Results[a].text = p.text}}
                    IN \/ \E k \in better, q \in copies : list[k].text = p.text \/ Repeats(q, list[k])
                       \/ better = 1..TOP_K
  BY DEF ForBetter, list
<1> DEFINE better == {k \in DOMAIN list : Score(list[k]) >= Score(p)}
           copies == {Results[a] : a \in {a \in Deduped : Results[a].text = p.text}}
           Same == {a \in 1..Len(Results) : Results[a].text = p.text}
<1>9. DOMAIN Results = 1..Len(Results) /\ Len(Results) \in Nat
  BY <1>1
<1>10. p \in Passages /\ Same # {} /\ Same \in SUBSET Nat
  <2>1. PICK a \in DOMAIN Results : Results[a] = p
    BY DEF Range
  <2> QED BY <1>1, <1>9, <2>1
<1>11. PICK c \in Same : \A b \in Same : c <= b
  BY <1>10, MinOf
<1>12. c \in Deduped
  <2>1. ASSUME NEW b \in 1..(c - 1) PROVE Results[b].text # Results[c].text
    <3>1. b \in 1..Len(Results) /\ ~ (c <= b)
      BY <1>9, <1>11
    <3> QED BY <1>11, <3>1
  <2> QED BY <1>9, <1>11, <2>1 DEF Deduped
<1>13. Results[c].text = p.text /\ S(c) = Score(p) /\ Relevant(Results[c])
  BY <1>10, <1>11, ScoreIs
<1>14. c \in Kept /\ Results[c] \in copies
  BY <1>12, <1>13 DEF Kept
<1>15. Score(p) \in Int
  BY <1>10, ScoreIs
\* What stands for the hit, at a place that is among the first or behind them.
<1>16. ASSUME NEW b \in K, b = c \/ (<<b, c>> \in ByScore /\ Repeats(Results[c], Results[b]))
       PROVE  \/ \E k \in better, q \in copies : list[k].text = p.text \/ Repeats(q, list[k])
              \/ better = 1..TOP_K
  <2>1. S(b) >= Score(p) /\ S(b) \in Int
    BY <1>1, <1>2, <1>13, <1>15, <1>16
  <2>2. CASE at(b) < n
    <3>1. PICK m \in 1..n : list[m] = Results[b]
      BY <1>5, <2>2
    <3>2. m \in better
      BY <1>5, <2>1, <3>1
    <3>3. list[m].text = p.text \/ Repeats(Results[c], list[m])
      BY <1>13, <1>16, <3>1
    <3> HIDE DEF better, copies
    <3> QED BY <1>14, <3>2, <3>3
  <2>3. CASE ~ (at(b) < n)
    <3>1. at(b) \in Nat /\ at(b) < N
      BY <1>4, <1>7
    <3>2. n = TOP_K /\ TOP_K <= at(b)
      BY <1>4, <2>3, <3>1
    <3>3. ASSUME NEW m \in 1..n PROVE m \in better
      <4>1. PICK a \in K : list[m] = Results[a] /\ at(a) = m - 1
        BY <1>5
      <4>2. at(a) < at(b)
        BY <1>4, <3>1, <3>2, <4>1
      <4>3. a # b /\ <<b, a>> \notin ByScore
        <5>1. at(a) \in Nat /\ ~ (at(b) < at(a))
          BY <1>4, <3>1, <4>1, <4>2
        <5> HIDE DEF at
        <5> QED BY <1>6, <3>1, <4>2, <5>1
      <4>4. <<a, b>> \in ByScore
        BY <1>3, <4>3 DEF Orders
      <4>5. S(a) >= S(b) /\ S(a) \in Int
        BY <1>1, <1>2, <4>4
      <4>6. Score(list[m]) >= Score(p)
        BY <1>15, <2>1, <4>1, <4>5
      <4> QED BY <1>5, <4>6
    <3>4. better = 1..n
      BY <1>5, <3>3
    <3> HIDE DEF better
    <3> QED BY <3>2, <3>4
  <2> QED BY <2>2, <2>3
<1>17. \E b \in K : b = c \/ (<<b, c>> \in ByScore /\ Repeats(Results[c], Results[b]))
  BY <1>8, <1>14
<1> HIDE DEF better, copies
<1>18. \/ \E k \in better, q \in copies : list[k].text = p.text \/ Repeats(q, list[k])
       \/ better = 1..TOP_K
  BY <1>16, <1>17
<1> QED BY <1>18 DEF better, copies

\* For any number of hits, whatever they and the question are, rerank leaves out a
\* relevant hit only for a better one that stands for it, or for top_k better ones.
THEOREM HitsAreDroppedForBetter == RerankSpec => []DroppedForBetter
<1> DEFINE Good == reranked # Unranked => ForBetter(reranked)
<1>1. RerankInit => Good
  BY DEF RerankInit
<1>2. RerankInv /\ Good /\ [Rerank]_rerankVars => Good'
  <2> SUFFICES ASSUME RerankInv, Good, [Rerank]_rerankVars, reranked' # Unranked
               PROVE  ForBetter(reranked)'
    OBVIOUS
  <2>1. hits' = hits /\ overlap' = overlap /\ boost' = boost
    BY DEF Rerank, rerankVars
  <2>2. Results' = Results
    BY <2>1 DEF Results
  <2>3. Deduped' = Deduped
    BY <2>2 DEF Deduped
  <2>4. \A p : Score(p)' = Score(p)
    BY <2>1 DEF Score
  <2>5. \A p : Relevant(p)' <=> Relevant(p)
    BY <2>1, <2>4 DEF Relevant
  <2>6. \A list : ForBetter(list)' <=> ForBetter(list)
    BY <2>2, <2>3, <2>4, <2>5 DEF ForBetter
  <2>7. ForBetter(reranked')
    <3>1. CASE Rerank
      <4>1. reranked' = Reranking
        BY <3>1 DEF Rerank
      <4> QED BY <4>1, RerankingIs
    <3>2. CASE UNCHANGED rerankVars
      <4>1. reranked' = reranked
        BY <3>2 DEF rerankVars
      <4> QED BY <4>1
    <3> QED BY <3>1, <3>2
  <2> QED BY <2>6, <2>7
<1>3. Good => DroppedForBetter
  BY DEF DroppedForBetter, ForBetter
<1> QED BY <1>1, <1>2, <1>3, RerankTyped, PTL DEF RerankSpec
=============================================================================

------------------------- MODULE RoutesGrid_proofs --------------------------
(***************************************************************************)
(* Proofs about RoutesGrid, for every table of routes, every column and    *)
(* search, every length of a page, and any number of requests.             *)
(***************************************************************************)
EXTENDS RoutesGrid, FiniteSetTheorems, SequenceTheorems, TLAPS

(***************************************************************************)
(* The order of the rows.                                                  *)
(***************************************************************************)
\* A sorting that is not empty begins with a column of the grid.
LEMMA FirstColumn ==
  ASSUME NEW sort \in Sorting, sort # <<>>
  PROVE  sort[1].column \in Columns
  <1> DEFINE Entry == [column : Columns, dir : {"asc", "desc"}]
  <1>1. sort \in Seq(Entry)
    BY DEF Sorting
  <1> HIDE DEF Entry
  <1>2. Head(sort) \in Entry /\ Head(sort) = sort[1]
    BY <1>1, HeadTailProperties
  <1> QED
    BY <1>2 DEF Entry

\* Two routes stand in one order and not in the other.
LEMMA BeforeIsTotal ==
  ASSUME NEW sort \in Sorting, NEW a \in Routes, NEW b \in Routes
  PROVE  Before(a, b, sort) <=> a # b /\ ~Before(b, a, sort)
  <1>1. a \in Int /\ b \in Int
    BY RoutesAssumption
  <1>2. CASE sort = <<>>
    BY <1>1, <1>2 DEF Before
  <1>3. CASE sort # <<>>
    <2>1. sort[1].column \in Columns
      BY <1>3, FirstColumn
    <2> DEFINE k == Key[sort[1].column]
    <2>2. k[a] \in Int /\ k[b] \in Int
      BY <2>1, ColumnsAssumption
    <2>3. /\ Before(a, b, sort) <=>
               (IF k[a] = k[b] THEN a > b ELSE ((sort[1].dir = "asc") <=> k[a] < k[b]))
          /\ Before(b, a, sort) <=>
               (IF k[b] = k[a] THEN b > a ELSE ((sort[1].dir = "asc") <=> k[b] < k[a]))
      BY <1>3 DEF Before
    <2> HIDE DEF k
    <2> QED
      BY <1>1, <2>2, <2>3
  <1> QED
    BY <1>2, <1>3

\* What stands before a route stands before all that follow it.
LEMMA BeforeIsTransitive ==
  ASSUME NEW sort \in Sorting, NEW a \in Routes, NEW b \in Routes, NEW c \in Routes,
         Before(a, b, sort), Before(b, c, sort)
  PROVE  Before(a, c, sort)
  <1>1. a \in Int /\ b \in Int /\ c \in Int
    BY RoutesAssumption
  <1>2. CASE sort = <<>>
    BY <1>1, <1>2 DEF Before
  <1>3. CASE sort # <<>>
    <2>1. sort[1].column \in Columns
      BY <1>3, FirstColumn
    <2> DEFINE k == Key[sort[1].column]
    <2>2. k[a] \in Int /\ k[b] \in Int /\ k[c] \in Int
      BY <2>1, ColumnsAssumption
    <2>3. \A x, y \in {a, b, c} : Before(x, y, sort) <=>
            (IF k[x] = k[y] THEN x > y ELSE ((sort[1].dir = "asc") <=> k[x] < k[y]))
      BY <1>3 DEF Before
    <2> HIDE DEF k
    <2> QED
      BY <1>1, <2>2, <2>3
  <1> QED
    BY <1>2, <1>3

\* The number of routes of S before r.
Rank(r, S, sort) == Cardinality({a \in S : Before(a, r, sort)})

\* Two routes of S have different ranks, below the number of routes.
LEMMA RanksDiffer ==
  ASSUME NEW sort \in Sorting, NEW S \in SUBSET Routes
  PROVE  /\ \A r \in S : Rank(r, S, sort) \in 0 .. Cardinality(S) - 1
         /\ \A r, s \in S : r # s => Rank(r, S, sort) # Rank(s, S, sort)
  <1> DEFINE Ahead(r) == {a \in S : Before(a, r, sort)}
  <1>1. IsFiniteSet(S) /\ Cardinality(S) \in Nat
    BY RoutesAssumption, FS_Subset, FS_CardinalityType
  <1>2. ASSUME NEW r \in S
        PROVE  Cardinality(Ahead(r)) \in Nat /\ Cardinality(Ahead(r)) < Cardinality(S)
    <2>1. Ahead(r) \in SUBSET S /\ r \notin Ahead(r)
      BY BeforeIsTotal
    <2> QED
      BY <1>1, <2>1, FS_Subset, FS_CardinalityType
  <1>3. ASSUME NEW r \in S, NEW s \in S, Before(r, s, sort)
        PROVE  Cardinality(Ahead(r)) # Cardinality(Ahead(s))
    <2>1. Ahead(s) \in SUBSET S /\ IsFiniteSet(Ahead(s))
      BY <1>1, FS_Subset
    <2>2. Ahead(r) \in SUBSET Ahead(s)
      BY <1>3, BeforeIsTransitive
    <2>3. r \in Ahead(s) /\ r \notin Ahead(r)
      BY <1>3, BeforeIsTotal
    <2> QED
      BY <2>1, <2>2, <2>3, FS_Subset
  <1>4. ASSUME NEW r \in S, NEW s \in S, r # s
        PROVE  Before(r, s, sort) \/ Before(s, r, sort)
    BY <1>4, BeforeIsTotal
  <1>5. \A r \in S : Rank(r, S, sort) \in 0 .. Cardinality(S) - 1
    BY <1>1, <1>2 DEF Rank
  <1>6. \A r, s \in S : r # s => Rank(r, S, sort) # Rank(s, S, sort)
    BY <1>3, <1>4 DEF Rank
  <1> QED
    BY <1>5, <1>6

\* Every rank is taken.
LEMMA EveryRankIsTaken ==
  ASSUME NEW sort \in Sorting, NEW S \in SUBSET Routes,
         NEW k \in 0 .. Cardinality(S) - 1
  PROVE  \E r \in S : Rank(r, S, sort) = k
  <1> SUFFICES ASSUME \A r \in S : Rank(r, S, sort) # k
               PROVE  FALSE
    OBVIOUS
  <1> DEFINE n == Cardinality(S)
             T == (0 .. n - 1) \ {k}
             f == [r \in S |-> Rank(r, S, sort)]
  <1>1. IsFiniteSet(S) /\ n \in Nat
    BY RoutesAssumption, FS_Subset, FS_CardinalityType
  <1>2. IsFiniteSet(0 .. n - 1) /\ Cardinality(0 .. n - 1) = n
    BY <1>1, FS_Interval
  <1>3. IsFiniteSet(T) /\ Cardinality(T) = n - 1
    BY <1>2, FS_RemoveElement
  <1>4. f \in [S -> T]
    BY RanksDiffer
  <1>5. \E x, y \in S : x # y /\ f[x] = f[y]
    <2>1. Cardinality(T) < Cardinality(S)
      BY <1>1, <1>3
    <2> HIDE DEF T, f
    <2> QED
      BY <1>1, <1>3, <1>4, <2>1, FS_PigeonHole
  <1> QED
    BY <1>5, RanksDiffer

\* The handler's order lists every route it found, and none twice: no search
\* and no sorting makes the grid lose or repeat a row.
THEOREM SortingLosesNoRow ==
  ASSUME NEW sort \in Sorting, NEW S \in SUBSET Routes
  PROVE  /\ Ordered(S, sort) \in [1 .. Cardinality(S) -> S]
         /\ \A r \in S : \E i \in 1 .. Cardinality(S) : Ordered(S, sort)[i] = r
         /\ \A i, j \in 1 .. Cardinality(S) :
              Ordered(S, sort)[i] = Ordered(S, sort)[j] => i = j
  <1> DEFINE n == Cardinality(S)
             At(i) == CHOOSE r \in S : Rank(r, S, sort) = i - 1
  <1>1. n \in Nat
    BY RoutesAssumption, FS_Subset, FS_CardinalityType
  <1>2. Ordered(S, sort) = [i \in 1 .. n |-> At(i)]
    BY DEF Ordered, Rank
  <1>3. ASSUME NEW i \in 1 .. n
        PROVE  At(i) \in S /\ Rank(At(i), S, sort) = i - 1
    <2>1. i - 1 \in 0 .. n - 1
      BY <1>1
    <2>2. \E r \in S : Rank(r, S, sort) = i - 1
      BY <2>1, EveryRankIsTaken
    <2> QED
      BY <2>2
  <1>4. ASSUME NEW r \in S
        PROVE  \E i \in 1 .. n : At(i) = r
    <2>1. Rank(r, S, sort) + 1 \in 1 .. n /\ Rank(r, S, sort) \in Int
      BY <1>1, RanksDiffer
    <2>2. Rank(At(Rank(r, S, sort) + 1), S, sort) = Rank(r, S, sort)
      BY <2>1, <1>3
    <2> QED
      BY <2>1, <2>2, <1>3, RanksDiffer
  <1> HIDE DEF At
  <1> QED
    BY <1>2, <1>3, <1>4

\* ... and in the order of the sorting, the newest first among equals.
THEOREM RowsComeSorted ==
  ASSUME NEW sort \in Sorting, NEW S \in SUBSET Routes,
         NEW i \in 1 .. Cardinality(S), NEW j \in 1 .. Cardinality(S), i < j
  PROVE  Before(Ordered(S, sort)[i], Ordered(S, sort)[j], sort)
  <1> DEFINE n == Cardinality(S)
             At(k) == CHOOSE r \in S : Rank(r, S, sort) = k - 1
  <1>1. n \in Nat /\ IsFiniteSet(S)
    BY RoutesAssumption, FS_Subset, FS_CardinalityType
  <1>2. Ordered(S, sort) = [k \in 1 .. n |-> At(k)]
    BY DEF Ordered, Rank
  <1>3. ASSUME NEW k \in 1 .. n
        PROVE  At(k) \in S /\ Rank(At(k), S, sort) = k - 1
    <2>1. k - 1 \in 0 .. n - 1
      BY <1>1
    <2>2. \E r \in S : Rank(r, S, sort) = k - 1
      BY <2>1, EveryRankIsTaken
    <2> QED
      BY <2>2
  <1> HIDE DEF At
  <1>4. At(i) # At(j)
    BY <1>3
  <1>5. ASSUME Before(At(j), At(i), sort)
        PROVE  FALSE
    <2> DEFINE Ahead(r) == {a \in S : Before(a, r, sort)}
    <2>1. Ahead(At(j)) \in SUBSET Ahead(At(i)) /\ IsFiniteSet(Ahead(At(i)))
      BY <1>1, <1>3, <1>5, BeforeIsTransitive, FS_Subset
    <2>2. Cardinality(Ahead(At(j))) <= Cardinality(Ahead(At(i)))
      <3> HIDE DEF Ahead
      <3> QED
        BY <2>1, FS_Subset
    <2> QED
      BY <1>3, <2>2 DEF Rank
  <1> QED
    BY <1>2, <1>3, <1>4, <1>5, BeforeIsTotal

(***************************************************************************)
(* The pages.                                                              *)
(***************************************************************************)
\* Rows on a page: those from start on, as many as the page is long.
LEMMA PageHolds ==
  ASSUME NEW t \in Tables, NEW q \in Query,
         NEW p \in 1 .. Cardinality(Found(t, q.search))
  PROVE  LET rows == Page(t, q)
         IN (\E k \in 1 .. Len(rows) : rows[k] = Ordered(Found(t, q.search), q.sort)[p])
            <=> q.start < p /\ p <= q.start + q.length
  <1> DEFINE S == Found(t, q.search)
             all == Ordered(S, q.sort)
             n == Least(q.start + q.length, Len(all))
             rows == SubSeq(all, q.start + 1, n)
  <1>1. S \in SUBSET Routes /\ q.sort \in Sorting /\ q.start \in Nat /\ q.length \in Nat
    BY BoundsAssumption DEF Found, All, Query
  <1>2. Cardinality(S) \in Nat
    BY <1>1, RoutesAssumption, FS_Subset, FS_CardinalityType
  <1>3. /\ all \in [1 .. Cardinality(S) -> S]
        /\ \A i, j \in 1 .. Cardinality(S) : all[i] = all[j] => i = j
    BY <1>1, SortingLosesNoRow
  <1>4. Len(all) = Cardinality(S)
    BY <1>2, <1>3
  <1>5. n \in Int /\ n <= Cardinality(S) /\ n <= q.start + q.length
        /\ (n = q.start + q.length \/ n = Cardinality(S))
    BY <1>1, <1>2, <1>4 DEF Least
  <1>6. \A i \in q.start + 1 .. n : all[i] \in S
    BY <1>1, <1>2, <1>3, <1>5
  <1> HIDE DEF S, all, n
  <1>7. /\ Len(rows) = IF q.start + 1 <= n THEN n - q.start ELSE 0
        /\ \A k \in 1 .. n - q.start : rows[k] = all[q.start + k]
    BY <1>1, <1>5, <1>6, SubSeqProperties
  <1>8. p \in 1 .. Cardinality(S)
    BY DEF S
  <1>9. ASSUME NEW k \in 1 .. Len(rows), rows[k] = all[p]
        PROVE  q.start < p /\ p <= q.start + q.length
    <2>1. k \in 1 .. n - q.start /\ q.start + k \in 1 .. Cardinality(S)
      BY <1>1, <1>2, <1>5, <1>7
    <2>2. q.start + k = p
      BY <1>3, <1>7, <1>8, <1>9, <2>1
    <2> QED
      BY <1>1, <1>5, <2>1, <2>2
  <1>10. ASSUME q.start < p, p <= q.start + q.length
         PROVE  \E k \in 1 .. Len(rows) : rows[k] = all[p]
    <2>1. p - q.start \in 1 .. n - q.start /\ q.start + 1 <= n
      BY <1>1, <1>2, <1>5, <1>8, <1>10
    <2>2. rows[p - q.start] = all[q.start + (p - q.start)]
      BY <1>7, <2>1
    <2>3. q.start + (p - q.start) = p
      BY <1>1, <1>8
    <2>4. p - q.start \in 1 .. Len(rows)
      BY <1>1, <1>5, <1>7, <2>1
    <2> QED
      BY <2>2, <2>3, <2>4
  <1> HIDE DEF rows
  <1>11. (\E k \in 1 .. Len(rows) : rows[k] = all[p])
         <=> q.start < p /\ p <= q.start + q.length
    BY <1>9, <1>10
  <1> QED
    BY <1>11 DEF rows, all, n, S, Page

\* Division by the length of a page.
LEMMA Quotient ==
  ASSUME NEW a \in Nat, NEW n \in Nat \ {0}
  PROVE  a \div n \in Nat /\ (a \div n) * n <= a /\ a < (a \div n) * n + n
  OBVIOUS

LEMMA Multiples ==
  ASSUME NEW a \in Int, NEW b \in Int, NEW n \in Nat \ {0}, a * n < b * n
  PROVE  a < b
  OBVIOUS

\* Of consecutive pages of n rows, the one that holds row p.
LEMMA OnePageHolds ==
  ASSUME NEW p \in Nat \ {0}, NEW n \in Nat \ {0}, NEW total \in Nat, p <= total
  PROVE  \E i \in 1 .. (total + n - 1) \div n :
           \A j \in 1 .. (total + n - 1) \div n :
             (j - 1) * n < p /\ p <= (j - 1) * n + n <=> j = i
  <1> DEFINE k == (p - 1) \div n
             last == (total + n - 1) \div n
  <1>1. k \in Nat /\ k * n <= p - 1 /\ p - 1 < k * n + n
    BY Quotient
  <1>2. last \in Nat /\ last * n <= total + n - 1 /\ total + n - 1 < last * n + n
    BY Quotient
  <1> HIDE DEF k, last
  <1>3. \A a \in Int : a * n \in Int /\ (a + 1) * n = a * n + n /\ (a - 1) * n + n = a * n
    OBVIOUS
  <1>4. (k + 1) * n < (last + 1) * n
    BY <1>1, <1>2, <1>3
  <1>5. k + 1 < last + 1
    BY <1>1, <1>2, <1>4, Multiples
  <1>6. ASSUME NEW j \in 1 .. last
        PROVE  (j - 1) * n < p /\ p <= (j - 1) * n + n <=> j = k + 1
    <2>1. j \in Int /\ j - 1 \in Int
      OBVIOUS
    <2>2. ASSUME (j - 1) * n < p, p <= (j - 1) * n + n
          PROVE  j = k + 1
      <3>1. (j - 1) * n < (k + 1) * n
        BY <1>1, <1>3, <2>1, <2>2
      <3>2. k * n < j * n
        BY <1>1, <1>3, <2>1, <2>2
      <3>3. j - 1 < k + 1 /\ k < j
        BY <1>1, <2>1, <3>1, <3>2, Multiples
      <3> QED
        BY <1>1, <2>1, <3>3
    <2>3. ASSUME j = k + 1
          PROVE  (j - 1) * n < p /\ p <= (j - 1) * n + n
      <3>1. j - 1 = k
        BY <1>1, <2>3
      <3> QED
        BY <1>1, <1>3, <3>1
    <2> QED
      BY <2>2, <2>3
  <1>7. k + 1 \in 1 .. last
    BY <1>1, <1>2, <1>5
  <1> QED
    BY <1>6, <1>7 DEF last

(***************************************************************************)
(* The requests.                                                           *)
(***************************************************************************)
\* A page is a list of routes.
LEMMA PageIsList ==
  ASSUME NEW t \in Tables, NEW q \in Query
  PROVE  Page(t, q) \in Seq(Routes)
  <1> DEFINE S == Found(t, q.search)
             rows == Ordered(S, q.sort)
             n == Least(q.start + q.length, Len(rows))
  <1>1. S \in SUBSET Routes /\ q.sort \in Sorting /\ q.start \in Nat /\ q.length \in Nat
    BY BoundsAssumption DEF Found, All, Query
  <1>2. Cardinality(S) \in Nat
    BY <1>1, RoutesAssumption, FS_Subset, FS_CardinalityType
  <1>3. rows \in [1 .. Cardinality(S) -> S]
    BY <1>1, SortingLosesNoRow
  <1>4. Len(rows) = Cardinality(S)
    BY <1>2, <1>3
  <1>5. n \in Int /\ n <= Cardinality(S)
    BY <1>1, <1>2, <1>4 DEF Least
  <1>6. \A i \in q.start + 1 .. n : rows[i] \in Routes
    BY <1>1, <1>2, <1>3, <1>5
  <1>7. SubSeq(rows, q.start + 1, n) \in Seq(Routes)
    <2> HIDE DEF rows, n
    <2> QED
      BY <1>1, <1>5, <1>6, SubSeqProperties
  <1> QED
    BY <1>7 DEF Page

\* The routes there are, and those a search finds, are finitely many, and the
\* pager counts the former.
LEMMA TotalCoversSearch ==
  ASSUME NEW t \in Tables, NEW q \in Query
  PROVE  /\ Total(t, q) \in Nat
         /\ Total(t, q) >= Cardinality(Found(t, q.search))
  <1>1. IsFiniteSet(All(t)) /\ Found(t, q.search) \in SUBSET All(t)
    BY RoutesAssumption, FS_Subset DEF All, Found
  <1> QED
    BY <1>1, FS_Subset, FS_CardinalityType DEF Total

\* Clicks on headings leave a list of columns.
LEMMA SortingsStay ==
  ASSUME NEW sort \in Sorting, NEW c \in Columns
  PROVE  Plain(sort, c) \in Sorting /\ Shifted(sort, c) \in Sorting
  <1> DEFINE Entry == [column : Columns, dir : {"asc", "desc"}]
             places == {i \in 1 .. Len(sort) : sort[i].column = c}
             m == CHOOSE i \in places : TRUE
  <1>1. sort \in Seq(Entry) /\ Ascending(c) \in Entry /\ Descending(c) \in Entry
    BY DEF Sorting, Ascending, Descending
  <1> SUFFICES Plain(sort, c) \in Seq(Entry) /\ Shifted(sort, c) \in Seq(Entry)
    BY DEF Sorting
  <1> HIDE DEF Entry
  <1>2. Plain(sort, c) \in Seq(Entry)
    BY <1>1 DEF Plain
  <1>3. Append(sort, Ascending(c)) \in Seq(Entry)
    BY <1>1, AppendProperties
  <1>4. Len(sort) \in Nat /\ \A i \in 1 .. Len(sort) : sort[i] \in Entry
    BY <1>1, LenProperties
  <1>5. ASSUME places # {}
        PROVE  /\ [sort EXCEPT ![m] = Descending(c)] \in Seq(Entry)
               /\ SubSeq(sort, 1, m - 1) \o SubSeq(sort, m + 1, Len(sort)) \in Seq(Entry)
    <2>1. m \in 1 .. Len(sort)
      BY <1>5
    <2> HIDE DEF m, places
    <2>2. [sort EXCEPT ![m] = Descending(c)] \in Seq(Entry)
      BY <1>1, <2>1, ExceptSeq
    <2>3. SubSeq(sort, 1, m - 1) \in Seq(Entry)
      BY <1>4, <2>1, SubSeqProperties
    <2>4. SubSeq(sort, m + 1, Len(sort)) \in Seq(Entry)
      BY <1>4, <2>1, SubSeqProperties
    <2> QED
      BY <2>2, <2>3, <2>4, ConcatProperties
  <1>6. Shifted(sort, c) =
          CASE places = {} -> Append(sort, Ascending(c))
            [] places # {} /\ sort[m].dir = "asc" -> [sort EXCEPT ![m] = Descending(c)]
            [] OTHER -> SubSeq(sort, 1, m - 1) \o SubSeq(sort, m + 1, Len(sort))
    BY DEF Shifted
  <1> HIDE DEF places, m
  <1>7. Shifted(sort, c) \in Seq(Entry)
    BY <1>3, <1>5, <1>6
  <1> QED
    BY <1>2, <1>7

\* A new grid shows nothing yet and has asked nothing.
LEMMA InitOrdered == Init => IInv
  <1> SUFFICES ASSUME Init PROVE IInv
    OBVIOUS
  <1>1. <<[column |-> First, dir |-> "asc"]>> \in Sorting
    BY ColumnsAssumption DEF Sorting
  <1>2. controls \in Query
    BY <1>1, TextsAssumption DEF Init, Query, Shortest
  <1>3. TypeOK
    <2>1. clicked \in Seq([column : Columns, shift : BOOLEAN])
      BY EmptySeq DEF Init
    <2> QED
      BY <1>2, <2>1 DEF Init, TypeOK
  <1> QED
    BY <1>3 DEF Init, IInv, RequestsInOrder, ShownInOrder, Ready

\* A request leaves everything in order: it is the newest, and the notice is
\* visible.
LEMMA DrawKeepsOrder ==
  ASSUME IInv, NEW q \in Query, Draw(q),
         language' \in {"asked", "here", "lost"},
         clicked' \in Seq([column : Columns, shift : BOOLEAN])
  PROVE  IInv'
  <1>1. TypeOK'
    BY DEF IInv, TypeOK, Draw
  <1>2. \A m \in sent' \cup answers' : m.draw <= iDraw' /\ (m.draw = iDraw' => m.query = controls')
    <2>1. \A m \in sent \cup answers : m.draw \in Nat /\ m.draw <= iDraw /\ iDraw \in Nat
      BY DEF IInv, TypeOK, Answer, RequestsInOrder
    <2> QED
      BY <2>1 DEF Draw, IInv, TypeOK
  <1>3. \A m \in answers' : RowsOf(m)
    BY DEF Draw, IInv, RequestsInOrder
  <1>4. ShownInOrder'
    BY DEF Draw, ShownInOrder
  <1> QED
    BY <1>1, <1>2, <1>3, <1>4 DEF IInv, RequestsInOrder, RowsOf

\* What the pager counts, and where its buttons lead, are natural numbers.
LEMMA StartsAreNatural ==
  ASSUME TypeOK
  PROVE  /\ Records \in Nat
         /\ controls.start \in Nat /\ controls.length \in Nat \ {0}
         /\ Buttons \subseteq Nat
         /\ \A i \in Numbers : (i - 1) * controls.length \in Nat
         /\ \A n \in Lengths : Back(Records, n) \in Nat
  <1>1. controls.start \in Nat /\ controls.length \in Nat \ {0}
    BY BoundsAssumption DEF TypeOK, Query
  <1>2. Records \in Nat
    BY DEF TypeOK, Answer, Records
  <1>3. \A n \in Lengths : Back(Records, n) \in Nat
    BY <1>2, BoundsAssumption DEF Back
  <1>4. Back(controls.start, controls.length) \in Nat
    BY <1>1 DEF Back
  <1>5. ASSUME NEW r \in Nat, r # 0, NEW n \in Nat \ {0}
        PROVE  ((r - 1) \div n) * n \in Nat
    <2>1. (r - 1) \div n \in Nat
      BY <1>5
    <2> QED
      BY <2>1
  <1>6. Buttons \subseteq Nat
    BY <1>1, <1>2, <1>4, <1>5 DEF Buttons
  <1>7. ASSUME NEW i \in Numbers
        PROVE  (i - 1) * controls.length \in Nat
    <2>1. i \in Int /\ i >= 1
      BY <1>7 DEF Numbers
    <2>2. i - 1 \in Nat
      BY <2>1
    <2> QED
      BY <1>1, <2>2
  <1> QED
    BY <1>1, <1>2, <1>3, <1>6, <1>7

\* The steps of the user and of the timers.
LEMMA ControlsKeepOrder ==
  ASSUME IInv, Start \/ LoseLanguage \/ User \/ SortBy
  PROVE  IInv'
  <1> USE DEF IInv
  <1>0. controls \in Query /\ clicked \in Seq([column : Columns, shift : BOOLEAN])
    BY DEF TypeOK
  <1>1. CASE Start
    BY <1>0, <1>1, DrawKeepsOrder DEF Start
  <1>2. CASE LoseLanguage
    BY <1>2 DEF LoseLanguage, TypeOK, RequestsInOrder, RowsOf, ShownInOrder, Ready
  <1>3. ASSUME NEW x \in Texts, Search(x)
        PROVE  IInv'
    <2>1. [controls EXCEPT !.search = x, !.start = 0] \in Query
      BY <1>0 DEF Query
    <2> QED
      BY <1>0, <1>3, <2>1, DrawKeepsOrder DEF Search, TypeOK
  <1>4. ASSUME NEW c \in Columns, NEW shift \in BOOLEAN, Click(c, shift)
        PROVE  IInv'
    <2>1. clicked' \in Seq([column : Columns, shift : BOOLEAN])
      BY <1>0, <1>4, AppendProperties DEF Click
    <2> QED
      BY <1>4, <2>1 DEF Click, TypeOK, RequestsInOrder, RowsOf, ShownInOrder, Ready
  <1>5. ASSUME NEW start \in Nat, GoTo(start)
        PROVE  IInv'
    <2>1. [controls EXCEPT !.start = start] \in Query
      BY <1>0 DEF Query
    <2> QED
      BY <1>0, <1>5, <2>1, DrawKeepsOrder DEF GoTo, TypeOK
  <1>6. CASE TurnPage
    BY <1>5, <1>6, StartsAreNatural DEF TurnPage
  <1>7. ASSUME NEW n \in Lengths, ChangeLength(n)
        PROVE  IInv'
    <2> DEFINE q == [controls EXCEPT !.length = n,
                       !.start = IF @ + n < Records THEN @ ELSE Back(Records, n)]
    <2>1. q \in Query
      BY <1>0, StartsAreNatural DEF Query
    <2>2. Draw(q) /\ UNCHANGED <<language, clicked>>
      BY <1>7 DEF ChangeLength
    <2> HIDE DEF q
    <2> QED
      BY <1>0, <2>1, <2>2, DrawKeepsOrder DEF TypeOK
  <1>8. CASE SortBy
    <2> DEFINE Click_ == [column : Columns, shift : BOOLEAN]
               k == Head(clicked)
               q == [controls EXCEPT
                       !.sort = IF k.shift THEN Shifted(@, k.column) ELSE Plain(@, k.column),
                       !.start = 0]
    <2>1. k \in Click_ /\ Tail(clicked) \in Seq(Click_)
      <3> HIDE DEF Click_
      <3>1. clicked \in Seq(Click_) /\ clicked # <<>>
        BY <1>0, <1>8 DEF SortBy, Click_
      <3> QED
        BY <3>1, HeadTailProperties
    <2>2. controls.sort \in Sorting /\ k.column \in Columns
      BY <1>0, <2>1 DEF Query
    <2>3. q \in Query
      BY <1>0, <2>2, SortingsStay DEF Query
    <2>4. Draw(q) /\ language' = language /\ clicked' = Tail(clicked)
      BY <1>8 DEF SortBy
    <2> HIDE DEF q
    <2> QED
      BY <2>1, <2>3, <2>4, DrawKeepsOrder DEF TypeOK
  <1> QED
    BY <1>1, <1>2, <1>3, <1>4, <1>6, <1>7, <1>8 DEF User

\* The steps of server and network: an answer that is not stale is the one to
\* the newest request, which asked what the controls say.
LEMMA NetworkKeepsOrder ==
  ASSUME IInv, Network \/ Others
  PROVE  IInv'
  <1> USE DEF IInv
  <1>1. ASSUME NEW d \in 1 .. MaxDraws, Serve(d)
        PROVE  IInv'
    <2>1. PICK m \in sent :
            /\ m.draw = d
            /\ sent' = sent \ {m}
            /\ IF Throws(table, m.query)
               THEN failed' = failed \cup {d} /\ UNCHANGED answers
               ELSE /\ answers' = answers \cup {[draw |-> d, query |-> m.query, seen |-> table,
                                                rows |-> Page(table, m.query),
                                                total |-> Total(table, m.query)]}
                    /\ UNCHANGED failed
            /\ UNCHANGED <<table, page>>
      BY <1>1 DEF Serve
    <2>2. m.query \in Query /\ table \in Tables /\ d \in Nat
      BY <2>1 DEF TypeOK
    <2> DEFINE a == [draw |-> d, query |-> m.query, seen |-> table,
                     rows |-> Page(table, m.query), total |-> Total(table, m.query)]
    <2>3. a \in Answer
      BY <2>2, PageIsList, TotalCoversSearch DEF Answer
    <2>4. ~Throws(table, m.query) => RowsOf(a)
      BY <2>2, TotalCoversSearch DEF RowsOf, Throws
    <2>5. a.draw <= iDraw /\ (a.draw = iDraw => a.query = controls)
      BY <2>1 DEF RequestsInOrder
    <2>6. /\ sent' \subseteq sent
          /\ answers' = answers \/ (~Throws(table, m.query) /\ answers' = answers \cup {a})
          /\ failed' = failed \/ failed' = failed \cup {d}
          /\ UNCHANGED <<table, page>>
      BY <2>1
    <2> HIDE DEF a
    <2>7. TypeOK'
      BY <2>2, <2>3, <2>6 DEF TypeOK, page
    <2>8. RequestsInOrder'
      BY <2>4, <2>5, <2>6 DEF RequestsInOrder, RowsOf, page
    <2> QED
      BY <2>6, <2>7, <2>8 DEF ShownInOrder, Ready, RowsOf, page
  <1>2. ASSUME NEW d \in 1 .. MaxDraws, Lose(d)
        PROVE  IInv'
    <2>1. sent' \subseteq sent /\ answers' \subseteq answers /\ UNCHANGED <<table, page>>
      BY <1>2 DEF Lose
    <2>2. failed' \subseteq Nat
      BY <1>2 DEF Lose, TypeOK
    <2> QED
      BY <2>1, <2>2 DEF TypeOK, RequestsInOrder, RowsOf, ShownInOrder, Ready, page
  <1>3. ASSUME NEW d \in 1 .. MaxDraws, Deliver(d)
        PROVE  IInv'
    <2>1. PICK m \in answers :
            /\ m.draw = d
            /\ answers' = answers \ {m}
            /\ IF Stale(m)
               THEN UNCHANGED <<iDraw, shown, processing>>
               ELSE iDraw' = d /\ shown' = m /\ processing' = FALSE
            /\ UNCHANGED <<table, language, controls, clicked, sent, failed>>
      BY <1>3 DEF Deliver
    <2>2. CASE Stale(m)
      BY <2>1, <2>2 DEF TypeOK, RequestsInOrder, RowsOf, ShownInOrder, Ready
    <2>3. CASE ~Stale(m)
      <3>1. m.draw <= iDraw /\ iDraw \in Nat /\ m.draw \in Nat
        BY DEF RequestsInOrder, TypeOK, Answer
      <3>2. iDraw = d
        BY <2>1, <2>3, <3>1 DEF Stale
      <3>3. m.query = controls /\ RowsOf(m) /\ m # None
        BY <2>1, <3>2, NoneAssumption DEF RequestsInOrder, TypeOK
      <3> QED
        BY <2>1, <2>3, <3>2, <3>3
        DEF TypeOK, RequestsInOrder, RowsOf, ShownInOrder, Ready
    <2> QED
      BY <2>2, <2>3
  <1>4. CASE Others
    <2>1. table' \in Tables
      BY <1>4 DEF Others, TypeOK, Tables
    <2> QED
      BY <1>4, <2>1
      DEF Others, page, TypeOK, RequestsInOrder, RowsOf, ShownInOrder, Ready
  <1> QED
    BY <1>1, <1>2, <1>3, <1>4 DEF Network

\* Every behaviour keeps the inductive invariant.
THEOREM RequestsStayInOrder == Spec => []IInv
  <1>1. Init => IInv
    BY InitOrdered
  <1>2. IInv /\ [Next]_vars => IInv'
    <2> SUFFICES ASSUME IInv, [Next]_vars PROVE IInv'
      OBVIOUS
    <2>1. CASE UNCHANGED vars
      BY <2>1 DEF vars, IInv, TypeOK, RequestsInOrder, RowsOf, ShownInOrder, Ready
    <2>2. CASE Next
      BY <2>2, ControlsKeepOrder, NetworkKeepsOrder DEF Next
    <2> QED
      BY <2>1, <2>2
  <1> QED
    BY <1>1, <1>2, PTL DEF Spec

\* A match has one of the pages that the pager numbers.
LEMMA ShownMatchesHaveAPage ==
  ASSUME shown \in Answer, RowsOf(shown)
  PROVE  EachMatchHasAPage(shown)
  <1> DEFINE m == shown
             S == Found(m.seen, m.query.search)
             n == m.query.length
             q(i) == [m.query EXCEPT !.start = (i - 1) * n]
  <1>1. /\ m.seen \in Tables /\ m.query \in Query /\ n \in Nat \ {0}
        /\ m.total \in Nat /\ m.total >= Cardinality(S)
    BY BoundsAssumption DEF Answer, Query, RowsOf
  <1>2. S \in SUBSET Routes /\ Cardinality(S) \in Nat
    BY RoutesAssumption, FS_Subset, FS_CardinalityType DEF Found, All
  <1>3. Numbers = 1 .. (m.total + n - 1) \div n
    BY NoneAssumption DEF Numbers, Records
  <1>4. ASSUME NEW r \in S
        PROVE  \E i \in Numbers : \A j \in Numbers : OnPage(r, j, m) <=> j = i
    <2>1. m.query.sort \in Sorting
      BY <1>1 DEF Query
    <2>2. PICK p \in 1 .. Cardinality(S) : Ordered(S, m.query.sort)[p] = r
      BY <1>2, <2>1, SortingLosesNoRow
    <2>3. p \in Nat \ {0} /\ p <= m.total
      BY <1>1, <1>2
    <2>4. ASSUME NEW j \in Numbers
          PROVE  OnPage(r, j, m) <=> (j - 1) * n < p /\ p <= (j - 1) * n + n
      <3>1. j - 1 \in Nat /\ (j - 1) * n \in Nat
        <4>1. (m.total + n - 1) \div n \in Nat
          BY <1>1, Quotient
        <4>2. j - 1 \in Nat
          BY <1>3, <4>1
        <4> QED
          BY <1>1, <4>2
      <3>2. /\ q(j) \in Query /\ q(j).start = (j - 1) * n /\ q(j).length = n
            /\ q(j).search = m.query.search /\ q(j).sort = m.query.sort
        BY <1>1, <3>1 DEF Query
      <3> HIDE DEF q
      <3>3. LET rows == Page(m.seen, q(j))
            IN (\E k \in 1 .. Len(rows) : rows[k] = r)
               <=> q(j).start < p /\ p <= q(j).start + q(j).length
        BY <1>1, <2>2, <3>2, PageHolds
      <3> QED
        BY <3>2, <3>3 DEF OnPage, q
    <2>5. \E i \in Numbers : \A j \in Numbers :
            (j - 1) * n < p /\ p <= (j - 1) * n + n <=> j = i
      BY <1>1, <1>3, <2>3, OnePageHolds
    <2> QED
      BY <2>4, <2>5
  <1> QED
    BY <1>4 DEF EachMatchHasAPage

\* A grid without the notice shows the answer to what its controls say, in
\* whatever order its requests were answered, for any number of them; and each
\* match is on one page of its pager.
THEOREM GridShowsItsControls == Spec => []QuietGridAnswersControls
  <1>1. IInv => QuietGridAnswersControls
    BY ShownMatchesHaveAPage DEF IInv, ShownInOrder, TypeOK, QuietGridAnswersControls
  <1> QED
    BY <1>1, RequestsStayInOrder, PTL

\* Every variable keeps its type; above all, no button of the pager and no
\* change of the length asks for rows before the first.
THEOREM GridTypesHold == Spec => []TypeOK
  <1>1. IInv => TypeOK
    BY DEF IInv
  <1> QED
    BY <1>1, RequestsStayInOrder, PTL
=============================================================================

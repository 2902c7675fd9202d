------------------------ MODULE FacetSearch_proofs ------------------------
(***************************************************************************)
(* Proofs about FacetSearch, for any products, fields and addresses.       *)
(***************************************************************************)
EXTENDS FacetSearch, TLAPS, FiniteSetTheorems

\* An int stays an int, and zero stays zero.
LEMMA WrapIsInt ==
  ASSUME NEW n \in Int
  PROVE  Wrap(n) \in Numbers
  <1> DEFINE m == 2 * MaxInt + 2
             r == (n + MaxInt + 1) % m
  <1>1. MaxInt \in Nat
    BY NumbersAssumption
  <1>2. m \in Nat /\ m > 0 /\ n + MaxInt + 1 \in Int
    BY <1>1
  <1> HIDE DEF m
  <1>3. r \in Int /\ 0 <= r /\ r < m
    BY <1>2
  <1> HIDE DEF r
  <1>4. r - MaxInt - 1 \in (-MaxInt - 1) .. MaxInt
    BY <1>1, <1>3 DEF m
  <1> QED
    BY <1>4 DEF Wrap, Numbers, r, m

LEMMA WrapZero == Wrap(0) = 0
  <1>1. MaxInt \in Nat
    BY NumbersAssumption
  <1>2. ASSUME NEW a \in Nat, NEW m \in Nat, a < m
        PROVE  a % m = a
    BY <1>2
  <1>3. (MaxInt + 1) % (2 * MaxInt + 2) = MaxInt + 1
    BY <1>1, <1>2
  <1> QED
    BY <1>1, <1>3 DEF Wrap

-----------------------------------------------------------------------------
(***************************************************************************)
(* The two readings of an address.                                         *)
(***************************************************************************)
\* Of finitely many positions one is the last.
LEMMA LastExists ==
  ASSUME NEW n \in Nat, NEW K \in SUBSET (1 .. n), K # {}
  PROVE  \E i \in K : \A j \in K : j <= i
  <1> DEFINE Above(i) == {j \in K : j > i}
             T == {Above(i) : i \in K}
  <1>0. \A i \in K : i \in Int
    OBVIOUS
  <1>1. IsFiniteSet(K)
    <2>1. IsFiniteSet(1 .. n)
      BY FS_Interval
    <2> QED
      BY <2>1, FS_Subset
  <1>2. T \subseteq FiniteSubsetsOf(K) /\ T # {}
    <2>1. \A i \in K : Above(i) \subseteq K
      OBVIOUS
    <2>2. \A i \in K : Above(i) \in FiniteSubsetsOf(K)
      <3> HIDE DEF Above
      <3> QED
        BY <1>1, <2>1, FS_Subset DEF FiniteSubsetsOf
    <2> QED
      BY <2>2
  <1>3. PICK x \in T : \A y \in T : ~ (<<y, x>> \in StrictSubsetOrdering(K))
    <2> HIDE DEF T
    <2>1. IsWellFoundedOn(StrictSubsetOrdering(K), FiniteSubsetsOf(K))
      BY FS_StrictSubsetOrderingWellFounded
    <2> QED
      BY <1>2, <2>1, WFMin
  <1>4. PICK i \in K : x = Above(i)
    BY <1>3
  <1>5. Above(i) = {}
    <2> SUFFICES ASSUME NEW j \in K, j > i PROVE FALSE
      OBVIOUS
    <2>1. i \in Int /\ j \in Int
      BY <1>0
    <2>2. Above(j) \subseteq Above(i)
      <3> SUFFICES ASSUME NEW h \in K, h > j PROVE h > i
        OBVIOUS
      <3> QED
        BY <1>0, <2>1
    <2>3. j \in Above(i) /\ j \notin Above(j)
      BY <2>1
    <2>4. Above(j) # Above(i)
      <3> HIDE DEF Above
      <3> QED
        BY <2>3
    <2>5. <<Above(j), Above(i)>> \in StrictSubsetOrdering(K)
      <3>1. Above(i) \subseteq K /\ Above(j) \subseteq K
        OBVIOUS
      <3> HIDE DEF Above
      <3> QED
        BY <2>2, <2>4, <3>1 DEF StrictSubsetOrdering
    <2> QED
      BY <1>3, <1>4, <2>5
  <1> QED
    <2> SUFFICES ASSUME NEW j \in K PROVE j <= i
      OBVIOUS
    <2>1. ~ (j > i)
      BY <1>5
    <2> QED
      BY <1>0, <2>1

\* Both readings give a text or nothing for each parameter.
LEMMA ReadingTypes ==
  ASSUME NEW u \in Address
  PROVE  QueryString(u) \in Dictionary /\ ParseQueryString(u) \in Dictionary
  <1> SUFFICES ASSUME NEW k \in Keys
               PROVE  /\ QueryString(u)[k] \in Texts \cup {None}
                      /\ ParseQueryString(u)[k] \in Texts \cup {None}
    BY DEF QueryString, ParseQueryString, Dictionary
  <1> DEFINE s == u[k]
             kept == {i \in DOMAIN s : ~ s[i].beyond}
             last == s[CHOOSE i \in kept : \A j \in kept : j <= i]
  <1>1. s \in Seq(Given) /\ Len(s) \in Nat /\ DOMAIN s = 1 .. Len(s)
    BY DEF Address
  <1>2. \A i \in DOMAIN s : s[i] \in Given
    BY <1>1
  <1>3. QueryString(u)[k] \in Texts \cup {None}
    <2>1. CASE Len(s) = 0
      BY <2>1 DEF QueryString
    <2>2. CASE Len(s) = 1
      <3>1. s[1] \in Given
        BY <1>1, <1>2, <2>2
      <3>2. QueryString(u)[k] = s[1].text
        BY <2>2 DEF QueryString
      <3> QED
        BY <3>1, <3>2 DEF Given
    <2>3. CASE Len(s) # 0 /\ Len(s) # 1
      BY <2>3, TextsAssumption DEF QueryString
    <2> QED
      BY <2>1, <2>2, <2>3
  <1>4. ParseQueryString(u)[k] =
          IF kept = {} THEN None ELSE IF last.raw THEN Before[last.text] ELSE last.text
    BY DEF ParseQueryString
  <1>5. ASSUME kept # {}
        PROVE  last \in Given
    <2>1. \E i \in kept : \A j \in kept : j <= i
      BY <1>1, <1>5, LastExists
    <2>2. (CHOOSE i \in kept : \A j \in kept : j <= i) \in kept
      BY <2>1
    <2> QED
      BY <1>2, <2>2
  <1>6. kept # {} => last.text \in Texts /\ Before[last.text] \in Texts
    <2> HIDE DEF kept, last
    <2> QED
      BY <1>5, TextsAssumption DEF Given
  <1> QED
    BY <1>3, <1>4, <1>6

\* What is written into an address encoded is read back by both.
LEMMA WrittenIsRead ==
  ASSUME NEW qs \in Dictionary
  PROVE  LET u == DictToQuerystring(qs)
         IN u \in Address /\ QueryString(u) = qs /\ ParseQueryString(u) = qs
  <1> DEFINE u == DictToQuerystring(qs)
             Read(t) == [text |-> t, raw |-> FALSE, beyond |-> FALSE]
  <1>1. ASSUME NEW k \in Keys
        PROVE  /\ u[k] \in Seq(Given)
               /\ QueryString(u)[k] = qs[k] /\ ParseQueryString(u)[k] = qs[k]
    <2>1. qs[k] \in Texts \cup {None}
      BY DEF Dictionary
    <2>2. CASE qs[k] = None
      <3>1. u[k] = << >>
        BY <2>2 DEF DictToQuerystring
      <3> QED
        BY <2>2, <3>1 DEF QueryString, ParseQueryString
    <2>3. CASE qs[k] # None
      <3>1. u[k] = << Read(qs[k]) >> /\ Read(qs[k]) \in Given
        BY <2>1, <2>3 DEF DictToQuerystring, Given
      <3>2. u[k] \in Seq(Given) /\ Len(u[k]) = 1 /\ u[k][1] = Read(qs[k]) /\ DOMAIN u[k] = {1}
        BY <3>1
      <3>3. QueryString(u)[k] = qs[k]
        BY <3>2 DEF QueryString
      <3>4. {i \in DOMAIN u[k] : ~ u[k][i].beyond} = {1}
        BY <3>2
      <3>5. (CHOOSE i \in {1} : \A j \in {1} : j <= i) = 1
        OBVIOUS
      <3>6. ParseQueryString(u)[k] =
              (IF u[k][1].raw THEN Before[u[k][1].text] ELSE u[k][1].text)
        BY <3>4, <3>5 DEF ParseQueryString
      <3> QED
        BY <3>2, <3>3, <3>6
    <2> QED
      BY <2>2, <2>3
  <1>2. u \in Address
    BY <1>1 DEF Address, DictToQuerystring
  <1>3. QueryString(u) = qs
    BY <1>1 DEF QueryString, Dictionary
  <1>4. ParseQueryString(u) = qs
    BY <1>1 DEF ParseQueryString, Dictionary
  <1> QED
    BY <1>2, <1>3, <1>4

-----------------------------------------------------------------------------
(***************************************************************************)
(* The parameters bound from an address.                                   *)
(***************************************************************************)
Bound == [freeSearch : Texts \cup {None}, pageIndex : Numbers,
          pageSize : Numbers, facets : [Fields -> Texts \cup {None}]]

\* The binder makes ints of whatever an address holds.
LEMMA BindType ==
  ASSUME NEW u \in Address
  PROVE  Bind(u) \in Bound
  <1>1. 1 \in Numbers /\ DefaultPageSize \in Numbers
    BY NumbersAssumption DEF Numbers, DefaultPageSize
  <1>2. QueryString(u) \in Dictionary
    BY ReadingTypes
  <1> QED
    BY <1>1, <1>2 DEF Bind, Bound, TryParse, Dictionary, Keys

LEMMA StartType ==
  ASSUME NEW s \in Bound
  PROVE  Start(s) \in Numbers
  <1>1. s.pageIndex \in Int /\ s.pageSize \in Int /\ \A n \in Numbers : n \in Int
    BY NumbersAssumption DEF Bound, Numbers
  <1>2. Wrap(s.pageIndex - 1) \in Int
    BY <1>1, WrapIsInt
  <1>3. Wrap(s.pageIndex - 1) * s.pageSize \in Int
    BY <1>1, <1>2
  <1> QED
    BY <1>3, WrapIsInt DEF Start

\* The first page starts at zero, whatever its size.
LEMMA FirstPageStartsAtZero ==
  ASSUME NEW s \in Bound, s.pageIndex = 1
  PROVE  Start(s) = 0
  <1>1. s.pageSize \in Int
    BY NumbersAssumption DEF Bound, Numbers
  <1>2. Wrap(s.pageIndex - 1) * s.pageSize = 0
    BY <1>1, WrapZero
  <1> QED
    BY <1>2, WrapZero DEF Start

\* What both kinds of links do to the parameters they keep.
Changed(qs, f, w) == [qs EXCEPT ![f] = w, !["page"] = 1]

LEMMA ChangedType ==
  ASSUME NEW qs \in Dictionary, NEW f \in Fields, NEW w \in Texts \cup {None}
  PROVE  /\ Changed(qs, f, w) \in Dictionary
         /\ Changed(qs, f, w)["q"] = qs["q"]
         /\ Changed(qs, f, w)["page"] = 1
         /\ Changed(qs, f, w)["pageSize"] = qs["pageSize"]
         /\ [g \in Fields |-> Changed(qs, f, w)[g]] = [[g \in Fields |-> qs[g]] EXCEPT ![f] = w]
  <1>1. 1 \in Numbers /\ 1 \in Texts
    BY NumbersAssumption, TextsAssumption DEF Numbers, DefaultPageSize
  <1>2. \A g \in Fields : g # "q" /\ g # "page" /\ g # "pageSize" /\ g \in Keys
    BY KeysAssumption DEF Keys
  <1>3. "q" \in Keys /\ "page" \in Keys /\ "pageSize" \in Keys
    BY DEF Keys
  <1> QED
    BY <1>1, <1>2, <1>3 DEF Changed, Dictionary

\* Both kinds of links write the parameters ParseQueryString keeps, but for one.
LEMMA LinkKeeps ==
  ASSUME NEW u \in Address, NEW f \in Fields
  PROVE  /\ \A v \in Values :
              SetFacet(u, f, v) = DictToQuerystring(Changed(ParseQueryString(u), f, v))
         /\ RemoveFacetUrl(u, f) = DictToQuerystring(Changed(ParseQueryString(u), f, None))
  <1> DEFINE qs == ParseQueryString(u)
             less == [qs EXCEPT ![f] = None]
  <1>1. qs \in Dictionary
    BY ReadingTypes
  <1> HIDE DEF qs
  <1>2. less \in Dictionary
    BY <1>1 DEF Dictionary
  <1>3. ParseQueryString(RemoveParametersUrl(u, f)) = less
    BY <1>2, WrittenIsRead DEF RemoveParametersUrl, qs
  <1>4. [less EXCEPT !["page"] = 1] = Changed(qs, f, None)
    BY Zenon DEF Changed
  <1> QED
    BY <1>3, <1>4 DEF SetFacet, RemoveFacetUrl, Changed, qs

\* The links stay among the addresses, those that are read in one way.
LEMMA LinkType ==
  ASSUME NEW u \in Address, NEW f \in Fields
  PROVE  /\ \A v \in Values : SetFacet(u, f, v) \in Address /\ ReadAlike(SetFacet(u, f, v))
         /\ RemoveFacetUrl(u, f) \in Address /\ ReadAlike(RemoveFacetUrl(u, f))
  <1>1. \A w \in Values \cup {None} : Changed(ParseQueryString(u), f, w) \in Dictionary
    BY ReadingTypes, ChangedType, TextsAssumption
  <1> QED
    BY <1>1, LinkKeeps, WrittenIsRead DEF ReadAlike

\* What the parameters of a link are, given those of its page.
LEMMA LinkBinds ==
  ASSUME NEW u \in Address, ReadAlike(u), NEW f \in Fields, NEW w \in Texts \cup {None}
  PROVE  LET s == Bind(DictToQuerystring(Changed(ParseQueryString(u), f, w)))
         IN /\ s.pageIndex = 1 /\ s.pageSize = Bind(u).pageSize
            /\ s.freeSearch = Bind(u).freeSearch
            /\ s.facets = [Bind(u).facets EXCEPT ![f] = w]
  <1>1. 1 \in Numbers
    BY NumbersAssumption DEF Numbers, DefaultPageSize
  <1>2. PICK qs : qs = QueryString(u)
    OBVIOUS
  <1>3. qs \in Dictionary /\ ParseQueryString(u) = qs
    BY <1>2, ReadingTypes DEF ReadAlike
  <1>4. PICK new : new = Changed(qs, f, w)
    OBVIOUS
  <1>5. /\ new \in Dictionary /\ new["q"] = qs["q"] /\ new["page"] = 1
        /\ new["pageSize"] = qs["pageSize"]
        /\ [g \in Fields |-> new[g]] = [[g \in Fields |-> qs[g]] EXCEPT ![f] = w]
    BY <1>3, <1>4, ChangedType
  <1>6. QueryString(DictToQuerystring(new)) = new
    BY <1>5, WrittenIsRead
  <1>7. PICK u2 : u2 = DictToQuerystring(Changed(ParseQueryString(u), f, w))
    OBVIOUS
  <1>8. QueryString(u2) = new
    BY <1>3, <1>4, <1>6, <1>7
  <1>9. /\ Bind(u2).pageIndex = 1 /\ Bind(u2).pageSize = Bind(u).pageSize
        /\ Bind(u2).freeSearch = Bind(u).freeSearch
        /\ Bind(u2).facets = [Bind(u).facets EXCEPT ![f] = w]
    BY <1>1, <1>2, <1>5, <1>8 DEF Bind, TryParse
  <1> QED
    BY <1>7, <1>9

-----------------------------------------------------------------------------
(***************************************************************************)
(* The invariant.                                                          *)
(***************************************************************************)
LEMMA EmptyType ==
  ASSUME NEW state \in {"queryError", "failed"}
  PROVE  Empty(state) \in Page /\ Empty(state).state = state
  <1>1. 0 \in Numbers /\ DefaultPageSize \in Numbers
    BY NumbersAssumption DEF Numbers, DefaultPageSize
  <1> QED
    BY <1>1 DEF Empty, Page, NoFacets

LEMMA BlankType == Blank \in Address /\ ReadAlike(Blank)
  <1> DEFINE qs == [k \in Keys |-> None]
  <1>1. qs \in Dictionary
    BY DEF Dictionary
  <1>2. Blank = DictToQuerystring(qs)
    BY DEF Blank, DictToQuerystring
  <1> QED
    BY <1>1, <1>2, WrittenIsRead DEF ReadAlike

THEOREM InitInv == Init => IInv
  BY EmptyType, BlankType DEF Init, IInv, TypeOK, PageIsOfUrl, OnlyTypedAreMisread

\* Whatever address Index serves, the page it makes is of that address.
LEMMA IndexInv ==
  ASSUME TypeOK, NEW u \in Address, ReadAlike(u) \/ u \in Typed, Index(u)
  PROVE  IInv'
  <1> DEFINE s == Bind(u)
  <1>1. index' = index /\ url' = u /\ fresh' \in BOOLEAN
    BY DEF Index
  <1>2. s \in Bound /\ Start(s) \in Numbers
    BY BindType, StartType
  <1>5. OnlyTypedAreMisread'
    BY <1>1 DEF OnlyTypedAreMisread
  <1>3. CASE page' = Results(s) /\ ~ Refused(s) /\ Selected(s.facets) \subseteq Mapped
    <2>1. page' \in Page
      BY <1>2, <1>3 DEF Results, Page, Bound, Matching, TypeOK
    <2>2. Matching(s)' = Matching(s)
      BY <1>1 DEF Matching
    <2>3. PageIsOfUrl'
      BY <1>1, <1>3, <2>2 DEF PageIsOfUrl, Results, Refused
    <2> QED
      BY <1>1, <1>5, <2>1, <2>3 DEF IInv, TypeOK
  <1>4. CASE \E state \in {"queryError", "failed"} : page' = Empty(state)
    BY <1>1, <1>4, <1>5, EmptyType DEF IInv, TypeOK, PageIsOfUrl
  <1> QED
    BY <1>3, <1>4 DEF Index

\* Every step preserves the invariant.
THEOREM NextInv == IInv /\ [Next]_vars => IInv'
  <1> SUFFICES ASSUME IInv, [Next]_vars PROVE IInv'
    OBVIOUS
  <1> USE DEF IInv
  <1>1. url \in Address
    BY DEF TypeOK
  <1>2. ASSUME NEW f \in Fields, RemoveFacet(f) PROVE IInv'
    BY <1>1, <1>2, LinkType, IndexInv DEF RemoveFacet
  <1>3. ASSUME NEW f \in Fields, NEW v \in Values, Follow(f, v) PROVE IInv'
    BY <1>1, <1>3, LinkType, IndexInv DEF Follow
  <1>4. ASSUME NEW q \in Queries \cup {None}, Search(q) PROVE IInv'
    <2> DEFINE qs == [k \in Keys |-> IF k = "q" THEN q ELSE None]
    <2>1. qs \in Dictionary
      BY TextsAssumption DEF Dictionary
    <2>2. DictToQuerystring(qs) \in Address /\ ReadAlike(DictToQuerystring(qs))
      BY <2>1, WrittenIsRead DEF ReadAlike
    <2>3. Index(DictToQuerystring(qs))
      BY <1>4 DEF Search
    <2> QED
      BY <2>2, <2>3, IndexInv
  <1>5. ASSUME NEW u \in Typed, Visit(u) PROVE IInv'
    BY <1>5, TypedAssumption, IndexInv DEF Visit
  <1>6. CASE VisitGarbled
    BY <1>6, EmptyType, BlankType DEF VisitGarbled, TypeOK, PageIsOfUrl, OnlyTypedAreMisread
  <1>7. CASE ChangeIndex
    BY <1>7 DEF ChangeIndex, TypeOK, PageIsOfUrl, OnlyTypedAreMisread
  <1>8. CASE UNCHANGED vars
    BY <1>8 DEF vars, TypeOK, PageIsOfUrl, Matching, OnlyTypedAreMisread
  <1> QED
    BY <1>2, <1>3, <1>4, <1>5, <1>6, <1>7, <1>8 DEF Next

THEOREM Invariance == Spec => []IInv
  BY InitInv, NextInv, PTL DEF Spec

\* Every address and every page of the search is well formed.
THEOREM TypeCorrect == Spec => []TypeOK
  <1>1. IInv => TypeOK
    BY DEF IInv
  <1> QED
    BY <1>1, Invariance, PTL

\* Only an address that a user typed can be read in two ways.
THEOREM LinksAreReadAlike == Spec => []OnlyTypedAreMisread
  <1>1. IInv => OnlyTypedAreMisread
    BY DEF IInv
  <1> QED
    BY <1>1, Invariance, PTL

-----------------------------------------------------------------------------
(***************************************************************************)
(* The links.                                                              *)
(***************************************************************************)
\* A link that changes one facet, to something the view has a property for or
\* to nothing, is answered with the page of its search.
LEMMA LinkServed ==
  ASSUME IInv, page.state = "results", page.rows > 0, ReadAlike(url),
         NEW f \in Fields, NEW w \in Texts \cup {None}, w # None => f \in Mapped,
         NEW link, link = DictToQuerystring(Changed(ParseQueryString(url), f, w)),
         link \in Address, Index(link), page'.state # "failed"
  PROVE  /\ page'.state = "results"
         /\ GoesOnWith([page.facets EXCEPT ![f] = w])
         /\ page'.matching = Matching(Bind(link))
         /\ Bind(link).freeSearch = page.freeSearch
         /\ Bind(link).facets = [page.facets EXCEPT ![f] = w]
  <1> DEFINE s == Bind(link)
  <1>1. url \in Address /\ s \in Bound
    BY BindType DEF IInv, TypeOK
  <1>2. /\ s.pageIndex = 1 /\ s.pageSize = Bind(url).pageSize
        /\ s.freeSearch = Bind(url).freeSearch /\ s.facets = [Bind(url).facets EXCEPT ![f] = w]
    BY <1>1, LinkBinds
  <1>3. /\ Bind(url).facets = page.facets /\ Bind(url).freeSearch = page.freeSearch
        /\ Bind(url).pageSize = page.rows
        /\ Bind(url).freeSearch \notin BadQueries /\ Selected(page.facets) \subseteq Mapped
    BY DEF IInv, PageIsOfUrl
  <1>4. Start(s) = 0
    BY <1>1, <1>2, FirstPageStartsAtZero
  <1>5. page.facets \in [Fields -> Texts \cup {None}]
    BY DEF IInv, TypeOK, Page
  <1>6. Selected(s.facets) \subseteq Mapped
    BY <1>2, <1>3, <1>5 DEF Selected
  <1>7. ~ Refused(s) /\ ~ s.pageSize < 0
    <2>1. page.rows \in Int
      BY NumbersAssumption DEF IInv, TypeOK, Page, Numbers
    <2> QED
      BY <1>2, <1>3, <1>4, <1>6, <2>1, FieldsAssumption DEF Refused
  <1>8. page' = Results(s)
    BY <1>7 DEF Index, Empty
  <1> QED
    BY <1>2, <1>3, <1>4, <1>8 DEF Results, GoesOnWith

\* Finite counts.
LEMMA CountType ==
  ASSUME TypeOK, NEW S, S \subseteq page.matching
  PROVE  Cardinality(S) \in Nat
  <1>1. IsFiniteSet(S)
    BY ProductsAssumption, FS_Subset DEF TypeOK, Page
  <1> QED
    BY <1>1, FS_CardinalityType

LEMMA FacetLink ==
  ASSUME IInv, NEW f \in Fields, NEW v \in Values,
         Follow(f, v), ReadAlike(url), page.rows > 0, page'.state # "failed"
  PROVE  /\ page'.state = "results"
         /\ GoesOnWith([page.facets EXCEPT ![f] = v])
         /\ fresh => Found(page') = Count(page, f, v) /\ Shown(page') > 0
  <1>0. PICK link : link = SetFacet(url, f, v)
    OBVIOUS
  <1> DEFINE s == Bind(link)
  <1>1. /\ page.state = "results" /\ Index(link)
        /\ f \in AllFacetFields /\ f \notin Selected(page.facets)
        /\ Count(page, f, v) >= 1
    BY <1>0 DEF Follow, Offered
  <1>2. /\ link \in Address /\ v \in Texts
        /\ link = DictToQuerystring(Changed(ParseQueryString(url), f, v))
    BY <1>0, LinkType, LinkKeeps, TextsAssumption DEF IInv, TypeOK
  <1>3. f \in Mapped
    BY <1>1, FieldsAssumption
  <1>4. /\ page'.state = "results"
        /\ GoesOnWith([page.facets EXCEPT ![f] = v])
        /\ page'.matching = Matching(s)
        /\ s.freeSearch = page.freeSearch
        /\ s.facets = [page.facets EXCEPT ![f] = v]
    BY <1>1, <1>2, <1>3, LinkServed
  <1>5. ASSUME fresh
        PROVE  page'.matching = {p \in page.matching : v \in Attr[p][f]}
    <2>1. page.matching = Matching(Bind(url)) /\ page.facets = Bind(url).facets
          /\ page.freeSearch = Bind(url).freeSearch
      BY <1>1, <1>5 DEF IInv, PageIsOfUrl
    <2>2. page.facets \in [Fields -> Texts \cup {None}] /\ v # None
      BY NoneAssumption, TextsAssumption DEF IInv, TypeOK, Page
    <2>3. /\ Selected(s.facets) = Selected(page.facets) \cup {f}
          /\ s.facets[f] = v
          /\ \A g \in Selected(page.facets) : s.facets[g] = page.facets[g]
      BY <1>1, <1>4, <2>2 DEF Selected
    <2> QED
      BY <1>4, <2>1, <2>3 DEF Matching
  <1>6. ASSUME fresh
        PROVE  Found(page') = Count(page, f, v)
    BY <1>5, <1>6 DEF Found, Count
  <1>7. ASSUME fresh
        PROVE  Shown(page') > 0
    <2>1. Count(page, f, v) \in Nat
      BY CountType DEF Count, IInv
    <2>2. page'.start = 0 /\ page'.rows = page.rows
      BY <1>4 DEF GoesOnWith
    <2>3. page.rows \in Int
      BY NumbersAssumption DEF IInv, TypeOK, Page, Numbers
    <2>4. Found(page') \in Nat /\ Found(page') >= 1
      BY <1>1, <1>6, <1>7, <2>1
    <2> QED
      BY <2>2, <2>3, <2>4 DEF Shown
  <1> QED
    BY <1>4, <1>6, <1>7

LEMMA RemovalLink ==
  ASSUME IInv, NEW f \in Fields,
         RemoveFacet(f), ReadAlike(url), page.rows > 0, page'.state # "failed"
  PROVE  /\ page'.state = "results"
         /\ GoesOnWith([page.facets EXCEPT ![f] = None])
         /\ fresh => page.matching \subseteq page'.matching
  <1>0. PICK link : link = RemoveFacetUrl(url, f)
    OBVIOUS
  <1> DEFINE s == Bind(link)
  <1>1. page.state = "results" /\ Index(link)
    BY <1>0 DEF RemoveFacet
  <1>2. /\ link \in Address
        /\ link = DictToQuerystring(Changed(ParseQueryString(url), f, None))
    BY <1>0, LinkType, LinkKeeps DEF IInv, TypeOK
  <1>3. /\ page'.state = "results"
        /\ GoesOnWith([page.facets EXCEPT ![f] = None])
        /\ page'.matching = Matching(s)
        /\ s.freeSearch = page.freeSearch
        /\ s.facets = [page.facets EXCEPT ![f] = None]
    BY <1>1, <1>2, LinkServed
  <1>4. ASSUME fresh
        PROVE  page.matching \subseteq page'.matching
    <2>1. page.matching = Matching(Bind(url)) /\ page.facets = Bind(url).facets
          /\ page.freeSearch = Bind(url).freeSearch
      BY <1>1, <1>4 DEF IInv, PageIsOfUrl
    <2>2. page.facets \in [Fields -> Texts \cup {None}]
      BY DEF IInv, TypeOK, Page
    <2>3. \A g \in Selected(s.facets) :
             g \in Selected(page.facets) /\ s.facets[g] = page.facets[g]
      BY <1>3, <2>2 DEF Selected
    <2> QED
      BY <1>3, <2>1, <2>3 DEF Matching
  <1> QED
    BY <1>3, <1>4

\* Every facet link keeps the promise of the count beside it.
THEOREM FacetLinks == Spec => FacetLinkKeepsItsPromise
  <1>1. IInv /\ [Next]_vars =>
          [\A f \in Fields, v \in Values :
             Follow(f, v) /\ ReadAlike(url) /\ page.rows > 0 /\ page'.state # "failed" =>
               /\ page'.state = "results"
               /\ GoesOnWith([page.facets EXCEPT ![f] = v])
               /\ fresh => Found(page') = Count(page, f, v) /\ Shown(page') > 0]_vars
    BY FacetLink
  <1> QED
    BY <1>1, Invariance, PTL DEF Spec, FacetLinkKeepsItsPromise

\* Every link that removes a facet leads to a search that finds at least as much.
THEOREM RemovalLinks == Spec => RemovalOnlyWidens
  <1>1. IInv /\ [Next]_vars =>
          [\A f \in Fields :
             RemoveFacet(f) /\ ReadAlike(url) /\ page.rows > 0 /\ page'.state # "failed" =>
               /\ page'.state = "results"
               /\ GoesOnWith([page.facets EXCEPT ![f] = None])
               /\ fresh => page.matching \subseteq page'.matching]_vars
    BY RemovalLink
  <1> QED
    BY <1>1, Invariance, PTL DEF Spec, RemovalOnlyWidens
-----------------------------------------------------------------------------
\* Changes of two parameters, one after the other.
LEMMA TwoChanges ==
  ASSUME NEW qs \in Dictionary, NEW f \in Fields, NEW g \in Fields,
         NEW v \in Texts \cup {None}, NEW w \in Texts \cup {None}
  PROVE  /\ f # g => Changed(Changed(qs, f, v), g, w) = Changed(Changed(qs, g, w), f, v)
         /\ qs[f] = None => Changed(Changed(qs, f, v), f, None) = [qs EXCEPT !["page"] = 1]
  <1>1. \A h \in Fields : h # "page" /\ h \in Keys
    BY KeysAssumption DEF Keys
  <1>2. "page" \in Keys
    BY DEF Keys
  <1> QED
    BY <1>1, <1>2 DEF Changed, Dictionary

\* The way by which a user came to a search does not matter, on whatever address
\* it began: facets of two fields may be chosen and removed in either order, and
\* taking back a facet just chosen leads to the search the links had kept, on its
\* first page, which is the search on display unless the address was misread.
THEOREM LinksCommute ==
  ASSUME NEW u \in Address, NEW f \in Fields, NEW g \in Fields,
         NEW v \in Values, NEW w \in Values
  PROVE  /\ f # g => SetFacet(SetFacet(u, f, v), g, w) = SetFacet(SetFacet(u, g, w), f, v)
         /\ f # g => RemoveFacetUrl(SetFacet(u, f, v), g) = SetFacet(RemoveFacetUrl(u, g), f, v)
         /\ ParseQueryString(u)[f] = None =>
              QueryString(RemoveFacetUrl(SetFacet(u, f, v), f))
                = [ParseQueryString(u) EXCEPT !["page"] = 1]
  <1>1. PICK qs : qs = ParseQueryString(u)
    OBVIOUS
  <1>2. qs \in Dictionary /\ v \in Texts /\ w \in Texts
    BY <1>1, ReadingTypes, TextsAssumption
  <1>3. ASSUME NEW h \in Fields, NEW a \in Texts \cup {None}
        PROVE  /\ DictToQuerystring(Changed(qs, h, a)) \in Address
               /\ ParseQueryString(DictToQuerystring(Changed(qs, h, a))) = Changed(qs, h, a)
    BY <1>2, ChangedType, WrittenIsRead
  <1>4. \A h \in Fields, a \in Values : SetFacet(u, h, a) = DictToQuerystring(Changed(qs, h, a))
    BY <1>1, LinkKeeps
  <1>5. \A h \in Fields : RemoveFacetUrl(u, h) = DictToQuerystring(Changed(qs, h, None))
    BY <1>1, LinkKeeps
  <1>6. /\ SetFacet(SetFacet(u, f, v), g, w) = DictToQuerystring(Changed(Changed(qs, f, v), g, w))
        /\ SetFacet(SetFacet(u, g, w), f, v) = DictToQuerystring(Changed(Changed(qs, g, w), f, v))
        /\ RemoveFacetUrl(SetFacet(u, f, v), g)
             = DictToQuerystring(Changed(Changed(qs, f, v), g, None))
        /\ RemoveFacetUrl(SetFacet(u, f, v), f)
             = DictToQuerystring(Changed(Changed(qs, f, v), f, None))
        /\ SetFacet(RemoveFacetUrl(u, g), f, v)
             = DictToQuerystring(Changed(Changed(qs, g, None), f, v))
    BY <1>2, <1>3, <1>4, <1>5, LinkKeeps
  <1>7. ASSUME qs[f] = None
        PROVE  QueryString(RemoveFacetUrl(SetFacet(u, f, v), f)) = [qs EXCEPT !["page"] = 1]
    <2>1. Changed(Changed(qs, f, v), f, None) \in Dictionary
      BY <1>2, ChangedType
    <2> QED
      BY <1>2, <1>6, <1>7, <2>1, TwoChanges, WrittenIsRead
  <1>8. /\ f # g => Changed(Changed(qs, f, v), g, w) = Changed(Changed(qs, g, w), f, v)
        /\ f # g => Changed(Changed(qs, f, v), g, None) = Changed(Changed(qs, g, None), f, v)
    BY <1>2, TwoChanges
  <1> QED
    BY <1>1, <1>6, <1>7, <1>8
=============================================================================

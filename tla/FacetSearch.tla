---------------------------- MODULE FacetSearch ----------------------------
(***************************************************************************)
(* The search page of the Solr proof of concept: the address of the page,  *)
(* the links the view makes of it (UrlHelperExtensions, UrlHelperFacet-    *)
(* Extensions), the parameters bound from it (SearchParametersBinder), and *)
(* the query SolrController.Index makes of those, over an index that       *)
(* changes meanwhile.                                                      *)
(*                                                                         *)
(* The address is read twice: ASP.NET makes the search of it, and the      *)
(* links split it themselves.  The two agree on every address but one with *)
(* a second '?', a second '=' in a parameter, or a parameter given twice.  *)
(***************************************************************************)
EXTENDS Integers, Sequences, FiniteSets

CONSTANTS
  Products,       \* what the index may hold
  AllFacetFields, \* the fields the page offers facets of
  Mapped,         \* the fields Product has a property for
  SolrFields,     \* the fields of Solr's schema
  Fields,         \* the fields an address may name
  Texts,          \* what a parameter may hold; a text that is a number is that number
  Before,         \* Before[t]: text t up to its first '?' or '=', t itself without one
  Joined,         \* texts of a parameter given twice, joined by commas
  Values,         \* values of fields
  Attr,           \* Attr[p][f]: the values product p has in field f
  Queries,        \* texts the form may send
  BadQueries,     \* the texts Solr cannot parse
  Finds,          \* Finds[q]: the products text q finds
  MaxInt,         \* int.MaxValue
  Typed,          \* the addresses a user may type: the bound on their number
  None            \* a parameter that is absent (or a search or number that is empty)

DefaultPageSize == 5

Numbers == (-MaxInt - 1) .. MaxInt

\* The parameters of an address; field f has the parameter f_<f>.
Keys == {"q", "page", "pageSize"} \cup Fields

\* A parameter as it stands in an address: raw says that a '?' or '=' in its text
\* is not encoded, beyond that it stands after a second '?'.
Given == [text : Texts, raw : BOOLEAN, beyond : BOOLEAN]

\* What an address gives for each parameter, in its order.
Address == [Keys -> Seq(Given)]

\* A reading of an address.
Dictionary == [Keys -> Texts \cup {None}]

ASSUME FieldsAssumption ==
  AllFacetFields \subseteq Mapped /\ Mapped \subseteq SolrFields /\ SolrFields \subseteq Fields
ASSUME ProductsAssumption ==
  IsFiniteSet(Products) /\ Attr \in [Products -> [SolrFields -> SUBSET Values]]
ASSUME TextsAssumption ==
  /\ Numbers \cup Values \cup Queries \cup BadQueries \subseteq Texts
  /\ Joined \in Texts \ Numbers /\ Before \in [Texts -> Texts]
ASSUME QueriesAssumption == Finds \in [Texts -> SUBSET Products]
ASSUME NumbersAssumption == MaxInt \in Nat /\ MaxInt >= DefaultPageSize
ASSUME TypedAssumption == Typed \subseteq Address
ASSUME KeysAssumption == Fields \cap {"q", "page", "pageSize"} = {}
ASSUME NoneAssumption == None \notin Texts

VARIABLES
  index, \* the products a query sees
  url,   \* the address of the page
  page,  \* the page: what Index made of the address
  fresh  \* the index has not changed since the page was made (history)

vars == <<index, url, page, fresh>>

NoFacets == [f \in Fields |-> None]

Blank == [k \in Keys |-> << >>]

Selected(facets) == {f \in Fields : facets[f] # None}
-----------------------------------------------------------------------------
(***************************************************************************)
(* From the address to the query.                                          *)
(***************************************************************************)
\* StringHelper.TryParse
TryParse(text, default) == IF text \in Numbers THEN text ELSE default

\* Request.QueryString keeps every text whole and joins those of a duplicate.
QueryString(u) ==
  [k \in Keys |-> CASE Len(u[k]) = 0 -> None
                   [] Len(u[k]) = 1 -> u[k][1].text
                   [] OTHER -> Joined]

\* BindModel
Bind(u) == LET qs == QueryString(u)
           IN [freeSearch |-> qs["q"],
               pageIndex |-> TryParse(qs["page"], 1),
               pageSize |-> TryParse(qs["pageSize"], DefaultPageSize),
               facets |-> [f \in Fields |-> qs[f]]]

\* An int after an overflow.
Wrap(n) == ((n + MaxInt + 1) % (2 * MaxInt + 2)) - MaxInt - 1

\* Mutant of Start: the numbers have no width.
StartUnbounded(s) == (s.pageIndex - 1) * s.pageSize

Start(s) == Wrap(Wrap(s.pageIndex - 1) * s.pageSize)

\* Mutant of Matching: the filters of several facets are alternatives.
MatchingAny(s) ==
  {p \in index : /\ s.freeSearch # None => p \in Finds[s.freeSearch]
                 /\ Selected(s.facets) # {} =>
                      \E f \in Selected(s.facets) : s.facets[f] \in Attr[p][f]}

\* BuildQuery and BuildFilterQueries, as Solr answers them.
Matching(s) ==
  {p \in index : /\ s.freeSearch # None => p \in Finds[s.freeSearch]
                 /\ \A f \in Selected(s.facets) : s.facets[f] \in Attr[p][f]}

\* Solr refuses what it cannot parse, fields it does not have and a negative
\* start; what it does with a negative number of rows depends on its version.
Refused(s) == \/ s.freeSearch \in BadQueries
              \/ ~ Selected(s.facets) \subseteq SolrFields
              \/ Start(s) < 0

\* The page: its search, the products that match, the window shown of them.
Page == [state : {"results", "queryError", "failed"},
         facets : [Fields -> Texts \cup {None}], freeSearch : Texts \cup {None},
         matching : SUBSET Products, start : Numbers, rows : Numbers]

\* A page without links: the new SearchParameters of SolrViewModel, or what
\* Application_Error shows.
Empty(state) == [state |-> state, facets |-> NoFacets, freeSearch |-> None,
                 matching |-> {}, start |-> 0, rows |-> DefaultPageSize]

Results(s) == [state |-> "results", facets |-> s.facets, freeSearch |-> s.freeSearch,
               matching |-> Matching(s), start |-> Start(s), rows |-> s.pageSize]

\* Index, with its view.  InvalidFieldException is caught; other exceptions are
\* not, those of the view (a field without a property) included.
Index(u) ==
  LET s == Bind(u)
  IN /\ url' = u
     /\ \/ page' = Empty("failed")
        \/ (Refused(s) \/ s.pageSize < 0) /\ page' = Empty("queryError")
        \/ /\ ~ Refused(s) /\ Selected(s.facets) \subseteq Mapped
           /\ page' = Results(s)
     /\ fresh' = TRUE
     /\ UNCHANGED index
-----------------------------------------------------------------------------
(***************************************************************************)
(* What the page shows, and its links.                                     *)
(***************************************************************************)
\* NumFound, and the number of products in the window.
Found(pg) == Cardinality(pg.matching)

Shown(pg) ==
  IF pg.rows <= 0 \/ pg.start >= Found(pg) THEN 0
  ELSE IF Found(pg) - pg.start < pg.rows THEN Found(pg) - pg.start ELSE pg.rows

\* Solr's count of a facet value.
Count(pg, f, v) == Cardinality({p \in pg.matching : v \in Attr[p][f]})

\* The facet values offered: not of selected fields, with at least one product.
Offered(pg) ==
  {fv \in (AllFacetFields \ Selected(pg.facets)) \X Values : Count(pg, fv[1], fv[2]) >= 1}

\* ParseQueryString of parts[1] of Split('?'), with v[1] of Split('='): what stands
\* after a second '?' or '=' is lost; of duplicates the last is kept.
ParseQueryString(u) ==
  [k \in Keys |->
     LET kept == {i \in DOMAIN u[k] : ~ u[k][i].beyond}
         last == u[k][CHOOSE i \in kept : \A j \in kept : j <= i]
     IN IF kept = {} THEN None ELSE IF last.raw THEN Before[last.text] ELSE last.text]

\* Mutant of DictToQuerystring: without UrlEncode.
DictToRawQuerystring(qs) ==
  [k \in Keys |-> IF qs[k] = None THEN << >>
                  ELSE << [text |-> qs[k], raw |-> TRUE, beyond |-> FALSE] >>]

\* DictToQuerystring encodes the texts.
DictToQuerystring(qs) ==
  [k \in Keys |-> IF qs[k] = None THEN << >>
                  ELSE << [text |-> qs[k], raw |-> FALSE, beyond |-> FALSE] >>]

\* Mutant of SetFacet: it keeps the page number.
SetFacetHere(u, f, v) == DictToQuerystring([ParseQueryString(u) EXCEPT ![f] = v])

SetFacet(u, f, v) == DictToQuerystring([ParseQueryString(u) EXCEPT ![f] = v, !["page"] = 1])

RemoveParametersUrl(u, f) == DictToQuerystring([ParseQueryString(u) EXCEPT ![f] = None])

\* Mutant of RemoveFacetUrl: the two calls both start from RawUrl.
RemoveFacetRawUrl(u, f) == DictToQuerystring([ParseQueryString(u) EXCEPT !["page"] = 1])

\* RemoveFacet: RemoveParametersUrl, and SetParameter on what it returns.
RemoveFacetUrl(u, f) ==
  DictToQuerystring([ParseQueryString(RemoveParametersUrl(u, f)) EXCEPT !["page"] = 1])

Follow(f, v) ==
  /\ page.state = "results" /\ <<f, v>> \in Offered(page)
  /\ Index(SetFacet(url, f, v))

RemoveFacet(f) ==
  /\ page.state = "results" /\ f \in Selected(page.facets)
  /\ Index(RemoveFacetUrl(url, f))

\* The form: the browser replaces the whole query string, and encodes the text.
Search(q) ==
  /\ page.state \in {"results", "queryError"}
  /\ Index(DictToQuerystring([k \in Keys |-> IF k = "q" THEN q ELSE None]))

\* An address typed, reloaded or taken from the history.
Visit(u) == Index(u)

\* ... and one with a parameter that is no "key=value", or an order that
\* SortOrder.Parse refuses.
VisitGarbled ==
  /\ url' = Blank /\ page' = Empty("failed")
  /\ fresh' = TRUE
  /\ UNCHANGED index

\* Somebody adds and removes products.
ChangeIndex ==
  /\ \E new \in SUBSET Products : index' = new
  /\ fresh' = FALSE
  /\ UNCHANGED <<url, page>>

Init ==
  /\ index \in SUBSET Products
  /\ url = Blank /\ page = Empty("failed") /\ fresh = TRUE

Next ==
  \/ \E f \in Fields : RemoveFacet(f) \/ \E v \in Values : Follow(f, v)
  \/ \E q \in Queries \cup {None} : Search(q)
  \/ \E u \in Typed : Visit(u)
  \/ VisitGarbled
  \/ ChangeIndex

Spec == Init /\ [][Next]_vars
-----------------------------------------------------------------------------
(***************************************************************************)
(* Properties.                                                             *)
(***************************************************************************)
\* Types: every address the links make is one.
TypeOK ==
  /\ index \subseteq Products
  /\ url \in Address
  /\ page \in Page
  /\ fresh \in BOOLEAN

\* The page and its address agree: what is on display is what the binder read.
PageIsOfUrl ==
  page.state = "results" =>
    LET s == Bind(url)
    IN /\ page.facets = s.facets /\ page.freeSearch = s.freeSearch
       /\ page.rows = s.pageSize
       /\ fresh => page.matching = Matching(s)
       /\ s.freeSearch \notin BadQueries /\ Selected(s.facets) \subseteq Mapped

\* The links read the address as the search did.
ReadAlike(u) == ParseQueryString(u) = QueryString(u)

\* An address whose links go on with another search than the one on display is
\* one that a user typed: no link and no form of the page makes one, whatever the
\* texts in it and whatever the address the link was made from.
OnlyTypedAreMisread == ReadAlike(url) \/ url \in Typed

\* The inductive invariant.
IInv == TypeOK /\ PageIsOfUrl /\ OnlyTypedAreMisread

\* The search goes on as it was, but for the facets, on its first page.
GoesOnWith(facets) ==
  /\ page'.facets = facets /\ page'.freeSearch = page.freeSearch
  /\ page'.rows = page.rows /\ page'.start = 0

\* The link of a facet value adds that facet to the search and nothing else; if
\* the index has not changed, it finds as many products as the page promised
\* beside the link, and shows some of them, wherever in the list the user was.
\* It does so on every address but one that the links misread.
FacetLinkKeepsItsPromise ==
  [][\A f \in Fields, v \in Values :
       Follow(f, v) /\ ReadAlike(url) /\ page.rows > 0 /\ page'.state # "failed" =>
         /\ page'.state = "results"
         /\ GoesOnWith([page.facets EXCEPT ![f] = v])
         /\ fresh => Found(page') = Count(page, f, v) /\ Shown(page') > 0]_vars

\* The link that removes a facet removes that one and nothing else; if the index
\* has not changed, whatever was found before is found again.  It does so on every
\* address but one that the links misread.
RemovalOnlyWidens ==
  [][\A f \in Fields :
       RemoveFacet(f) /\ ReadAlike(url) /\ page.rows > 0 /\ page'.state # "failed" =>
         /\ page'.state = "results"
         /\ GoesOnWith([page.facets EXCEPT ![f] = None])
         /\ fresh => page.matching \subseteq page'.matching]_vars
=============================================================================

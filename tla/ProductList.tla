---------------------------- MODULE ProductList ----------------------------
(***************************************************************************)
(* The list of products of the Solr proof of concept: the Knockout page    *)
(* (SolrViewModel.js), the actions of SolrController it calls, and the     *)
(* Solr index.  A change and its commit are two calls to the index; a      *)
(* commit makes visible whatever anybody has changed so far.  Calls of one *)
(* page and of several pages overlap and are answered in any order.        *)
(***************************************************************************)
EXTENDS Naturals, FiniteSets

CONSTANTS
  Ids,      \* product ids
  Seeded,   \* the products in the index at the start
  Pages,    \* open pages
  Calls,    \* the ajax calls of a behaviour: the bound on their number
  None      \* no call

ASSUME IdsAssumption == IsFiniteSet(Ids)
ASSUME SeedAssumption == Seeded \subseteq Ids
ASSUME PageAssumption == Pages # {}
ASSUME NoneAssumption == None \notin Calls

VARIABLES
  working,   \* the index with the changes nobody has committed yet
  committed, \* the index a query sees
  call,      \* call[c]: what call c asks for, how far the server is with it
  awaited,   \* the calls whose callback may still run
  rows,      \* rows[p]: self.products, the objects page p shows
  last,      \* last[i]: the call that changed product i last, or None (history)
  stale      \* pages that something was done behind the back of (history)

vars == <<working, committed, call, awaited, rows, last, stale>>

Kinds == {"list", "add", "remove", "clear"}
Phases == {"unsent", "sent", "changed", "done", "failed"}

\* An object in self.products: the call that brought it, the id it came with,
\* and its id now (the page binds the id to a text box).
Row == [by : Calls, born : Ids, id : Ids]

Object(row) == <<row.by, row.born>>

\* ids: the products answered (list), added or removed; object: the row whose
\* removal the page asked for.
Call == [kind : Kinds, page : Pages, phase : Phases, ids : SUBSET Ids,
         object : (Calls \X Ids) \cup {<<>>}]

Unsent == [kind |-> "list", page |-> CHOOSE p \in Pages : TRUE, phase |-> "unsent",
           ids |-> {}, object |-> <<>>]
-----------------------------------------------------------------------------
Init ==
  /\ working = Seeded /\ committed = Seeded
  /\ call = [c \in Calls |-> Unsent]
  /\ awaited = {}
  /\ rows = [p \in Pages |-> {}]
  /\ last = [i \in Ids |-> None]
  /\ stale = Pages

Running(c) == call[c].phase \in {"sent", "changed"}

Pending == {c \in Calls : Running(c) \/ c \in awaited}

Opened(p) == \E c \in Calls : /\ call[c].page = p /\ call[c].kind = "list"
                              /\ call[c].phase # "unsent"

\* The page has asked for its list and not got it yet.
Listing(p) == \E c \in awaited : call[c].page = p /\ call[c].kind = "list"

Send(c, p, kind, ids, object) ==
  /\ call[c].phase = "unsent"
  /\ call' = [call EXCEPT ![c] = [kind |-> kind, page |-> p, phase |-> "sent",
                                  ids |-> ids, object |-> object]]
  /\ UNCHANGED <<working, committed, last>>

\* The page is loaded, or loaded again, and asks for the products.  It is up
\* to date if nothing is under way and nothing is left uncommitted.
Open(p, c) ==
  /\ Send(c, p, "list", {}, <<>>)
  /\ rows' = [rows EXCEPT ![p] = {}]
  /\ awaited' = {d \in awaited : call[d].page # p} \cup {c}
  /\ stale' = IF Pending = {} /\ working = committed THEN stale \ {p} ELSE stale \cup {p}

\* self.addProduct.  A list under way may or may not have the new product in
\* it, which the callback of the addition will show again.
AddProduct(p, c) ==
  /\ Opened(p)
  /\ Send(c, p, "add", {}, <<>>)
  /\ awaited' = awaited \cup {c}
  /\ stale' = IF Listing(p) THEN stale \cup {p} ELSE stale
  /\ UNCHANGED rows

\* Mutant of RemoveProduct: the click binding does not pass the product on.
RemoveUnbound(p, c, row) ==
  /\ Send(c, p, "remove", {row.id}, <<>>)
  /\ awaited' = awaited \cup {c}
  /\ UNCHANGED <<rows, stale>>

\* self.removeProduct, with the id the row has now.
RemoveProduct(p, c, row) ==
  /\ Send(c, p, "remove", {row.id}, Object(row))
  /\ awaited' = awaited \cup {c}
  /\ UNCHANGED <<rows, stale>>

\* RemoveAll, which no page calls: somebody opens its URL.
RemoveAll(p, c) ==
  /\ Send(c, p, "clear", {}, <<>>)
  /\ UNCHANGED <<awaited, rows, stale>>

\* The user edits the id of a row.
EditId(p, row, i) ==
  /\ i # row.id
  /\ rows' = [rows EXCEPT ![p] = (@ \ {row}) \cup {[row EXCEPT !.id = i]}]
  /\ stale' = stale \cup {p}
  /\ UNCHANGED <<working, committed, call, awaited, last>>
-----------------------------------------------------------------------------
(***************************************************************************)
(* SolrController and the index.                                           *)
(***************************************************************************)
\* GetAllProducts
Read(c) ==
  /\ call[c].kind = "list" /\ call[c].phase = "sent"
  /\ call' = [call EXCEPT ![c].phase = "done", ![c].ids = committed]
  /\ UNCHANGED <<working, committed, awaited, rows, last, stale>>

\* solr.Add of AddProduct.  The id is the first of a random generator seeded by
\* the clock: any id, that of another product included.
Add(c) ==
  /\ call[c].kind = "add" /\ call[c].phase = "sent"
  /\ \E i \in Ids :
       /\ working' = working \cup {i}
       /\ call' = [call EXCEPT ![c].phase = "changed", ![c].ids = {i}]
       /\ last' = [last EXCEPT ![i] = c]
       /\ stale' = IF i \in Seeded \/ last[i] # None THEN Pages
                   ELSE stale \cup (Pages \ {call[c].page})
  /\ UNCHANGED <<committed, awaited, rows>>

\* solr.Delete of Remove.
Delete(c) ==
  /\ call[c].kind = "remove" /\ call[c].phase = "sent"
  /\ working' = working \ call[c].ids
  /\ call' = [call EXCEPT ![c].phase = "changed"]
  /\ last' = [i \in Ids |-> IF i \in call[c].ids THEN c ELSE last[i]]
  /\ stale' = stale \cup (Pages \ {call[c].page})
  /\ UNCHANGED <<committed, awaited, rows>>

\* solr.Delete(SolrQuery.All) of RemoveAll.
DeleteAll(c) ==
  /\ call[c].kind = "clear" /\ call[c].phase = "sent"
  /\ working' = {}
  /\ call' = [call EXCEPT ![c].phase = "changed", ![c].ids = Ids]
  /\ last' = [i \in Ids |-> c]
  /\ stale' = Pages
  /\ UNCHANGED <<committed, awaited, rows>>

\* Mutant of Commit: the action forgets solr.Commit.
CommitNothing(c) ==
  /\ call[c].phase = "changed"
  /\ call' = [call EXCEPT ![c].phase = "done"]
  /\ UNCHANGED <<working, committed, awaited, rows, last, stale>>

\* solr.Commit of the three actions that change the index.
Commit(c) ==
  /\ call[c].phase = "changed"
  /\ committed' = working
  /\ call' = [call EXCEPT ![c].phase = "done"]
  /\ UNCHANGED <<working, awaited, rows, last, stale>>

\* An exception at either call to the index, or the end of the worker process.
\* What was changed stays in the index, for the next commit.
Fail(c) ==
  /\ Running(c)
  /\ call' = [call EXCEPT ![c].phase = "failed"]
  /\ stale' = IF call[c].phase = "changed" THEN Pages
              ELSE IF call[c].kind = "list" THEN stale \cup {call[c].page}
              ELSE stale
  /\ UNCHANGED <<working, committed, awaited, rows, last>>

\* Solr commits by itself.
AutoCommit ==
  /\ committed' = working
  /\ UNCHANGED <<working, call, awaited, rows, last, stale>>
-----------------------------------------------------------------------------
(***************************************************************************)
(* The callbacks of the page.                                              *)
(***************************************************************************)
\* $.getJSON of the constructor, and the success callback of addProduct.
Pushed(c) == {[by |-> c, born |-> i, id |-> i] : i \in call[c].ids}

Push(c) ==
  /\ c \in awaited
  /\ call[c].kind \in {"list", "add"} /\ call[c].phase = "done"
  /\ rows' = [rows EXCEPT ![call[c].page] = @ \cup Pushed(c)]
  /\ awaited' = awaited \ {c}
  /\ UNCHANGED <<working, committed, call, last, stale>>

\* Mutant of Ok: the callback does not look at the answer.
OkAlways(c) == TRUE

\* result.ok
Ok(c) == call[c].phase = "done"

\* The success callback of removeProduct: Remove catches every exception.
Drop(c) ==
  /\ c \in awaited
  /\ call[c].kind = "remove" /\ call[c].phase \in {"done", "failed"}
  /\ rows' = IF Ok(c)
             THEN [rows EXCEPT ![call[c].page] =
                     {row \in @ : Object(row) # call[c].object}]
             ELSE rows
  /\ awaited' = awaited \ {c}
  /\ UNCHANGED <<working, committed, call, last, stale>>

\* The error callbacks: the action failed.
Alert(c) ==
  /\ c \in awaited
  /\ call[c].kind \in {"list", "add"} /\ call[c].phase = "failed"
  /\ awaited' = awaited \ {c}
  /\ UNCHANGED <<working, committed, call, rows, last, stale>>

\* ... or the connection broke, at any time.
Break(c) ==
  /\ c \in awaited
  /\ awaited' = awaited \ {c}
  /\ stale' = stale \cup {call[c].page}
  /\ UNCHANGED <<working, committed, call, rows, last>>

Next ==
  \/ \E p \in Pages, c \in Calls : Open(p, c) \/ AddProduct(p, c) \/ RemoveAll(p, c)
  \/ \E p \in Pages : \E row \in rows[p] :
       \/ \E c \in Calls : RemoveProduct(p, c, row)
       \/ \E i \in Ids : EditId(p, row, i)
  \/ \E c \in Calls : \/ Read(c) \/ Add(c) \/ Delete(c) \/ DeleteAll(c)
                      \/ Commit(c) \/ Fail(c)
                      \/ Push(c) \/ Drop(c) \/ Alert(c) \/ Break(c)
  \/ AutoCommit

Spec == Init /\ [][Next]_vars
-----------------------------------------------------------------------------
(***************************************************************************)
(* Properties.                                                             *)
(***************************************************************************)
\* Types; an awaited call has been sent, and only removals carry an object.
TypeOK ==
  /\ working \subseteq Ids /\ committed \subseteq Ids
  /\ call \in [Calls -> Call]
  /\ awaited \subseteq {c \in Calls : call[c].phase # "unsent"}
  /\ rows \in [Pages -> SUBSET Row]
  /\ last \in [Ids -> Calls \cup {None}]
  /\ stale \subseteq Pages
  /\ \A c \in Calls : call[c].kind = "remove" <=> call[c].object # <<>>

\* The last change of a product counts as soon as its action is done, whatever
\* other calls have changed, committed or left uncommitted meanwhile: it is in
\* the index if it was added and not if it was removed.
LastWordCounts ==
  \A i \in Ids, c \in Calls :
    last[i] = c /\ call[c].phase = "done" => (i \in committed <=> call[c].kind = "add")

\* A last word is the call that had it, and what is not committed yet obeys it.
LastWordStands ==
  \A i \in Ids, c \in Calls :
    last[i] = c =>
      /\ call[c].phase \in {"changed", "done", "failed"}
      /\ i \in working <=> call[c].kind = "add"

\* The inductive invariant behind LastWordCounts.
IInv == TypeOK /\ LastWordStands /\ LastWordCounts

\* Every product of the index was there at the start or has a last word.
Known(i) == i \in Seeded \/ last[i] # None
NothingUnknown == \A i \in working : Known(i)

\* The product a removal is about, as the page asked for it.
Target(c) == call[c].object[2]

\* A page that waits for its list shows nothing, waits for nothing else, and is
\* going to get what is in the index.
ListUnderWay(p) ==
  /\ rows[p] = {}
  /\ working = committed
  /\ \A c \in awaited : call[c].page = p =>
       /\ call[c].kind = "list"
       /\ call[c].phase \in {"sent", "done"}
       /\ call[c].phase = "done" => call[c].ids = working
  /\ \A c, d \in awaited : call[c].page = p /\ call[d].page = p => c = d

\* The index has been changed, and the page has not been told yet: of an
\* addition, of a removal.
Changed(c) == call[c].phase \in {"changed", "done"}
Coming(p) == {c \in awaited : call[c].page = p /\ call[c].kind = "add" /\ Changed(c)}
Removing(p) == {c \in awaited : call[c].page = p /\ call[c].kind = "remove"}
Going(p) == {c \in Removing(p) : Changed(c)}

\* Rows: no product twice; a row whose product has left the index is going, and
\* a product without a row is coming.
RowsInOrder(p) ==
  /\ \A row \in rows[p] : /\ row.id = row.born
                          /\ Known(row.id)
                          /\ \/ row.id \in working
                             \/ \E c \in Going(p) : call[c].object = Object(row)
  /\ \A row1, row2 \in rows[p] : row1.id = row2.id => row1 = row2
  /\ \A i \in working : \/ \E row \in rows[p] : row.id = i
                        \/ \E c \in Coming(p) : call[c].ids = {i}

\* Calls: what comes is new to the page; what is to be removed is the product
\* of the row it was asked for, and of no other one.
CallsInOrder(p) ==
  /\ \A c \in Coming(p) : \E i \in Ids :
       /\ call[c].ids = {i}
       /\ i \in working
       /\ \A row \in rows[p] : row.id # i
       /\ \A d \in Removing(p) : Target(d) # i
       /\ \A d \in Coming(p) : call[d].ids = {i} => d = c
  /\ \A c \in Removing(p) :
       /\ call[c].ids = {Target(c)}
       /\ Known(Target(c))
       /\ \A row \in rows[p] : row.id = Target(c) => call[c].object = Object(row)
       /\ Changed(c) => Target(c) \notin working

\* The inductive invariant behind QuietPageShowsIndex, about the pages nothing
\* was done behind the back of.
FreshPage(p) ==
  /\ \A c \in Calls : /\ call[c].page = p
                       /\ Running(c)
                       /\ call[c].kind # "clear"
                       => c \in awaited
  /\ working = committed \/ \E c \in Calls : call[c].phase = "changed"
  /\ IF Listing(p) THEN ListUnderWay(p) ELSE RowsInOrder(p) /\ CallsInOrder(p)

PagesInOrder == NothingUnknown /\ \A p \in Pages \ stale : FreshPage(p)

\* Once every call has ended, a page nothing was done behind the back of (by
\* another page, a repeated id, an edited id, a failure halfway, an addition
\* that overtook the list) shows the products of the index, each of them once.
QuietPageShowsIndex ==
  \A p \in Pages :
    p \notin stale /\ Pending = {} =>
      /\ {row.id : row \in rows[p]} = committed
      /\ Cardinality(rows[p]) = Cardinality(committed)
=============================================================================

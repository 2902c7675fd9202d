----------------------------- MODULE RoutesGrid -----------------------------
(***************************************************************************)
(* The list of routes of the back office: the DataTables 1.9 grid of       *)
(* Index.cshtml, which asks the server for every page it shows, and        *)
(* jQueryDataTablesHandler, which answers from the table of routes while   *)
(* other requests change it.                                               *)
(*                                                                         *)
(* Every change of the controls sends a request; requests overlap and are  *)
(* answered in any order or not at all.  A failed request runs no code of  *)
(* the grid (at most an alert), so an error of the server, a broken        *)
(* connection and the login page of an ended session are one case.         *)
(*                                                                         *)
(* Routes are numbered in the order of their creation.  A route that is    *)
(* renamed is, to the grid, one that goes and another one that comes.      *)
(***************************************************************************)
EXTENDS Integers, Sequences, FiniteSets

CONSTANTS
  Routes,     \* the routes there may be
  Columns,    \* the columns of the grid
  Missing,    \* columns that are no property of Route: Updated, UpdatedBy
  First,      \* the column a new grid is sorted by
  Key,        \* Key[c][r]: the rank of route r in column c
  Texts,      \* what may be typed into the search box
  Empty,      \* the empty text
  Matches,    \* Matches[x]: the routes whose name contains text x
  Lengths,    \* the lengths of a page the grid offers
  MaxDraws,   \* bound on the requests of a grid
  None        \* nothing was drawn yet

ASSUME RoutesAssumption == Routes \subseteq Nat /\ IsFiniteSet(Routes)
ASSUME ColumnsAssumption ==
  /\ First \in Columns
  /\ Missing \subseteq Columns
  /\ Key \in [Columns -> [Routes -> Int]]
ASSUME TextsAssumption ==
  /\ Empty \in Texts
  /\ Matches \in [Texts -> SUBSET Routes]
  /\ Matches[Empty] = Routes
ASSUME BoundsAssumption ==
  /\ Lengths \subseteq Nat \ {0}
  /\ Lengths # {}
  /\ MaxDraws \in Nat

\* A route of the table: on the list, on it with CreatedBy NULL, or not on it
\* (IsDeleted, or no such row).
States == {"live", "anonymous", "off"}
Tables == [Routes -> States]

\* aaSorting: the columns to sort by, and what the grid asks for.
Sorting == Seq([column : Columns, dir : {"asc", "desc"}])
Query == [search : Texts, sort : Sorting, start : Nat, length : Lengths]

\* An answer, with the number (sEcho) of its request; its query and the table
\* it was made from, which the server does not send, are history.
Answer == [draw : Nat, query : Query, seen : Tables, rows : Seq(Routes), total : Nat]

ASSUME NoneAssumption == None \notin Answer

VARIABLES
  table,       \* the table of routes
  language,    \* the texts of the grid: "asked", "here" or "lost"
  controls,    \* the search box, aaSorting, _iDisplayStart, _iDisplayLength
  clicked,     \* clicks on headings whose sorting waits for its timer
  iDraw,       \* the number of the newest request
  processing,  \* the notice "Procesando..." is visible
  shown,       \* the answer whose rows the grid shows, or None
  sent,        \* requests the server has not answered
  answers,     \* answers under way
  failed       \* the numbers of the requests that failed

vars == <<table, language, controls, clicked, iDraw, processing, shown, sent, answers, failed>>

page == <<language, controls, clicked, iDraw, processing, shown>>
-----------------------------------------------------------------------------
(***************************************************************************)
(* The handler.                                                            *)
(***************************************************************************)
Least(a, b) == IF a < b THEN a ELSE b

\* GetAll, and the routes of it a search leaves.
All(t) == {r \in Routes : t[r] # "off"}
Found(t, x) == All(t) \cap Matches[x]

\* The order of the rows: GetAll sorts the newest first, and the first column
\* of aaSorting, the only one the handler reads, is sorted on top of that.
Before(a, b, sort) ==
  IF sort = <<>> \/ Key[sort[1].column][a] = Key[sort[1].column][b] THEN a > b
  ELSE (sort[1].dir = "asc") <=> Key[sort[1].column][a] < Key[sort[1].column][b]

Ordered(S, sort) ==
  [i \in 1 .. Cardinality(S) |->
     CHOOSE r \in S : Cardinality({a \in S : Before(a, r, sort)}) = i - 1]

\* Skip and Take.
Page(t, q) ==
  LET rows == Ordered(Found(t, q.search), q.sort)
  IN SubSeq(rows, q.start + 1, Least(q.start + q.length, Len(rows)))

\* A column Route does not have throws once there is a row to sort, and
\* CreatedBy.ToString() throws for a row of the page that has none.
Throws(t, q) ==
  \/ /\ q.sort # <<>>
     /\ q.sort[1].column \in Missing
     /\ Found(t, q.search) # {}
  \/ \E i \in 1 .. Len(Page(t, q)) : t[Page(t, q)[i]] = "anonymous"

\* Mutant of Total: the rows of the page.
TotalOfPage(t, q) == Len(Page(t, q))

\* iTotalDisplayRecords: all routes, whatever the search.
Total(t, q) == Cardinality(All(t))
-----------------------------------------------------------------------------
(***************************************************************************)
(* The grid.                                                               *)
(***************************************************************************)
\* A new grid has the first length of the menu.
Shortest == {n \in Lengths : \A m \in Lengths : n <= m}

Init ==
  /\ table \in Tables
  /\ language = "asked"
  /\ controls \in [search : {Empty}, sort : {<<[column |-> First, dir |-> "asc"]>>},
                   start : {0}, length : Shortest]
  /\ clicked = <<>>
  /\ iDraw = 0
  /\ processing = FALSE
  /\ shown = None
  /\ sent = {} /\ answers = {} /\ failed = {}

\* fnRecordsDisplay: what the last answer said.
Records == IF shown = None THEN 0 ELSE shown.total

\* The bound on requests; a click that waits will need one, too.
MayDraw == iDraw + Len(clicked) < MaxDraws

\* _fnDraw of a grid fed by the server: a request goes out, and the notice is
\* there until an answer comes.
Draw(q) ==
  /\ controls' = q
  /\ iDraw' = iDraw + 1
  /\ processing' = TRUE
  /\ sent' = sent \cup {[draw |-> iDraw + 1, query |-> q]}
  /\ UNCHANGED <<table, shown, answers, failed>>

\* The file with the texts arrives: the grid is built and asks for its first
\* page.  Without the file there is never a grid.
Start ==
  /\ language = "asked"
  /\ MayDraw
  /\ language' = "here"
  /\ Draw(controls)
  /\ UNCHANGED clicked

LoseLanguage ==
  /\ language = "asked"
  /\ language' = "lost"
  /\ UNCHANGED <<table, controls, clicked, iDraw, processing, shown, sent, answers, failed>>

Ready == language = "here"

\* A key changes the text in the search box.
Search(x) ==
  /\ Ready /\ MayDraw
  /\ x # controls.search
  /\ Draw([controls EXCEPT !.search = x, !.start = 0])
  /\ UNCHANGED <<language, clicked>>

\* A click on a heading: the notice at once, the sorting in a timer.
Click(c, shift) ==
  /\ Ready /\ MayDraw
  /\ clicked' = Append(clicked, [column |-> c, shift |-> shift])
  /\ processing' = TRUE
  /\ UNCHANGED <<table, language, controls, iDraw, shown, sent, answers, failed>>

\* The sorting after a click: the column alone, its direction turned if it was
\* alone before; with the shift key, one more column, turned, or taken out.
Ascending(c) == [column |-> c, dir |-> "asc"]
Descending(c) == [column |-> c, dir |-> "desc"]

Plain(sort, c) ==
  IF sort = <<Ascending(c)>> THEN <<Descending(c)>> ELSE <<Ascending(c)>>

Shifted(sort, c) ==
  LET places == {i \in 1 .. Len(sort) : sort[i].column = c}
      m == CHOOSE i \in places : TRUE
  IN CASE places = {} -> Append(sort, Ascending(c))
       [] places # {} /\ sort[m].dir = "asc" -> [sort EXCEPT ![m] = Descending(c)]
       [] OTHER -> SubSeq(sort, 1, m - 1) \o SubSeq(sort, m + 1, Len(sort))

SortBy ==
  LET click == Head(clicked)
  IN /\ clicked # <<>>
     /\ clicked' = Tail(clicked)
     /\ Draw([controls EXCEPT
          !.sort = IF click.shift THEN Shifted(@, click.column) ELSE Plain(@, click.column),
          !.start = 0])
     /\ UNCHANGED language

\* Mutant of Back: no look at the first row.
BackBeyond(start, length) == start - length

\* The page before, which begins at the first row at the earliest.
Back(start, length) == IF start < length THEN 0 ELSE start - length

\* The buttons of the pager: first, previous, next, last, which draw if the
\* start changes, and the numbers, of the pages there were when it was drawn.
Buttons ==
  LET n == controls.length
  IN {0, Back(controls.start, n)}
     \cup {s \in {controls.start + n} : s < Records}
     \cup {IF Records = 0 THEN 0 ELSE ((Records - 1) \div n) * n}

Numbers ==
  IF shown = None THEN {}
  ELSE 1 .. (Records + shown.query.length - 1) \div shown.query.length

GoTo(start) ==
  /\ Ready /\ MayDraw
  /\ Draw([controls EXCEPT !.start = start])
  /\ UNCHANGED <<language, clicked>>

TurnPage ==
  \/ \E start \in Buttons \ {controls.start} : GoTo(start)
  \/ \E i \in Numbers : GoTo((i - 1) * controls.length)

\* Another length: the start moves back if the page would go past the end.
ChangeLength(n) ==
  /\ Ready /\ MayDraw
  /\ n # controls.length
  /\ Draw([controls EXCEPT
       !.length = n,
       !.start = IF @ + n < Records THEN @ ELSE Back(Records, n)])
  /\ UNCHANGED <<language, clicked>>
-----------------------------------------------------------------------------
(***************************************************************************)
(* Requests on their way.                                                  *)
(***************************************************************************)
\* The handler answers.
Serve(d) ==
  \E m \in sent :
    /\ m.draw = d
    /\ sent' = sent \ {m}
    /\ IF Throws(table, m.query)
       THEN failed' = failed \cup {d} /\ UNCHANGED answers
       ELSE /\ answers' = answers \cup {[draw |-> d, query |-> m.query, seen |-> table,
                                        rows |-> Page(table, m.query),
                                        total |-> Total(table, m.query)]}
            /\ UNCHANGED failed
    /\ UNCHANGED <<table, page>>

\* A request or its answer is lost, or the session has ended.
Lose(d) ==
  /\ \E m \in sent \cup answers : m.draw = d
  /\ sent' = {m \in sent : m.draw # d}
  /\ answers' = {m \in answers : m.draw # d}
  /\ failed' = failed \cup {d}
  /\ UNCHANGED <<table, page>>

\* Mutants of Stale: no answer is; the newest one is, too.
StaleNever(m) == FALSE
StaleAlways(m) == m.draw <= iDraw

\* The answer to a request that is not the newest any more.
Stale(m) == m.draw < iDraw

\* The grid gets an answer: a stale one is dropped.
Deliver(d) ==
  \E m \in answers :
    /\ m.draw = d
    /\ answers' = answers \ {m}
    /\ IF Stale(m)
       THEN UNCHANGED <<iDraw, shown, processing>>
       ELSE iDraw' = d /\ shown' = m /\ processing' = FALSE
    /\ UNCHANGED <<table, language, controls, clicked, sent, failed>>

\* Other requests create, edit and delete routes.
Others ==
  /\ \E r \in Routes, s \in States : table' = [table EXCEPT ![r] = s]
  /\ UNCHANGED <<page, sent, answers, failed>>
-----------------------------------------------------------------------------
User ==
  \/ \E x \in Texts : Search(x)
  \/ \E c \in Columns, shift \in BOOLEAN : Click(c, shift)
  \/ TurnPage
  \/ \E n \in Lengths : ChangeLength(n)

Network == \E d \in 1 .. MaxDraws : Serve(d) \/ Lose(d) \/ Deliver(d)

Next == Start \/ LoseLanguage \/ User \/ SortBy \/ Network \/ Others

Spec == Init /\ [][Next]_vars

\* Timers go off, and every request is answered or breaks.  Nothing is assumed
\* of the users, nor that the file with the texts arrives.
Fairness ==
  /\ WF_vars(SortBy)
  /\ \A d \in 1 .. MaxDraws : WF_vars(Serve(d)) /\ WF_vars(Deliver(d))

FairSpec == Spec /\ Fairness
-----------------------------------------------------------------------------
(***************************************************************************)
(* Properties.                                                             *)
(***************************************************************************)
\* Every variable holds values of its type; no request asks for rows before
\* the first.
TypeOK ==
  /\ table \in Tables
  /\ language \in {"asked", "here", "lost"}
  /\ controls \in Query
  /\ clicked \in Seq([column : Columns, shift : BOOLEAN])
  /\ iDraw \in Nat
  /\ processing \in BOOLEAN
  /\ shown \in Answer \cup {None}
  /\ sent \subseteq [draw : Nat, query : Query]
  /\ answers \subseteq Answer
  /\ failed \subseteq Nat

\* Once the notice is gone, the rows are the answer to what the controls say,
\* however many requests overlapped and in whatever order they were answered:
\* the whole page of one state of the table, without a row that cannot be
\* shown; and of the pages the pager numbers, exactly one has any row that
\* matches (and, after a search, some have none).
RowsOf(m) ==
  /\ m.rows = Page(m.seen, m.query)
  /\ \A i \in 1 .. Len(m.rows) : m.seen[m.rows[i]] # "anonymous"
  /\ m.total >= Cardinality(Found(m.seen, m.query.search))

OnPage(r, i, m) ==
  LET rows == Page(m.seen, [m.query EXCEPT !.start = (i - 1) * m.query.length])
  IN \E k \in 1 .. Len(rows) : rows[k] = r

EachMatchHasAPage(m) ==
  \A r \in Found(m.seen, m.query.search) :
    \E i \in Numbers : \A j \in Numbers : OnPage(r, j, m) <=> j = i

QuietGridAnswersControls ==
  Ready /\ ~processing =>
    /\ shown # None /\ shown.query = controls
    /\ RowsOf(shown) /\ EachMatchHasAPage(shown)

\* The notice goes away, unless that very request failed (then it stays, with
\* the rows of an earlier query below it) or the controls changed again.
EveryDrawSettles ==
  \A d \in 1 .. MaxDraws : iDraw = d ~> ~processing \/ d \in failed \/ iDraw > d

\* The inductive invariant behind QuietGridAnswersControls: what is under way
\* was asked before, the newest request asks what the controls say, every
\* answer is a page of a state of the table, and so is what the grid shows.
\* That each match has a page follows from it.
RequestsInOrder ==
  /\ \A m \in sent \cup answers : m.draw <= iDraw
  /\ \A m \in sent \cup answers : m.draw = iDraw => m.query = controls
  /\ \A m \in answers : RowsOf(m)

ShownInOrder ==
  Ready /\ ~processing => shown # None /\ shown.query = controls /\ RowsOf(shown)

IInv == TypeOK /\ RequestsInOrder /\ ShownInOrder
=============================================================================

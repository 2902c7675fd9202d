---------------------------- MODULE RouteEditing ----------------------------
(***************************************************************************)
(* Editing a route in the back office: the Edit page in several browser    *)
(* tabs (Edit.cshtml), the GET and POST Edit actions (RoutesController),   *)
(* the service, repository and unit of work they call, and the rows of     *)
(* the Route table.  A POST sleeps two seconds before it writes, the       *)
(* submit button stays enabled, and there is no concurrency token: posts   *)
(* of several tabs, and of one tab, overlap and are written in any order.  *)
(*                                                                         *)
(* Name stands for the two free texts (Name and Comments), createdBy for   *)
(* the columns the form has no field for (CreatedBy, Deleted, DeletedBy,   *)
(* LastUpdated and LastUpdatedBy).  The notice the GET broadcasts to the   *)
(* open pages is left out: no step reads it.                               *)
(***************************************************************************)
EXTENDS Naturals

CONSTANTS
  Routes,        \* IDs an Edit page is asked for
  Tabs,          \* browser tabs
  Posts,         \* the POSTs of a behaviour: the bound on submits
  Names,         \* names a row may have
  TypedNames,    \* names a user may type, Blank among them if it occurs
  TypedDistances,\* distances a user may type
  TypedDays,     \* dates a user may type, NoDate among them if it occurs
  TypedTicks,    \* what a user may make of the Deleted checkbox
  Days,          \* days of the calendar
  Users,         \* values of CreatedBy
  MaxDistance,   \* upper limit of the distance spinner
  SeedRows,      \* contents the table may start with
  None,          \* SQL NULL, no row, no form, no post
  Blank,         \* an empty text field
  NoDate         \* a text that is no date

ASSUME DistanceAssumption == /\ MaxDistance \in Nat
                             /\ TypedDistances \subseteq Nat
ASSUME TextAssumption == /\ TypedNames \subseteq Names \cup {Blank}
                         /\ Blank \notin Names
ASSUME DayAssumption == /\ TypedDays \subseteq Days \cup {NoDate}
                        /\ NoDate \notin Days
ASSUME TickAssumption == TypedTicks \subseteq BOOLEAN
-----------------------------------------------------------------------------
\* A row of table Route.
Row == [name : Names, distance : Nat,
        day : Days, time : {"midnight", "later"},
        createdBy : Users \cup {None},
        isDeleted : BOOLEAN]

\* The fields of the Edit form; ticked is the Deleted checkbox.
Form == [name : Names \cup {Blank}, distance : 0 .. MaxDistance,
         day : Days \cup {NoDate}, ticked : BOOLEAN]

ASSUME SeedAssumption == SeedRows \subseteq [Routes -> Row \cup {None}]

VARIABLES
  table,    \* table[r]: the row with ID r, or None
  tabs,     \* tabs[t]: the Edit page open in tab t, or None
  content,  \* content[p]: what POST p carries, or None before it is sent
  stage,    \* stage[p]: how far the server is with p
  heard,    \* heard[p]: what the page that sent p learnt of it
  writer    \* writer[r]: the POST that wrote row r last, or None (history)

vars == <<table, tabs, content, stage, heard, writer>>

\* A POST.  base is the writer of the row when the form was read, and
\* answered the POSTs whose answer had been seen when this one was sent
\* (both are history: the code keeps neither).
Post == [tab : Tabs, route : Routes, form : Form, untouched : BOOLEAN,
         base : Posts \cup {None}, answered : SUBSET Posts]

\* The page: shown is the form as the server rendered it.
Page == [route : Routes, shown : Form, base : Posts \cup {None},
         spinner : BOOLEAN,
         alert : {"none", "saved", "rejected", "failed"}]

\* The sentinel is none of the values it stands in for the absence of.
ASSUME NoneAssumption == /\ None \notin Posts /\ None \notin Users
                         /\ None \notin Row /\ None \notin Page
                         /\ None \notin Post

Stages == {"unsent", "pending", "saved", "rejected", "dropped"}
Hearings == {"nothing", "saved", "rejected", "failed", "left"}
-----------------------------------------------------------------------------
(***************************************************************************)
(* Conversions between a row and the form.                                 *)
(***************************************************************************)
\* Mutant of Clamp: a spinner that keeps what the server rendered.
ClampNothing(d) == d

\* The spinner corrects the value it is attached to.
Clamp(d) == IF d > MaxDistance THEN MaxDistance ELSE d

\* Razor renders the row: Created loses its time (ToShortDateString) and the
\* checkbox, which has no checked attribute, starts clear.
Render(row) == [name |-> row.name, distance |-> Clamp(row.distance),
                day |-> row.day, ticked |-> FALSE]

\* Mutant of Bind: the field Distance has another name than the property,
\* which takes its default.
BindWithoutDistance(form) == [name |-> form.name, distance |-> 0,
                              day |-> form.day, time |-> "midnight",
                              createdBy |-> None, isDeleted |-> FALSE]

\* DefaultModelBinder makes a Route of the posted fields.  A property that was
\* not posted keeps its default; neither text a ticked box can post ("on",
\* "value") converts to a bool, and ModelState is never looked at.
Bind(form) == [name |-> form.name, distance |-> form.distance,
               day |-> form.day, time |-> "midnight",
               createdBy |-> None, isDeleted |-> FALSE]

\* What EF validation (Name is required) and SQL Server (datetime does not
\* hold DateTime.MinValue) accept.
Storable(row) == row.name # Blank /\ row.day # NoDate

\* Mutant of Modified: columns the binder left NULL are not written.
ModifiedKeepingNulls(row, entity) ==
  [entity EXCEPT !.createdBy = IF @ = None THEN row.createdBy ELSE @]

\* State = Modified writes every column of the attached entity.
Modified(row, entity) == entity

\* Every form the user can make of the one on display.
Edits(form) == [name : TypedNames \cup {form.name},
                distance : {Clamp(d) : d \in TypedDistances} \cup {form.distance},
                day : TypedDays \cup {form.day},
                ticked : TypedTicks \cup {form.ticked}]
-----------------------------------------------------------------------------
Init ==
  /\ table \in SeedRows
  /\ tabs = [t \in Tabs |-> None]
  /\ content = [p \in Posts |-> None]
  /\ stage = [p \in Posts |-> "unsent"]
  /\ heard = [p \in Posts |-> "nothing"]
  /\ writer = [r \in Routes |-> None]

\* Posts of tab t whose answer its page still waits for.
Awaited(t) == {p \in Posts : /\ stage[p] # "unsent"
                             /\ heard[p] = "nothing"
                             /\ content[p].tab = t}

\* A page that is left takes its ajax callbacks with it.
Abandon(t) == heard' = [p \in Posts |-> IF p \in Awaited(t) THEN "left" ELSE heard[p]]

\* GET Edit/r in a tab: Find reads the row, deleted or not; without a row
\* the view fails and there is no form.
OpenForm(t, r) ==
  /\ tabs' = [tabs EXCEPT ![t] =
       IF table[r] = None THEN None
       ELSE [route |-> r, shown |-> Render(table[r]), base |-> writer[r],
             spinner |-> FALSE, alert |-> "none"]]
  /\ Abandon(t)
  /\ UNCHANGED <<table, content, stage, writer>>

\* The user fills in the form and presses Aceptar.  The alert of an earlier
\* answer covers the page; an earlier POST under way prevents nothing.
Submit(t, p) ==
  /\ tabs[t] # None
  /\ tabs[t].alert = "none"
  /\ stage[p] = "unsent"
  /\ \E form \in Edits(tabs[t].shown) :
       /\ form.name # Blank
       /\ content' = [content EXCEPT ![p] =
            [tab |-> t, route |-> tabs[t].route, form |-> form,
             untouched |-> (form = tabs[t].shown), base |-> tabs[t].base,
             answered |-> {q \in Posts : heard[q] \in {"saved", "rejected"}}]]
  /\ stage' = [stage EXCEPT ![p] = "pending"]
  /\ tabs' = [tabs EXCEPT ![t].spinner = TRUE]
  /\ UNCHANGED <<table, heard, writer>>

\* Mutant of Sleeping: the action runs again for a POST it has saved.
SleepingAgain(p) == stage[p] \in {"pending", "saved"}

\* The action has not come out of its sleep for POST p.
Sleeping(p) == stage[p] = "pending"

\* POST Edit after its sleep: Attach, mark every column modified, SaveChanges.
Save(p) ==
  LET r == content[p].route
      row == Bind(content[p].form)
  IN /\ Sleeping(p)
     /\ table[r] # None
     /\ Storable(row)
     /\ table' = [table EXCEPT ![r] = Modified(table[r], row)]
     /\ writer' = [writer EXCEPT ![r] = p]
     /\ stage' = [stage EXCEPT ![p] = "saved"]
     /\ UNCHANGED <<tabs, content, heard>>

\* The catch block: the row is not storable, or the database failed.
Reject(p) ==
  /\ Sleeping(p)
  /\ stage' = [stage EXCEPT ![p] = "rejected"]
  /\ UNCHANGED <<table, tabs, content, heard, writer>>

\* The request never reaches the action, or the worker process is recycled
\* while it sleeps.
Drop(p) ==
  /\ Sleeping(p)
  /\ stage' = [stage EXCEPT ![p] = "dropped"]
  /\ UNCHANGED <<table, tabs, content, heard, writer>>

\* The success callback: both texts of the action arrive with status 200.
Answer(p) ==
  /\ stage[p] \in {"saved", "rejected"}
  /\ heard[p] = "nothing"
  /\ heard' = [heard EXCEPT ![p] = stage[p]]
  /\ tabs' = [tabs EXCEPT ![content[p].tab].spinner = FALSE,
                          ![content[p].tab].alert = stage[p]]
  /\ UNCHANGED <<table, content, stage, writer>>

\* The error callback: the connection broke, before or after the server was
\* done.  It leaves the spinner on, and the server carries on.
Break(p) ==
  /\ stage[p] # "unsent"
  /\ heard[p] = "nothing"
  /\ heard' = [heard EXCEPT ![p] = "failed"]
  /\ tabs' = [tabs EXCEPT ![content[p].tab].alert = "failed"]
  /\ UNCHANGED <<table, content, stage, writer>>

\* The user closes the alert of an error callback and is back at the form.
CloseAlert(t) ==
  /\ tabs[t] # None
  /\ tabs[t].alert = "failed"
  /\ tabs' = [tabs EXCEPT ![t].alert = "none"]
  /\ UNCHANGED <<table, content, stage, heard, writer>>

\* goInicio after an answer, the Cancelar button, or any other navigation.
Leave(t) ==
  /\ tabs[t] # None
  /\ tabs' = [tabs EXCEPT ![t] = None]
  /\ Abandon(t)
  /\ UNCHANGED <<table, content, stage, writer>>

Serve(p) == Save(p) \/ Reject(p) \/ Drop(p)

\* Mutant of Return: the page has no error callback.
ReturnAnswersOnly(p) == Answer(p)

Return(p) == Answer(p) \/ Break(p)

Next ==
  \/ \E t \in Tabs, r \in Routes : OpenForm(t, r)
  \/ \E t \in Tabs, p \in Posts : Submit(t, p)
  \/ \E p \in Posts : Serve(p) \/ Return(p)
  \/ \E t \in Tabs : CloseAlert(t) \/ Leave(t)

Spec == Init /\ [][Next]_vars

\* The two-second sleep ends, or the process does; a connection delivers or
\* breaks.  Nothing is assumed of the user.
Fairness == \A p \in Posts : WF_vars(Serve(p)) /\ WF_vars(Return(p))

FairSpec == Spec /\ Fairness
-----------------------------------------------------------------------------
(***************************************************************************)
(* Properties.                                                             *)
(***************************************************************************)
\* The row is as it was seeded, or its distance within the spinner.
DistanceFits(r, row) == \/ row = None
                        \/ row.distance <= MaxDistance
                        \/ \E s \in SeedRows : s[r] = row

\* Every variable holds values of its type; in particular no row ever holds a
\* blank name, an unreadable date or a distance from beyond the spinner, unless
\* nobody has edited it.
TypeOK ==
  /\ table \in [Routes -> Row \cup {None}]
  /\ \A r \in Routes : DistanceFits(r, table[r])
  /\ tabs \in [Tabs -> Page \cup {None}]
  /\ content \in [Posts -> Post \cup {None}]
  /\ stage \in [Posts -> Stages]
  /\ heard \in [Posts -> Hearings]
  /\ writer \in [Routes -> Posts \cup {None}]

\* However POSTs overlap, a row that was edited is what the binder made of the
\* form of ONE of them, a POST for that row the server saved: never a mixture
\* of two forms, of a form and the former row, or of a POST that was rejected.
RowIsOneForm ==
  \A r \in Routes : writer[r] # None =>
    /\ stage[writer[r]] = "saved"
    /\ content[writer[r]].route = r
    /\ table[r] = Bind(content[writer[r]].form)

\* An edit whose answer was seen before a later edit of the same row was sent
\* does not come back once the later one is saved: only POSTs still under way
\* can overwrite it (double submits, zombies of a broken connection).
AnsweredEditNeverResurfaces ==
  \A p, q \in Posts :
    ( /\ stage[p] = "saved"
      /\ q \in content[p].answered )
    => writer[content[p].route] # q

\* Accepting the form as it was shown changes nothing a user can see in the
\* form, unless another POST was saved in between: what GET Edit renders and
\* POST Edit binds fit together.
UntouchedFormIsHarmless ==
  [][\A p \in Posts :
       LET r == content[p].route
       IN ( /\ stage[p] = "pending" /\ stage'[p] = "saved"
            /\ content[p].untouched
            /\ content[p].base = writer[r] )
          => Render(table'[r]) = Render(table[r])]_vars

\* The inductive invariant behind the properties above; its parts beyond them
\* say how the stages of a POST, what was heard of it, the page that sent it
\* and the history in it hang together.
PostsAreSent ==
  \A p \in Posts :
    /\ stage[p] # "unsent" => content[p] # None
    /\ stage[p] = "unsent" => heard[p] = "nothing"
    /\ heard[p] \in {"saved", "rejected"} => stage[p] = heard[p]
    /\ stage[p] # "unsent" /\ heard[p] = "nothing" => tabs[content[p].tab] # None

AnsweredAreDone ==
  \A p, q \in Posts : stage[p] # "unsent" /\ q \in content[p].answered
                      => stage[q] \in {"saved", "rejected"}

\* A form read after the last save of its row shows that row.
Fresh(r, base, form) == base = writer[r] => table[r] # None /\ form = Render(table[r])
Past(base) == base # None => stage[base] = "saved"

FreshForms ==
  /\ \A t \in Tabs : tabs[t] # None =>
       Past(tabs[t].base) /\ Fresh(tabs[t].route, tabs[t].base, tabs[t].shown)
  /\ \A p \in Posts : stage[p] = "pending" =>
       /\ Past(content[p].base)
       /\ content[p].untouched => Fresh(content[p].route, content[p].base, content[p].form)

IInv == /\ TypeOK
        /\ PostsAreSent
        /\ RowIsOneForm
        /\ AnsweredAreDone
        /\ AnsweredEditNeverResurfaces
        /\ FreshForms

\* Every submit ends with an alert or with the page being left, whatever is
\* lost on the way.
EverySubmitSettles ==
  \A p \in Posts : stage[p] # "unsent" ~> heard[p] # "nothing"
=============================================================================

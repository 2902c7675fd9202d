------------------------ MODULE RouteEditing_proofs ------------------------
(***************************************************************************)
(* Proofs about RouteEditing, for every set of tabs, routes and POSTs and  *)
(* every form a user can type; and that the page and its controller keep   *)
(* what AtomicTable asks of those who work on a table.                     *)
(***************************************************************************)
EXTENDS RouteEditing, TLAPS

\* The spinner keeps distances within the form's range, and correcting a
\* corrected value changes nothing.
LEMMA ClampRange ==
  ASSUME NEW d \in Nat
  PROVE  Clamp(d) \in 0 .. MaxDistance /\ Clamp(Clamp(d)) = Clamp(d)
  BY DistanceAssumption DEF Clamp

\* Rendering a row gives a form.
LEMMA RenderType ==
  ASSUME NEW row \in Row
  PROVE  Render(row) \in Form
  BY ClampRange DEF Render, Row, Form

\* A form that can be stored binds to a row with a distance within the spinner.
LEMMA BindType ==
  ASSUME NEW form \in Form, Storable(Bind(form))
  PROVE  Bind(form) \in Row /\ Bind(form).distance <= MaxDistance
  BY DistanceAssumption DEF Bind, Storable, Form, Row

\* Rendering what was bound from a rendered row renders the same form.
LEMMA RoundTrip ==
  ASSUME NEW row \in Row
  PROVE  Render(Bind(Render(row))) = Render(row)
  BY ClampRange DEF Render, Bind, Row

\* What the user makes of a form is a form.
LEMMA EditsType ==
  ASSUME NEW shown \in Form, NEW form \in Edits(shown)
  PROVE  form \in Form
  <1>1. \A d \in TypedDistances : Clamp(d) \in 0 .. MaxDistance
    BY ClampRange, DistanceAssumption
  <1> QED
    BY <1>1, TextAssumption, DayAssumption, TickAssumption DEF Edits, Form
-----------------------------------------------------------------------------
THEOREM InitInv == Init => IInv
  <1> SUFFICES ASSUME Init PROVE IInv
    OBVIOUS
  <1>1. TypeOK
    BY SeedAssumption DEF Init, TypeOK, DistanceFits, Stages, Hearings
  <1>2. PostsAreSent /\ RowIsOneForm /\ AnsweredAreDone /\ AnsweredEditNeverResurfaces
    BY DEF Init, PostsAreSent, RowIsOneForm, AnsweredAreDone, AnsweredEditNeverResurfaces
  <1>3. FreshForms
    BY DEF Init, FreshForms
  <1> QED
    BY <1>1, <1>2, <1>3 DEF IInv

\* Opening a form reads the row as it is now.
LEMMA OpenFormInv ==
  ASSUME IInv, NEW t \in Tabs, NEW r \in Routes, OpenForm(t, r)
  PROVE  IInv'
  <1> USE DEF IInv
  <1>1. TypeOK'
    <2>1. tabs' \in [Tabs -> Page \cup {None}]
      BY RenderType DEF OpenForm, TypeOK, Page
    <2>2. heard' \in [Posts -> Hearings]
      BY DEF OpenForm, Abandon, TypeOK, Hearings
    <2> QED
      BY <2>1, <2>2 DEF OpenForm, TypeOK
  <1>2. PostsAreSent'
    BY DEF OpenForm, Abandon, Awaited, PostsAreSent, TypeOK
  <1>3. RowIsOneForm' /\ AnsweredAreDone' /\ AnsweredEditNeverResurfaces'
    BY DEF OpenForm, RowIsOneForm, AnsweredAreDone, AnsweredEditNeverResurfaces
  <1>4. FreshForms'
    <2>1. Past(writer[r])
      BY DEF RowIsOneForm, Past
    <2> QED
      BY <2>1 DEF OpenForm, FreshForms, Fresh, Past, TypeOK
  <1> QED
    BY <1>1, <1>2, <1>3, <1>4

\* A new POST carries the freshness of its page, and finds only answered ones done.
LEMMA SubmitInv ==
  ASSUME IInv, NEW t \in Tabs, NEW p \in Posts, Submit(t, p)
  PROVE  IInv'
  <1> USE DEF IInv
  <1> DEFINE Seen == {q \in Posts : heard[q] \in {"saved", "rejected"}}
  <1>a. tabs[t] \in Page
    BY DEF Submit, TypeOK
  <1>b. PICK form \in Edits(tabs[t].shown) :
          content' = [content EXCEPT ![p] =
            [tab |-> t, route |-> tabs[t].route, form |-> form,
             untouched |-> (form = tabs[t].shown), base |-> tabs[t].base,
             answered |-> Seen]]
    BY DEF Submit
  <1>c. form \in Form
    BY <1>a, <1>b, EditsType DEF Page
  <1>d. /\ content'[p] \in Post
        /\ content'[p].tab = t /\ content'[p].route = tabs[t].route
        /\ content'[p].form = form /\ content'[p].base = tabs[t].base
        /\ content'[p].untouched => form = tabs[t].shown
        /\ content'[p].answered = Seen
    <2> DEFINE Same == (form = tabs[t].shown)
    <2>1. content'[p] = [tab |-> t, route |-> tabs[t].route, form |-> form,
             untouched |-> Same, base |-> tabs[t].base, answered |-> Seen]
      BY <1>b DEF TypeOK
    <2>2. Seen \in SUBSET Posts /\ Same \in BOOLEAN
      OBVIOUS
    <2>3. Same => form = tabs[t].shown
      OBVIOUS
    <2> HIDE DEF Seen, Same
    <2> QED
      BY <1>a, <1>c, <2>1, <2>2, <2>3 DEF Post, Page
  <1>e. \A q \in Posts \ {p} : content'[q] = content[q] /\ stage'[q] = stage[q]
    BY <1>b DEF Submit, TypeOK
  <1>f. stage[p] = "unsent" /\ stage'[p] = "pending" /\ UNCHANGED <<table, heard, writer>>
    BY DEF Submit, TypeOK
  <1>g. /\ tabs' \in [Tabs -> Page \cup {None}]
        /\ \A u \in Tabs : tabs'[u] # None <=> tabs[u] # None
        /\ \A u \in Tabs : tabs[u] # None =>
             /\ tabs[u] \in Page
             /\ tabs'[u].base = tabs[u].base
             /\ tabs'[u].route = tabs[u].route /\ tabs'[u].shown = tabs[u].shown
    <2>1. /\ tabs'[t] \in Page /\ tabs'[t].base = tabs[t].base
          /\ tabs'[t].route = tabs[t].route /\ tabs'[t].shown = tabs[t].shown
      <3>1. tabs'[t] = [tabs[t] EXCEPT !.spinner = TRUE]
        BY DEF Submit, TypeOK
      <3> QED
        BY <1>a, <3>1 DEF Page
    <2>2. \A u \in Tabs \ {t} : tabs'[u] = tabs[u]
      BY DEF Submit, TypeOK
    <2>3. tabs' \in [Tabs -> Page \cup {None}]
      <3>1. DOMAIN tabs' = Tabs /\ tabs' = [u \in Tabs |-> tabs'[u]]
        BY DEF Submit, TypeOK
      <3> QED
        BY <2>1, <2>2, <3>1 DEF TypeOK
    <2> QED
      BY <1>a, <2>1, <2>2, <2>3, NoneAssumption DEF TypeOK
  <1> HIDE DEF Seen
  <1>1. TypeOK'
    <2>1. content' \in [Posts -> Post \cup {None}]
      BY <1>b, <1>d DEF TypeOK
    <2>2. stage' \in [Posts -> Stages]
      BY DEF Submit, TypeOK, Stages
    <2> QED
      BY <1>f, <1>g, <2>1, <2>2 DEF TypeOK
  <1>2. PostsAreSent'
    <2>1. content'[p] # None /\ tabs'[content'[p].tab] # None
      BY <1>a, <1>d, <1>g, NoneAssumption
    <2>2. \A q \in Posts : content[q] # None => content[q].tab \in Tabs
      BY DEF TypeOK, Post
    <2> QED
      BY <1>e, <1>f, <1>g, <2>1, <2>2 DEF PostsAreSent
  <1>3. RowIsOneForm'
    <2>1. \A r \in Routes : writer[r] # None => writer[r] \in Posts \ {p}
      BY <1>f DEF RowIsOneForm, TypeOK
    <2> QED
      BY <1>e, <1>f, <2>1 DEF RowIsOneForm
  <1>4. AnsweredAreDone'
    <2>1. \A q \in Posts : q \in Seen => stage[q] \in {"saved", "rejected"}
      BY DEF PostsAreSent, Seen
    <2> QED
      BY <1>d, <1>e, <1>f, <2>1 DEF AnsweredAreDone
  <1>5. AnsweredEditNeverResurfaces'
    BY <1>e, <1>f DEF AnsweredEditNeverResurfaces
  <1>6. FreshForms'
    <2>1. \A base \in Posts \cup {None} : Past(base) => Past(base)'
      BY <1>e, <1>f DEF Past
    <2>2. \A u \in Tabs : tabs'[u] # None =>
            Past(tabs[u].base)' /\ Fresh(tabs[u].route, tabs[u].base, tabs[u].shown)'
      BY <1>f, <1>g, <2>1 DEF FreshForms, Fresh, Page
    <2>3. ASSUME NEW q \in Posts \ {p}, stage'[q] = "pending"
          PROVE  /\ Past(content[q].base)'
                 /\ content'[q].untouched =>
                      Fresh(content[q].route, content[q].base, content[q].form)'
      <3>1. content[q] \in Post /\ stage[q] = "pending" /\ content'[q] = content[q]
        BY <1>e, <2>3 DEF PostsAreSent, TypeOK
      <3> QED
        BY <1>f, <2>1, <3>1 DEF FreshForms, Fresh, Post
    <2>4. /\ Past(content[p].base)'
          /\ content'[p].untouched => Fresh(content[p].route, content[p].base, content[p].form)'
      BY <1>a, <1>d, <1>f, <2>1, NoneAssumption DEF FreshForms, Fresh, Page
    <2> QED
      BY <2>2, <2>3, <2>4 DEF FreshForms
  <1> QED
    BY <1>1, <1>2, <1>3, <1>4, <1>5, <1>6

\* The save: the row becomes what the form binds to, its writer the POST.
LEMMA SaveInv ==
  ASSUME IInv, NEW p \in Posts, Save(p)
  PROVE  IInv'
  <1> USE DEF IInv
  <1> DEFINE r == content[p].route
             row == Bind(content[p].form)
  <1>a. stage[p] = "pending" /\ content[p] \in Post /\ r \in Routes
    BY DEF Save, Sleeping, PostsAreSent, TypeOK, Post
  <1>b. row \in Row /\ DistanceFits(r, row)
    BY <1>a, BindType DEF Save, Post, DistanceFits
  <1>c. /\ table' = [table EXCEPT ![r] = row]
        /\ writer' = [writer EXCEPT ![r] = p]
        /\ stage' = [stage EXCEPT ![p] = "saved"]
        /\ UNCHANGED <<tabs, content, heard>>
    BY DEF Save, Modified
  <1>d. /\ table'[r] = row /\ writer'[r] = p /\ stage'[p] = "saved"
        /\ \A s \in Routes \ {r} : table'[s] = table[s] /\ writer'[s] = writer[s]
        /\ \A q \in Posts \ {p} : stage'[q] = stage[q]
    BY <1>a, <1>c DEF TypeOK
  <1> HIDE DEF r, row
  <1>1. TypeOK'
    BY <1>a, <1>b, <1>c DEF TypeOK, Stages
  <1>2. PostsAreSent'
    BY <1>a, <1>c, <1>d DEF PostsAreSent
  <1>3. RowIsOneForm'
    <2>1. /\ stage'[writer'[r]] = "saved"
          /\ content'[writer'[r]].route = r
          /\ table'[r] = Bind(content'[writer'[r]].form)
      BY <1>c, <1>d DEF r, row
    <2>2. ASSUME NEW s \in Routes \ {r}, writer'[s] # None
          PROVE  /\ stage'[writer'[s]] = "saved"
                 /\ content'[writer'[s]].route = s
                 /\ table'[s] = Bind(content'[writer'[s]].form)
      <3>1. writer[s] = writer'[s] /\ writer[s] \in Posts \ {p}
        BY <1>a, <1>d, <2>2 DEF RowIsOneForm, TypeOK
      <3> QED
        BY <1>c, <1>d, <2>2, <3>1 DEF RowIsOneForm
    <2> QED
      BY <2>1, <2>2 DEF RowIsOneForm
  <1>4. AnsweredAreDone'
    BY <1>a, <1>c, <1>d DEF AnsweredAreDone
  <1>5. AnsweredEditNeverResurfaces'
    <2>1. \A q \in Posts : stage[q] # "unsent" => p \notin content[q].answered
      BY <1>a DEF AnsweredAreDone
    <2> SUFFICES ASSUME NEW q \in Posts, NEW w \in Posts, stage'[q] = "saved",
                        w \in content[q].answered
                 PROVE  writer'[content[q].route] # w
      BY <1>c DEF AnsweredEditNeverResurfaces
    <2>2. stage[q] # "unsent" /\ w # p /\ content[q].route \in Routes
      BY <1>a, <1>d, <2>1 DEF PostsAreSent, TypeOK, Post
    <2>3. CASE content[q].route = r
      BY <1>d, <2>2, <2>3
    <2>4. CASE content[q].route # r
      <3>1. q # p
        BY <2>4 DEF r
      <3> QED
        BY <1>d, <2>2, <2>4, <3>1 DEF AnsweredEditNeverResurfaces
    <2> QED
      BY <2>3, <2>4
  <1>6. FreshForms'
    <2>1. \A base \in Posts \cup {None} : Past(base) => base # p /\ Past(base)'
      BY <1>a, <1>d, NoneAssumption DEF Past
    <2>2. ASSUME NEW s \in Routes, NEW base \in Posts \cup {None}, NEW form,
                 base # p, Fresh(s, base, form)
          PROVE  Fresh(s, base, form)'
      BY <1>d, <2>2 DEF Fresh
    <2>3. \A t \in Tabs : tabs'[t] # None =>
            Past(tabs[t].base)' /\ Fresh(tabs[t].route, tabs[t].base, tabs[t].shown)'
      BY <1>c, <1>d, <2>1 DEF FreshForms, Fresh, TypeOK, Page
    <2>4. \A q \in Posts : stage'[q] = "pending" =>
            /\ Past(content[q].base)'
            /\ content'[q].untouched =>
                 Fresh(content[q].route, content[q].base, content[q].form)'
      <3> SUFFICES ASSUME NEW q \in Posts, stage'[q] = "pending"
                   PROVE  /\ Past(content[q].base)'
                          /\ content'[q].untouched =>
                               Fresh(content[q].route, content[q].base, content[q].form)'
        OBVIOUS
      <3>1. stage[q] = "pending" /\ content[q] \in Post /\ content'[q] = content[q]
        BY <1>c, <1>d DEF PostsAreSent, TypeOK
      <3> QED
        BY <1>d, <2>1, <3>1 DEF FreshForms, Fresh, Post
    <2> QED
      BY <2>3, <2>4 DEF FreshForms
  <1> QED
    BY <1>1, <1>2, <1>3, <1>4, <1>5, <1>6

\* A POST that ends without a save leaves no trace in the table.
LEMMA EndUnsavedInv ==
  ASSUME IInv, NEW p \in Posts, Reject(p) \/ Drop(p)
  PROVE  IInv'
  <1> USE DEF IInv
  <1>a. /\ stage[p] = "pending" /\ UNCHANGED <<table, tabs, content, heard, writer>>
        /\ stage' = [stage EXCEPT ![p] = "rejected"]
           \/ stage' = [stage EXCEPT ![p] = "dropped"]
    BY DEF Reject, Drop, Sleeping
  <1>b. /\ stage'[p] \in {"rejected", "dropped"}
        /\ \A q \in Posts \ {p} : stage'[q] = stage[q]
    BY <1>a DEF TypeOK
  <1>1. TypeOK'
    BY <1>a DEF TypeOK, Stages
  <1>2. PostsAreSent'
    BY <1>a, <1>b DEF PostsAreSent
  <1>3. RowIsOneForm'
    BY <1>a, <1>b DEF RowIsOneForm, TypeOK
  <1>4. AnsweredAreDone' /\ AnsweredEditNeverResurfaces'
    BY <1>a, <1>b DEF AnsweredAreDone, AnsweredEditNeverResurfaces
  <1>5. FreshForms'
    <2>1. \A base \in Posts \cup {None} : Past(base) => Past(base)'
      BY <1>a, <1>b, NoneAssumption DEF Past
    <2>2. \A t \in Tabs : tabs[t] # None => tabs[t].base \in Posts \cup {None}
      BY DEF TypeOK, Page
    <2>3. \A q \in Posts : stage[q] = "pending" => content[q].base \in Posts \cup {None}
      BY DEF PostsAreSent, TypeOK, Post
    <2> QED
      BY <1>a, <1>b, <2>1, <2>2, <2>3 DEF FreshForms, Fresh
  <1> QED
    BY <1>1, <1>2, <1>3, <1>4, <1>5

\* What a page hears of a POST touches neither the table nor the stages.
LEMMA ReturnInv ==
  ASSUME IInv, NEW p \in Posts, Return(p)
  PROVE  IInv'
  <1> USE DEF IInv
  <1> DEFINE t == content[p].tab
  <1>a. /\ heard[p] = "nothing" /\ stage[p] # "unsent" /\ UNCHANGED <<table, content, stage, writer>>
        /\ content[p] \in Post /\ t \in Tabs /\ tabs[t] \in Page
    BY DEF Return, Answer, Break, PostsAreSent, TypeOK, Post
  <1>b. \E news \in {"saved", "rejected", "failed"} :
          /\ news # "failed" => stage[p] = news
          /\ heard' = [heard EXCEPT ![p] = news]
    BY DEF Return, Answer, Break
  <1>c. /\ heard'[p] \in {"saved", "rejected", "failed"}
        /\ heard'[p] # "failed" => stage[p] = heard'[p]
        /\ \A q \in Posts \ {p} : heard'[q] = heard[q]
        /\ heard' \in [Posts -> Hearings]
    BY <1>b DEF TypeOK, Hearings
  <1>d. /\ tabs'[t] \in Page /\ tabs'[t].base = tabs[t].base
        /\ tabs'[t].route = tabs[t].route /\ tabs'[t].shown = tabs[t].shown
        /\ \A u \in Tabs \ {t} : tabs'[u] = tabs[u]
        /\ tabs' = [u \in Tabs |-> tabs'[u]]
    <2>1. CASE Answer(p)
      <3>1. tabs'[t] = [tabs[t] EXCEPT !.spinner = FALSE, !.alert = stage[p]]
        BY <1>a, <2>1 DEF Answer, TypeOK
      <3>2. stage[p] \in {"saved", "rejected"}
        BY <2>1 DEF Answer
      <3>3. /\ \A u \in Tabs \ {t} : tabs'[u] = tabs[u]
            /\ tabs' = [u \in Tabs |-> tabs'[u]]
        BY <1>a, <2>1 DEF Answer, TypeOK
      <3> QED
        BY <1>a, <3>1, <3>2, <3>3 DEF Page
    <2>2. CASE Break(p)
      <3>1. tabs'[t] = [tabs[t] EXCEPT !.alert = "failed"]
        BY <1>a, <2>2 DEF Break, TypeOK
      <3>2. /\ \A u \in Tabs \ {t} : tabs'[u] = tabs[u]
            /\ tabs' = [u \in Tabs |-> tabs'[u]]
        BY <1>a, <2>2 DEF Break, TypeOK
      <3> QED
        BY <1>a, <3>1, <3>2 DEF Page
    <2> QED
      BY <2>1, <2>2 DEF Return
  <1> HIDE DEF t
  <1>1. TypeOK'
    BY <1>a, <1>c, <1>d DEF TypeOK
  <1>2. PostsAreSent'
    <2>1. \A u \in Tabs : tabs[u] # None => tabs'[u] # None
      BY <1>d, NoneAssumption
    <2>2. \A q \in Posts : content[q] # None => content[q].tab \in Tabs
      BY DEF TypeOK, Post
    <2> QED
      BY <1>a, <1>c, <2>1, <2>2 DEF PostsAreSent
  <1>3. RowIsOneForm' /\ AnsweredAreDone' /\ AnsweredEditNeverResurfaces'
    BY <1>a DEF RowIsOneForm, AnsweredAreDone, AnsweredEditNeverResurfaces
  <1>4. FreshForms'
    BY <1>a, <1>d, NoneAssumption DEF FreshForms, Fresh, Past
  <1> QED
    BY <1>1, <1>2, <1>3, <1>4

\* Closing an alert changes the page's alert alone.
LEMMA CloseAlertInv ==
  ASSUME IInv, NEW t \in Tabs, CloseAlert(t)
  PROVE  IInv'
  <1> USE DEF IInv
  <1>a. tabs[t] \in Page /\ UNCHANGED <<table, content, stage, heard, writer>>
    BY DEF CloseAlert, TypeOK
  <1>b. /\ tabs'[t] \in Page /\ tabs'[t].base = tabs[t].base
        /\ tabs'[t].route = tabs[t].route /\ tabs'[t].shown = tabs[t].shown
        /\ \A u \in Tabs \ {t} : tabs'[u] = tabs[u]
        /\ tabs' = [u \in Tabs |-> tabs'[u]]
    <2>1. tabs'[t] = [tabs[t] EXCEPT !.alert = "none"]
      BY DEF CloseAlert, TypeOK
    <2>2. /\ \A u \in Tabs \ {t} : tabs'[u] = tabs[u]
          /\ tabs' = [u \in Tabs |-> tabs'[u]]
      BY DEF CloseAlert, TypeOK
    <2> QED
      BY <1>a, <2>1, <2>2 DEF Page
  <1>1. TypeOK'
    BY <1>a, <1>b DEF TypeOK
  <1>2. PostsAreSent'
    <2>1. \A u \in Tabs : tabs[u] # None => tabs'[u] # None
      BY <1>b, NoneAssumption
    <2>2. \A q \in Posts : content[q] # None => content[q].tab \in Tabs
      BY DEF TypeOK, Post
    <2> QED
      BY <1>a, <2>1, <2>2 DEF PostsAreSent
  <1>3. RowIsOneForm' /\ AnsweredAreDone' /\ AnsweredEditNeverResurfaces'
    BY <1>a DEF RowIsOneForm, AnsweredAreDone, AnsweredEditNeverResurfaces
  <1>4. FreshForms'
    BY <1>a, <1>b, NoneAssumption DEF FreshForms, Fresh, Past
  <1> QED
    BY <1>1, <1>2, <1>3, <1>4

\* A page that is left waits for nothing.
LEMMA LeaveInv ==
  ASSUME IInv, NEW t \in Tabs, Leave(t)
  PROVE  IInv'
  <1> USE DEF IInv
  <1>1. TypeOK'
    BY DEF Leave, Abandon, TypeOK, Hearings
  <1>2. PostsAreSent'
    BY DEF Leave, Abandon, Awaited, PostsAreSent, TypeOK
  <1>3. RowIsOneForm' /\ AnsweredAreDone' /\ AnsweredEditNeverResurfaces'
    BY DEF Leave, RowIsOneForm, AnsweredAreDone, AnsweredEditNeverResurfaces
  <1>4. FreshForms'
    BY DEF Leave, FreshForms, Fresh, Past, TypeOK
  <1> QED
    BY <1>1, <1>2, <1>3, <1>4
-----------------------------------------------------------------------------
THEOREM NextInv == IInv /\ [Next]_vars => IInv'
  <1> SUFFICES ASSUME IInv, [Next]_vars PROVE IInv'
    OBVIOUS
  <1>1. ASSUME NEW t \in Tabs, NEW r \in Routes, OpenForm(t, r) PROVE IInv'
    BY <1>1, OpenFormInv
  <1>2. ASSUME NEW t \in Tabs, NEW p \in Posts, Submit(t, p) PROVE IInv'
    BY <1>2, SubmitInv
  <1>3. ASSUME NEW p \in Posts, Serve(p) PROVE IInv'
    BY <1>3, SaveInv, EndUnsavedInv DEF Serve
  <1>4. ASSUME NEW p \in Posts, Return(p) PROVE IInv'
    BY <1>4, ReturnInv
  <1>5. ASSUME NEW t \in Tabs, CloseAlert(t) \/ Leave(t) PROVE IInv'
    BY <1>5, CloseAlertInv, LeaveInv
  <1>6. CASE UNCHANGED vars
    BY <1>6 DEF vars, IInv, TypeOK, PostsAreSent, RowIsOneForm, AnsweredAreDone,
                AnsweredEditNeverResurfaces, FreshForms, Fresh, Past
  <1> QED
    BY <1>1, <1>2, <1>3, <1>4, <1>5, <1>6 DEF Next

THEOREM Invariance == Spec => []IInv
  BY InitInv, NextInv, PTL DEF Spec

\* No row, page or POST ever leaves its type: a row with a blank name or an
\* unreadable date is never stored (RouteMap, SQL Server), nor one with a distance
\* from beyond the spinner (Edit.cshtml).
THEOREM TypeCorrect == Spec => []TypeOK
  <1>1. IInv => TypeOK
    BY DEF IInv
  <1> QED
    BY <1>1, Invariance, PTL

\* An edited row is the binder's reading of one saved POST's form, whatever
\* the overlap of the POSTs (RoutesController.Edit, DefaultRoutesService.Update).
THEOREM RowsAreWhole == Spec => []RowIsOneForm
  <1>1. IInv => RowIsOneForm
    BY DEF IInv
  <1> QED
    BY <1>1, Invariance, PTL

\* An edit the user saw answered before sending a later one of the same row
\* never overwrites the later one.
THEOREM AnsweredEditsStayBuried == Spec => []AnsweredEditNeverResurfaces
  <1>1. IInv => AnsweredEditNeverResurfaces
    BY DEF IInv
  <1> QED
    BY <1>1, Invariance, PTL

\* Accepting an up-to-date form without touching it changes nothing the form
\* shows (Edit.cshtml and the model binder fit together).
THEOREM UntouchedHarmless == Spec => UntouchedFormIsHarmless
  <1> DEFINE Harmless(p) ==
        LET r == content[p].route
        IN ( /\ stage[p] = "pending" /\ stage'[p] = "saved"
             /\ content[p].untouched
             /\ content[p].base = writer[r] )
           => Render(table'[r]) = Render(table[r])
  <1>1. ASSUME IInv, [Next]_vars, NEW p \in Posts PROVE Harmless(p)
    <2> SUFFICES ASSUME stage[p] = "pending", stage'[p] = "saved", content[p].untouched,
                        content[p].base = writer[content[p].route]
                 PROVE  Render(table'[content[p].route]) = Render(table[content[p].route])
      OBVIOUS
    <2>1. content[p] \in Post
      BY <1>1 DEF IInv, TypeOK, PostsAreSent
    <2>2. Save(p)
      BY <1>1 DEF IInv, TypeOK, Next, vars, OpenForm, Submit, Serve, Save, Reject, Drop,
                  Return, Answer, Break, CloseAlert, Leave, Sleeping
    <2>3. table'[content[p].route] = Bind(content[p].form)
      BY <1>1, <2>1, <2>2 DEF IInv, TypeOK, Save, Modified, Post
    <2>4. /\ table[content[p].route] \in Row
          /\ content[p].form = Render(table[content[p].route])
      BY <1>1, <2>1 DEF IInv, TypeOK, FreshForms, Fresh, Post
    <2> QED
      BY <2>3, <2>4, RoundTrip
  <1>2. IInv /\ [Next]_vars => [\A p \in Posts : Harmless(p)]_vars
    BY <1>1
  <1> QED
    BY <1>2, Invariance, PTL DEF Spec, UntouchedFormIsHarmless

-----------------------------------------------------------------------------
(***************************************************************************)
(* A POST is a unit of work of its own: while it is under way it has been  *)
(* handed the row its form binds to, and it forgets it only if it is       *)
(* rejected or dropped.                                                    *)
(***************************************************************************)
\* What a form binds to, storable or not.
Entity == [name : Names \cup {Blank}, distance : Nat,
           day : Days \cup {NoDate}, time : {"midnight", "later"},
           createdBy : Users \cup {None}, isDeleted : BOOLEAN]

Handed(p) == [r \in Routes |-> IF stage[p] = "pending" /\ content[p].route = r
                               THEN Bind(content[p].form) ELSE None]

Unit == INSTANCE AtomicTable WITH
  Ids <- Routes, Values <- Entity, New <- {}, Content <- <<>>, Units <- Posts,
  changes <- [p \in Posts |-> Handed(p)],
  creations <- [p \in Posts |-> {}],
  disposed <- {p \in Posts : stage[p] \in {"rejected", "dropped"}}

abstract == <<table, [p \in Posts |-> Handed(p)], [p \in Posts |-> {}],
              {p \in Posts : stage[p] \in {"rejected", "dropped"}}>>

\* Steps that neither write nor send.
LEMMA PageStepsStutter ==
  ASSUME UNCHANGED <<table, content, stage>>
  PROVE  UNCHANGED abstract
  BY DEF abstract, Handed

\* A step of POST p and its unit.
LEMMA UnitKeeps ==
  ASSUME NEW p \in Posts, NEW ch,
         \A q \in Posts : Handed(q)' = IF q = p THEN ch ELSE Handed(q)
  PROVE  Unit!Keep(p, ch, {})
  BY DEF Unit!Keep

\* Sending a POST hands over one row.
LEMMA SubmitCalls ==
  ASSUME IInv, NEW t \in Tabs, NEW p \in Posts, Submit(t, p)
  PROVE  Unit!Next
  <1>1. PICK form \in Edits(tabs[t].shown) :
          content' = [content EXCEPT ![p] =
            [tab |-> t, route |-> tabs[t].route, form |-> form,
             untouched |-> (form = tabs[t].shown), base |-> tabs[t].base,
             answered |-> {q \in Posts : heard[q] \in {"saved", "rejected"}}]]
    BY DEF Submit
  <1>2. /\ stage[p] = "unsent" /\ stage' = [stage EXCEPT ![p] = "pending"]
        /\ UNCHANGED table /\ tabs[t] \in Page
    BY DEF Submit, IInv, TypeOK
  <1>3. form \in Form
    BY <1>2, EditsType DEF Page
  <1>4. /\ content'[p].form = form /\ stage'[p] = "pending"
        /\ \A q \in Posts \ {p} : content'[q] = content[q] /\ stage'[q] = stage[q]
    BY <1>1, <1>2 DEF IInv, TypeOK
  <1> DEFINE ch == Handed(p)'
  <1>5. ch \in Unit!Changes
    BY <1>3, <1>4, DistanceAssumption DEF Handed, Bind, Form, Entity, Unit!Changes
  <1>6. \A q \in Posts : Handed(q)' = IF q = p THEN ch ELSE Handed(q)
    BY <1>4 DEF Handed
  <1>7. Handed(p) = [r \in Routes |-> None]
    BY <1>2 DEF Handed
  <1> HIDE DEF ch
  <1>8. Unit!Keep(p, ch, {})
    BY <1>6, UnitKeeps
  <1>9. UNCHANGED {q \in Posts : stage[q] \in {"rejected", "dropped"}}
    BY <1>2, <1>4
  <1>10. Unit!Call(p)
    BY <1>2, <1>5, <1>7, <1>8, <1>9 DEF Unit!Call
  <1> QED
    BY <1>2, <1>10 DEF Unit!Next

\* The action after its sleep writes what was handed over, and all of it.
LEMMA SaveCalls ==
  ASSUME IInv, NEW p \in Posts, Save(p)
  PROVE  Unit!Next
  <1> DEFINE r == content[p].route
             row == Bind(content[p].form)
             ch == Handed(p)
             none == [s \in Routes |-> None]
  <1>1. stage[p] = "pending" /\ content[p] \in Post /\ r \in Routes /\ row \in Row
    BY BindType DEF Save, Sleeping, IInv, PostsAreSent, TypeOK, Post
  <1>2. /\ table' = [table EXCEPT ![r] = row] /\ UNCHANGED content
        /\ stage' = [stage EXCEPT ![p] = "saved"]
    BY DEF Save, Modified
  <1>3. ch \in Unit!Changes /\ none \in Unit!Changes
    BY <1>1 DEF Handed, Row, Entity, Unit!Changes
  <1>4. \A s \in Routes : table'[s] = IF ch[s] # None THEN ch[s] ELSE table[s]
    BY <1>1, <1>2, NoneAssumption DEF IInv, TypeOK, Handed
  <1>5. \A q \in Posts : Handed(q)' = IF q = p THEN none ELSE Handed(q)
    BY <1>2 DEF IInv, TypeOK, Handed
  <1>6. {q \in Posts : stage'[q] \in {"rejected", "dropped"}}
        = {q \in Posts : stage[q] \in {"rejected", "dropped"}}
    BY <1>1, <1>2 DEF IInv, TypeOK
  <1>7. table' = [s \in Routes |-> table'[s]]
    BY <1>2 DEF IInv, TypeOK
  <1> HIDE DEF ch, none, row, r
  <1>8. Unit!Keep(p, none, {})
    BY <1>5, UnitKeeps
  <1>9. \E place \in Unit!Injection({}, {s \in Routes : table[s] = None}) :
          table' = Unit!Written(ch, {}, place)
    <2> DEFINE place == [o \in {} |-> None]
    <2>1. place \in Unit!Injection({}, {s \in Routes : table[s] = None})
      BY DEF Unit!Injection, Unit!IsInjective
    <2>2. table' = Unit!Written(ch, {}, place)
      BY <1>4, <1>7 DEF Unit!Written
    <2> QED
      BY <2>1, <2>2
  <1>10. Unit!Call(p)
    <2>1. Handed(p) = ch /\ Unit!Nothing = none
      BY DEF ch, none, Unit!Nothing
    <2> QED
      BY <1>3, <1>6, <1>8, <1>9, <2>1 DEF Unit!Call
  <1> QED
    BY <1>1, <1>10 DEF Unit!Next

\* A POST that is rejected or dropped forgets, and nobody else does.
LEMMA EndUnsavedForgets ==
  ASSUME IInv, NEW p \in Posts, Reject(p) \/ Drop(p)
  PROVE  Unit!Next
  <1>1. PICK end \in {"rejected", "dropped"} :
          /\ stage[p] = "pending" /\ stage' = [stage EXCEPT ![p] = end]
          /\ UNCHANGED <<table, content>>
    BY DEF Reject, Drop, Sleeping
  <1>2. \A q \in Posts : Handed(q)' = IF q = p THEN Unit!Nothing ELSE Handed(q)
    BY <1>1 DEF IInv, TypeOK, Handed, Unit!Nothing
  <1>3. {q \in Posts : stage'[q] \in {"rejected", "dropped"}}
        = {q \in Posts : stage[q] \in {"rejected", "dropped"}} \cup {p}
    BY <1>1 DEF IInv, TypeOK
  <1>4. Unit!Forget(p)
    BY <1>1, <1>2, <1>3, UnitKeeps DEF Unit!Forget
  <1> QED
    BY <1>1, <1>4 DEF Unit!Next

\* Editing implements the atomic table: however POSTs overlap, what a form
\* binds to is written whole, at once, or not at all, and no POST forgets it
\* before that unless the action rejects it or never runs.
THEOREM EditsAreAtomic == Spec => Unit!Spec
  <1>1. Init => Unit!Init
    <2> SUFFICES ASSUME Init PROVE Unit!Init
      OBVIOUS
    <2>1. table \in Unit!Changes
      BY SeedAssumption DEF Init, Row, Entity, Unit!Changes
    <2>2. \A p \in Posts : stage[p] = "unsent"
      BY DEF Init
    <2>3. \A p \in Posts : Handed(p) = Unit!Nothing
      BY <2>2 DEF Handed, Unit!Nothing
    <2>4. {p \in Posts : stage[p] \in {"rejected", "dropped"}} = {}
      BY <2>2
    <2> QED
      BY <2>1, <2>3, <2>4 DEF Unit!Init
  <1>2. IInv /\ [Next]_vars => [Unit!Next]_abstract
    <2> SUFFICES ASSUME IInv, [Next]_vars PROVE [Unit!Next]_abstract
      OBVIOUS
    <2>1. ASSUME NEW t \in Tabs, NEW p \in Posts, Submit(t, p) PROVE Unit!Next
      BY <2>1, SubmitCalls
    <2>2. ASSUME NEW p \in Posts, Serve(p) PROVE Unit!Next
      BY <2>2, SaveCalls, EndUnsavedForgets DEF Serve
    <2>3. ASSUME \/ \E t \in Tabs, r \in Routes : OpenForm(t, r)
                 \/ \E p \in Posts : Return(p)
                 \/ \E t \in Tabs : CloseAlert(t) \/ Leave(t)
                 \/ UNCHANGED vars
          PROVE  UNCHANGED abstract
      BY <2>3, PageStepsStutter DEF OpenForm, Return, Answer, Break, CloseAlert, Leave, vars
    <2> QED
      BY <2>1, <2>2, <2>3 DEF Next
  <1> QED
    BY <1>1, <1>2, Invariance, PTL DEF Spec, Unit!Spec, abstract
=============================================================================

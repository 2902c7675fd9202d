------------------------- MODULE ProductList_proofs -------------------------
(***************************************************************************)
(* Proofs about ProductList, for any number of products, pages and calls.  *)
(***************************************************************************)
EXTENDS ProductList, FiniteSetTheorems, TLAPS

\* There is at least one page.
LEMMA UnsentIsCall == Pages # {} => Unsent \in Call
  <1> SUFFICES ASSUME Pages # {} PROVE Unsent \in Call
    OBVIOUS
  <1>1. (CHOOSE p \in Pages : TRUE) \in Pages
    OBVIOUS
  <1> QED
    BY <1>1 DEF Unsent, Call, Kinds, Phases

\* Sending fills an unused call, which is nobody's last word.
LEMMA SendInv ==
  ASSUME IInv, NEW c \in Calls, NEW p \in Pages, NEW kind \in Kinds, NEW ids \in SUBSET Ids,
         NEW object \in (Calls \X Ids) \cup {<<>>},
         kind = "remove" <=> object # <<>>,
         Send(c, p, kind, ids, object),
         rows' \in [Pages -> SUBSET Row],
         awaited' \subseteq awaited \cup {c},
         stale' \subseteq Pages
  PROVE  IInv'
  <1> USE DEF IInv
  <1>1. /\ call[c].phase = "unsent"
        /\ call' = [call EXCEPT ![c] = [kind |-> kind, page |-> p, phase |-> "sent",
                                        ids |-> ids, object |-> object]]
        /\ UNCHANGED <<working, committed, last>>
    BY DEF Send
  <1>2. TypeOK'
    BY <1>1 DEF TypeOK, Call, Phases
  <1>3. \A i \in Ids : last[i] # c
    BY <1>1 DEF LastWordStands
  <1> QED
    BY <1>1, <1>2, <1>3 DEF LastWordStands, LastWordCounts, TypeOK

\* The page's own steps.
LEMMA PageInv ==
  ASSUME IInv, NEW p \in Pages, NEW c \in Calls,
         \/ Open(p, c) \/ AddProduct(p, c) \/ RemoveAll(p, c)
         \/ \E row \in rows[p] : RemoveProduct(p, c, row)
  PROVE  IInv'
  <1> USE DEF IInv
  <1>1. CASE Open(p, c)
    <2>1. /\ rows' \in [Pages -> SUBSET Row]
          /\ awaited' \subseteq awaited \cup {c}
          /\ stale' \subseteq Pages
      BY <1>1 DEF Open, TypeOK
    <2> QED
      BY <1>1, <2>1, SendInv DEF Open, Kinds
  <1>2. CASE AddProduct(p, c)
    <2>1. /\ rows' \in [Pages -> SUBSET Row]
          /\ awaited' \subseteq awaited \cup {c}
          /\ stale' \subseteq Pages
      BY <1>2 DEF AddProduct, TypeOK
    <2> QED
      BY <1>2, <2>1, SendInv DEF AddProduct, Kinds
  <1>3. CASE RemoveAll(p, c)
    BY <1>3, SendInv DEF RemoveAll, Kinds, TypeOK
  <1>4. ASSUME NEW row \in rows[p], RemoveProduct(p, c, row) PROVE IInv'
    <2>1. row \in Row
      BY DEF TypeOK
    <2>2. {row.id} \in SUBSET Ids /\ Object(row) \in Calls \X Ids /\ Object(row) # <<>>
      BY <2>1 DEF Row, Object
    <2> QED
      BY <1>4, <2>2, SendInv DEF RemoveProduct, Kinds, TypeOK
  <1> QED
    BY <1>1, <1>2, <1>3, <1>4

\* Steps that leave the index, the calls and the last words alone.
LEMMA ViewInv ==
  ASSUME IInv, UNCHANGED <<working, committed, call, last>>,
         awaited' \subseteq awaited, rows' \in [Pages -> SUBSET Row], stale' \subseteq Pages
  PROVE  IInv'
  BY DEF IInv, TypeOK, LastWordStands, LastWordCounts

\* Push, Drop, Alert, Break and the editing of an id.
LEMMA CallbackInv ==
  ASSUME IInv,
         \/ \E c \in Calls : Push(c) \/ Drop(c) \/ Alert(c) \/ Break(c)
         \/ \E p \in Pages : \E row \in rows[p], i \in Ids : EditId(p, row, i)
  PROVE  IInv'
  <1> USE DEF IInv
  <1>1. ASSUME NEW c \in Calls, Push(c) PROVE IInv'
    <2>1. call[c] \in Call
      BY DEF TypeOK
    <2>2. Pushed(c) \subseteq Row
      BY <2>1 DEF Pushed, Row, Call
    <2> QED
      BY <1>1, <2>1, <2>2, ViewInv DEF Push, TypeOK
  <1>2. ASSUME NEW c \in Calls, Drop(c) PROVE IInv'
    <2>1. rows' \in [Pages -> SUBSET Row]
      BY <1>2 DEF Drop, TypeOK
    <2> QED
      BY <1>2, <2>1, ViewInv DEF Drop, TypeOK
  <1>3. ASSUME NEW c \in Calls, Alert(c) \/ Break(c) PROVE IInv'
    <2>1. call[c].page \in Pages
      BY DEF TypeOK, Call
    <2> QED
      BY <1>3, <2>1, ViewInv DEF Alert, Break, TypeOK
  <1>4. ASSUME NEW p \in Pages, NEW row \in rows[p], NEW i \in Ids, EditId(p, row, i) PROVE IInv'
    <2>1. row \in Row
      BY DEF TypeOK
    <2>2. [row EXCEPT !.id = i] \in Row
      BY <2>1 DEF Row
    <2> QED
      BY <1>4, <2>2, ViewInv DEF EditId, TypeOK
  <1> QED
    BY <1>1, <1>2, <1>3, <1>4

\* Reading, committing and failing.
LEMMA ServeInv ==
  ASSUME IInv, NEW c \in Calls, Read(c) \/ Commit(c) \/ Fail(c)
  PROVE  IInv'
  <1> USE DEF IInv
  <1>1. call[c] \in Call
    BY DEF TypeOK
  <1>2. CASE Read(c)
    <2>1. TypeOK'
      BY <1>1, <1>2 DEF Read, TypeOK, Call, Phases
    <2>2. \A i \in Ids : last[i] # c
      BY <1>2 DEF Read, LastWordStands
    <2> QED
      BY <1>2, <2>1, <2>2 DEF Read, LastWordStands, LastWordCounts, TypeOK
  <1>3. CASE Commit(c)
    <2>1. TypeOK'
      BY <1>1, <1>3 DEF Commit, TypeOK, Call, Phases
    <2>2. LastWordStands'
      BY <1>3 DEF Commit, LastWordStands, TypeOK
    <2>3. LastWordCounts'
      BY <1>3, <2>2 DEF Commit, LastWordStands, LastWordCounts, TypeOK
    <2> QED
      BY <2>1, <2>2, <2>3
  <1>4. CASE Fail(c)
    <2>1. TypeOK'
      BY <1>1, <1>4 DEF Fail, Running, TypeOK, Call, Phases
    <2> QED
      BY <1>4, <2>1 DEF Fail, LastWordStands, LastWordCounts, TypeOK
  <1> QED
    BY <1>2, <1>3, <1>4

\* A change makes its call the last word of what it changes.
LEMMA ChangeInv ==
  ASSUME IInv, NEW c \in Calls, Add(c) \/ Delete(c) \/ DeleteAll(c)
  PROVE  IInv'
  <1> USE DEF IInv
  <1>1. call[c] \in Call
    BY DEF TypeOK
  <1>2. \A i \in Ids : last[i] # c
    BY DEF Add, Delete, DeleteAll, LastWordStands
  <1>3. CASE Add(c)
    <2>1. PICK i \in Ids :
            /\ working' = working \cup {i}
            /\ call' = [call EXCEPT ![c].phase = "changed", ![c].ids = {i}]
            /\ last' = [last EXCEPT ![i] = c]
            /\ stale' = IF i \in Seeded \/ last[i] # None THEN Pages
                        ELSE stale \cup (Pages \ {call[c].page})
      BY <1>3 DEF Add
    <2>2. call' = [call EXCEPT ![c] = [call[c] EXCEPT !.phase = "changed", !.ids = {i}]]
      BY <1>1, <2>1 DEF TypeOK, Call
    <2>3. [call[c] EXCEPT !.phase = "changed", !.ids = {i}] \in Call
      BY <1>1 DEF Call, Phases
    <2>4. call' \in [Calls -> Call] /\ stale' \subseteq Pages
      BY <2>1, <2>2, <2>3 DEF TypeOK
    <2>5. /\ call'[c].kind = "add" /\ call'[c].phase = "changed"
          /\ call'[c].object = call[c].object
          /\ \A d \in Calls \ {c} : call'[d] = call[d]
      BY <1>1, <1>3, <2>2 DEF Add, TypeOK, Call
    <2>6. TypeOK'
      BY <1>3, <2>1, <2>4, <2>5 DEF Add, TypeOK
    <2>7. LastWordStands'
      <3> SUFFICES ASSUME NEW j \in Ids, NEW d \in Calls, last'[j] = d
                   PROVE  /\ call'[d].phase \in {"changed", "done", "failed"}
                          /\ j \in working' <=> call'[d].kind = "add"
        BY DEF LastWordStands
      <3>1. CASE j = i
        BY <2>1, <2>5, <3>1 DEF TypeOK
      <3>2. CASE j # i
        BY <1>2, <2>1, <2>5, <3>2 DEF TypeOK, LastWordStands
      <3> QED
        BY <3>1, <3>2
    <2>8. LastWordCounts'
      <3> SUFFICES ASSUME NEW j \in Ids, NEW d \in Calls, last'[j] = d,
                          call'[d].phase = "done"
                   PROVE  j \in committed' <=> call'[d].kind = "add"
        BY DEF LastWordCounts
      <3>1. d # c /\ j # i
        BY <2>1, <2>5 DEF TypeOK
      <3> QED
        <4>1. committed' = committed /\ last[j] = d /\ call'[d] = call[d]
          BY <1>3, <2>1, <2>5, <3>1 DEF Add, TypeOK
        <4> QED
          BY <4>1 DEF LastWordCounts
    <2> QED
      BY <2>6, <2>7, <2>8
  <1>4. CASE Delete(c)
    <2>1. TypeOK'
      BY <1>1, <1>4 DEF Delete, TypeOK, Call, Phases
    <2> QED
      BY <1>2, <1>4, <2>1 DEF Delete, LastWordStands, LastWordCounts, TypeOK
  <1>5. CASE DeleteAll(c)
    <2>1. TypeOK'
      BY <1>1, <1>5 DEF DeleteAll, TypeOK, Call, Phases
    <2> QED
      BY <1>2, <1>5, <2>1 DEF DeleteAll, LastWordStands, LastWordCounts, TypeOK
  <1> QED
    BY <1>3, <1>4, <1>5

\* Solr's own commit makes visible what obeys the last words already.
LEMMA AutoCommitInv == IInv /\ AutoCommit => IInv'
  BY DEF IInv, AutoCommit, TypeOK, LastWordStands, LastWordCounts
-----------------------------------------------------------------------------
\* No product has a last word yet.
THEOREM InitInv == Init => IInv
  <1> SUFFICES ASSUME Init PROVE IInv
    OBVIOUS
  <1>1. Unsent \in Call /\ Unsent.object = <<>> /\ Unsent.kind = "list"
    BY PageAssumption, UnsentIsCall DEF Unsent
  <1> QED
    BY <1>1, SeedAssumption, NoneAssumption DEF Init, IInv, TypeOK, LastWordStands, LastWordCounts

\* Every step keeps the invariant: one case per group of actions.
THEOREM NextInv == IInv /\ [Next]_vars => IInv'
  <1> SUFFICES ASSUME IInv, [Next]_vars PROVE IInv'
    OBVIOUS
  <1>1. ASSUME NEW p \in Pages, NEW c \in Calls,
               \/ Open(p, c) \/ AddProduct(p, c) \/ RemoveAll(p, c)
               \/ \E row \in rows[p] : RemoveProduct(p, c, row)
        PROVE  IInv'
    BY <1>1, PageInv
  <1>2. ASSUME NEW p \in Pages, NEW row \in rows[p], NEW i \in Ids, EditId(p, row, i)
        PROVE  IInv'
    BY <1>2, CallbackInv
  <1>3. ASSUME NEW c \in Calls,
               \/ Read(c) \/ Add(c) \/ Delete(c) \/ DeleteAll(c) \/ Commit(c) \/ Fail(c)
               \/ Push(c) \/ Drop(c) \/ Alert(c) \/ Break(c)
        PROVE  IInv'
    BY <1>3, ServeInv, ChangeInv, CallbackInv
  <1>4. CASE AutoCommit
    BY <1>4, AutoCommitInv
  <1>5. CASE UNCHANGED vars
    BY <1>5 DEF vars, IInv, TypeOK, LastWordStands, LastWordCounts
  <1> QED
    BY <1>1, <1>2, <1>3, <1>4, <1>5 DEF Next

\* The inductive invariant holds in every reachable state.
THEOREM Invariance == Spec => []IInv
  BY InitInv, NextInv, PTL DEF Spec

\* Types, for every value of the constants.
THEOREM TypeCorrect == Spec => []TypeOK
  <1>1. IInv => TypeOK
    BY DEF IInv
  <1> QED
    BY <1>1, Invariance, PTL

\* The last finished change of a product decides whether it is in the index.
THEOREM LastWord == Spec => []LastWordCounts
  <1>1. IInv => LastWordCounts
    BY DEF IInv
  <1> QED
    BY <1>1, Invariance, PTL
-----------------------------------------------------------------------------
(***************************************************************************)
(* The pages nothing was done behind the back of.                          *)
(***************************************************************************)
\* A page that waits for its list goes on waiting for it.
LEMMA ListFrame ==
  ASSUME NEW p \in Pages, ListUnderWay(p), working' = working,
         committed' \in {committed, working}, rows'[p] = rows[p],
         \A c \in awaited' : call'[c].page = p =>
           c \in awaited /\ call[c].page = p /\ call'[c] = call[c]
  PROVE  ListUnderWay(p)'
  BY DEF ListUnderWay

\* A page that has its list, when nothing it shows or waits for moves on.
LEMMA RowsFrame ==
  ASSUME NEW p \in Pages, RowsInOrder(p), CallsInOrder(p),
         UNCHANGED <<working, last>>, rows'[p] = rows[p],
         Coming(p)' = Coming(p), Going(p)' = Going(p), Removing(p)' \subseteq Removing(p),
         \A c \in Coming(p) \cup Removing(p) :
           call'[c].ids = call[c].ids /\ call'[c].object = call[c].object
  PROVE  RowsInOrder(p)' /\ CallsInOrder(p)'
  <1>1. \A i : Known(i)' <=> Known(i)
    BY DEF Known
  <1>2. \A c \in Removing(p)' : /\ c \in Removing(p)
                                /\ Target(c)' = Target(c)
                                /\ Changed(c)' => Changed(c)
    <2> TAKE c \in Removing(p)'
    <2>1. c \in Removing(p) /\ Target(c)' = Target(c)
      BY DEF Target
    <2>2. Changed(c)' => c \in Going(p)'
      BY DEF Going
    <2> QED
      BY <2>1, <2>2 DEF Going
  <1>3. Going(p) \subseteq Removing(p)
    BY DEF Going
  <1>4. RowsInOrder(p)'
    BY <1>1, <1>3 DEF RowsInOrder, Object
  <1>5. CallsInOrder(p)'
    BY <1>1, <1>2 DEF CallsInOrder, Object
  <1> QED
    BY <1>4, <1>5

\* Steps that leave the page and the calls it waits for alone.
LEMMA Elsewhere ==
  ASSUME TypeOK, NEW p \in Pages, FreshPage(p),
         UNCHANGED <<working, last>>, committed' \in {committed, working},
         rows'[p] = rows[p], awaited' \subseteq Calls,
         \A c \in Calls : call[c].page = p /\ c \in awaited
                          => c \in awaited' /\ call'[c] = call[c],
         \A c \in Calls : call'[c].page = p /\ c \in awaited'
                          => c \in awaited /\ call[c].page = p,
         \A c \in Calls : call'[c].page = p /\ Running(c)' /\ call'[c].kind # "clear"
                          => c \in awaited',
         committed' = working \/ \E c \in Calls : call'[c].phase = "changed"
  PROVE  FreshPage(p)'
  <1>1. awaited \subseteq Calls
    BY DEF TypeOK
  <1>2. Listing(p)' <=> Listing(p)
    BY <1>1 DEF Listing
  <1>3. CASE Listing(p)
    <2>1. ListUnderWay(p)
      BY <1>3 DEF FreshPage
    <2>2. ListUnderWay(p)'
      BY <2>1, ListFrame
    <2> QED
      BY <1>2, <1>3, <2>2 DEF FreshPage
  <1>4. CASE ~Listing(p)
    <2>1. RowsInOrder(p) /\ CallsInOrder(p)
      BY <1>4 DEF FreshPage
    <2>2. \A c \in Calls : c \in awaited' /\ call'[c].page = p
                           <=> c \in awaited /\ call[c].page = p
      BY <1>1 DEF Changed
    <2>3. \A c \in Calls : c \in awaited /\ call[c].page = p => call'[c] = call[c]
      OBVIOUS
    <2>4. Coming(p)' = Coming(p) /\ Removing(p)' = Removing(p)
      BY <1>1, <2>2, <2>3 DEF Coming, Removing, Changed
    <2>5. Going(p)' = Going(p)
      BY <1>1, <2>3, <2>4 DEF Going, Changed, Removing
    <2>6. \A c \in Coming(p) \cup Removing(p) : call'[c] = call[c]
      BY <1>1, <2>3 DEF Coming, Removing
    <2>7. RowsInOrder(p)' /\ CallsInOrder(p)'
      BY <2>1, <2>4, <2>5, <2>6, RowsFrame
    <2> QED
      BY <1>2, <1>4, <2>7 DEF FreshPage
  <1> QED
    BY <1>3, <1>4

\* A step of one call that the page does not wait for.
LEMMA OtherCall ==
  ASSUME TypeOK, NEW p \in Pages, NEW c \in Calls, FreshPage(p),
         UNCHANGED <<working, last>>, committed' \in {committed, working},
         rows'[p] = rows[p], awaited' \subseteq Calls,
         \A d \in Calls \ {c} : /\ call'[d] = call[d]
                                /\ call[d].page = p => (d \in awaited' <=> d \in awaited),
         call[c].page # p \/ c \notin awaited,
         call'[c].page # p \/ (c \notin awaited' /\ (call'[c].kind = "clear" \/ ~Running(c)')),
         committed' = working \/ call'[c].phase = "changed" \/ call[c].phase # "changed"
  PROVE  FreshPage(p)'
  <1>1. \A d \in Calls : call[d].page = p /\ d \in awaited
                         => d \in awaited' /\ call'[d] = call[d]
    OBVIOUS
  <1>2. \A d \in Calls : call'[d].page = p /\ d \in awaited'
                         => d \in awaited /\ call[d].page = p
    OBVIOUS
  <1>3. \A d \in Calls : call'[d].page = p /\ Running(d)' /\ call'[d].kind # "clear"
                         => d \in awaited'
    <2> TAKE d \in Calls
    <2>1. CASE d = c
      BY <2>1
    <2>2. CASE d # c
      <3>1. call'[d] = call[d] /\ (Running(d)' => Running(d))
        BY <2>2 DEF Running
      <3> QED
        BY <2>2, <3>1 DEF FreshPage
    <2> QED
      BY <2>1, <2>2
  <1>4. committed' = working \/ \E d \in Calls : call'[d].phase = "changed"
    BY DEF FreshPage
  <1> QED
    BY <1>1, <1>2, <1>3, <1>4, Elsewhere

\* The page itself: it asks for its list when nothing else is under way.
LEMMA OpenFresh ==
  ASSUME TypeOK, NEW p \in Pages, NEW c \in Calls, Open(p, c), p \notin stale'
  PROVE  FreshPage(p)'
  <1>1. Pending = {} /\ working = committed
    BY DEF Open
  <1>2. awaited = {} /\ \A d \in Calls : ~Running(d)
    BY <1>1 DEF Pending, TypeOK
  <1>3. /\ call'[c] = [kind |-> "list", page |-> p, phase |-> "sent",
                       ids |-> {}, object |-> <<>>]
        /\ \A d \in Calls \ {c} : call'[d] = call[d]
        /\ UNCHANGED <<working, committed>>
    BY DEF Open, Send, TypeOK
  <1>4. awaited' = {c} /\ rows'[p] = {}
    BY <1>2 DEF Open, TypeOK
  <1>5. \A d \in Calls : Running(d)' => d = c
    BY <1>2, <1>3 DEF Running
  <1>6. Listing(p)'
    BY <1>3, <1>4 DEF Listing
  <1>7. ListUnderWay(p)'
    BY <1>1, <1>3, <1>4 DEF ListUnderWay
  <1> QED
    BY <1>1, <1>3, <1>4, <1>5, <1>6, <1>7 DEF FreshPage

\* What holds after a step of a page that has its list.
LEMMA WithList ==
  ASSUME TypeOK, NEW p \in Pages, FreshPage(p), NEW c \in Calls,
         \A d \in Calls \ {c} : call'[d] = call[d] /\ (d \in awaited' <=> d \in awaited),
         call'[c].page = p /\ Running(c)' /\ call'[c].kind # "clear" => c \in awaited',
         working' = committed' \/ \E d \in Calls : call'[d].phase = "changed",
         ~Listing(p)', RowsInOrder(p)', CallsInOrder(p)'
  PROVE  FreshPage(p)'
  <1>1. \A d \in Calls : call'[d].page = p /\ Running(d)' /\ call'[d].kind # "clear"
                         => d \in awaited'
    <2> TAKE d \in Calls
    <2>1. CASE d = c
      BY <2>1
    <2>2. CASE d # c
      <3>1. call'[d] = call[d] /\ (Running(d)' => Running(d))
        BY <2>2 DEF Running
      <3> QED
        BY <2>2, <3>1 DEF FreshPage
    <2> QED
      BY <2>1, <2>2
  <1> QED
    BY <1>1 DEF FreshPage

\* Every call the page waits for is the list, or it has its list.
LEMMA OwnCall ==
  ASSUME TypeOK, NEW p \in Pages, FreshPage(p), NEW c \in awaited, call[c].page = p,
         call[c].kind # "list"
  PROVE  ~Listing(p) /\ RowsInOrder(p) /\ CallsInOrder(p)
  BY DEF FreshPage, ListUnderWay

\* self.addProduct: what is only asked for does not come yet.
LEMMA AddProductFresh ==
  ASSUME TypeOK, NEW p \in Pages, FreshPage(p), NEW c \in Calls, AddProduct(p, c),
         p \notin stale'
  PROVE  FreshPage(p)'
  <1>1. ~Listing(p)
    BY DEF AddProduct
  <1>2. RowsInOrder(p) /\ CallsInOrder(p)
    BY <1>1 DEF FreshPage
  <1>3. /\ call'[c] = [kind |-> "add", page |-> p, phase |-> "sent",
                       ids |-> {}, object |-> <<>>]
        /\ \A d \in Calls \ {c} : call'[d] = call[d]
        /\ UNCHANGED <<working, committed, last, rows>>
        /\ awaited' = awaited \cup {c}
        /\ call[c].phase = "unsent"
    BY DEF AddProduct, Send, TypeOK
  <1>4. c \notin awaited
    BY <1>3 DEF TypeOK
  <1>5. awaited \subseteq Calls
    BY DEF TypeOK
  <1>6. ~Listing(p)'
    BY <1>1, <1>3, <1>5 DEF Listing
  <1>7. Coming(p)' = Coming(p) /\ Removing(p)' = Removing(p) /\ Going(p)' = Going(p)
    BY <1>3, <1>4, <1>5 DEF Coming, Removing, Going, Changed
  <1>8. \A d \in Coming(p) \cup Removing(p) : call'[d] = call[d]
    BY <1>3, <1>4, <1>5 DEF Coming, Removing
  <1>9. RowsInOrder(p)' /\ CallsInOrder(p)'
    BY <1>2, <1>3, <1>7, <1>8, RowsFrame
  <1>10. working' = committed' \/ \E d \in Calls : call'[d].phase = "changed"
    BY <1>3 DEF FreshPage
  <1> QED
    BY <1>3, <1>6, <1>9, <1>10, WithList

\* self.removeProduct: the removal is about the product of its row.
LEMMA RemoveProductFresh ==
  ASSUME TypeOK, NEW p \in Pages, FreshPage(p), NEW c \in Calls, NEW row \in rows[p],
         RemoveProduct(p, c, row)
  PROVE  FreshPage(p)'
  <1>1. ~Listing(p)
    BY DEF FreshPage, ListUnderWay
  <1>2. RowsInOrder(p) /\ CallsInOrder(p)
    BY <1>1 DEF FreshPage
  <1>3. /\ call'[c] = [kind |-> "remove", page |-> p, phase |-> "sent",
                       ids |-> {row.id}, object |-> Object(row)]
        /\ \A d \in Calls \ {c} : call'[d] = call[d]
        /\ UNCHANGED <<working, committed, last, rows>>
        /\ awaited' = awaited \cup {c}
        /\ call[c].phase = "unsent"
    BY DEF RemoveProduct, Send, TypeOK
  <1>4. c \notin awaited
    BY <1>3 DEF TypeOK
  <1>5. awaited \subseteq Calls
    BY DEF TypeOK
  <1>6. ~Listing(p)'
    BY <1>1, <1>3, <1>5 DEF Listing
  <1>7. /\ Coming(p)' = Coming(p)
        /\ Removing(p)' = Removing(p) \cup {c}
        /\ Going(p)' = Going(p)
    BY <1>3, <1>4, <1>5 DEF Coming, Removing, Going, Changed
  <1>8. \A d \in Coming(p) \cup Removing(p) : d # c /\ call'[d] = call[d]
    BY <1>3, <1>4, <1>5 DEF Coming, Removing
  <1>9. row.id = row.born /\ Known(row.id)
    BY <1>2 DEF RowsInOrder
  <1>10. Target(c)' = row.id /\ ~Changed(c)'
    BY <1>3, <1>9 DEF Target, Object, Changed
  <1>11. \A i : Known(i)' <=> Known(i)
    BY <1>3 DEF Known
  <1>12. RowsInOrder(p)'
    BY <1>2, <1>3, <1>7, <1>8, <1>11 DEF RowsInOrder, Object, Going
  <1>13. CallsInOrder(p)'
    <2>1. \A d \in Removing(p) : Target(d)' = Target(d) /\ (Changed(d)' <=> Changed(d))
      BY <1>8 DEF Target, Changed
    <2>2. ASSUME NEW d \in Coming(p)'
          PROVE  \E i \in Ids :
                   /\ call'[d].ids = {i}
                   /\ i \in working'
                   /\ \A r \in rows'[p] : r.id # i
                   /\ \A e \in Removing(p)' : Target(e)' # i
                   /\ \A e \in Coming(p)' : call'[e].ids = {i} => e = d
      <3>1. PICK i \in Ids :
              /\ call[d].ids = {i}
              /\ i \in working
              /\ \A r \in rows[p] : r.id # i
              /\ \A e \in Removing(p) : Target(e) # i
              /\ \A e \in Coming(p) : call[e].ids = {i} => e = d
        BY <1>2, <1>7 DEF CallsInOrder
      <3> QED
        BY <1>3, <1>7, <1>8, <1>10, <1>11, <2>1, <3>1
    <2>3. ASSUME NEW d \in Removing(p)'
          PROVE  /\ call'[d].ids = {Target(d)'}
                 /\ Known(Target(d))'
                 /\ \A r \in rows'[p] : r.id = Target(d)' => call'[d].object = Object(r)'
                 /\ Changed(d)' => Target(d)' \notin working'
      <3>1. CASE d = c
        BY <1>2, <1>3, <1>9, <1>10, <1>11, <3>1 DEF RowsInOrder, Object, Target, Known
      <3>2. CASE d # c
        <4>1. d \in Removing(p)
          BY <1>7, <3>2
        <4> QED
          BY <1>2, <1>3, <1>8, <1>11, <2>1, <4>1 DEF CallsInOrder, Object, Target, Known
      <3> QED
        BY <3>1, <3>2
    <2> QED
      BY <2>2, <2>3 DEF CallsInOrder
  <1>14. working' = committed' \/ \E d \in Calls : call'[d].phase = "changed"
    BY <1>3 DEF FreshPage
  <1> QED
    BY <1>3, <1>6, <1>12, <1>13, <1>14, WithList

\* GetAllProducts of the page: it answers what is in the index.
LEMMA ReadFresh ==
  ASSUME TypeOK, NEW p \in Pages, FreshPage(p), NEW c \in Calls, call[c].page = p, Read(c)
  PROVE  FreshPage(p)'
  <1>1. /\ call'[c] = [call[c] EXCEPT !.phase = "done", !.ids = committed]
        /\ \A d \in Calls \ {c} : call'[d] = call[d]
        /\ UNCHANGED <<working, committed, awaited, last, rows>>
        /\ call[c].kind = "list" /\ call[c].phase = "sent"
        /\ call[c] \in Call
    BY DEF Read, TypeOK, Call
  <1>2. /\ call'[c].kind = "list" /\ call'[c].page = p
        /\ call'[c].phase = "done" /\ call'[c].ids = committed
    BY <1>1 DEF Call
  <1>3. c \in awaited
    BY <1>1 DEF FreshPage, Running
  <1>4. Listing(p) /\ Listing(p)'
    BY <1>1, <1>2, <1>3 DEF Listing
  <1>5. ListUnderWay(p)
    BY <1>4 DEF FreshPage
  <1>6. ListUnderWay(p)'
    <2>1. awaited \subseteq Calls
      BY DEF TypeOK
    <2>2. QED
      <3>1. rows'[p] = {} /\ working' = committed'
        BY <1>1, <1>5 DEF ListUnderWay
      <3>2. \A d \in awaited : call[d].page = p => d = c
        BY <1>3, <1>5 DEF ListUnderWay
      <3>3. \A d \in awaited' : call'[d].page = p => d = c
        BY <1>1, <2>1, <3>2
      <3> QED
        BY <1>1, <1>2, <3>1, <3>3 DEF ListUnderWay
  <1>7. \A d \in Calls : call'[d].page = p /\ Running(d)' /\ call'[d].kind # "clear"
                         => d \in awaited'
    BY <1>1, <1>2, <1>3 DEF Running, FreshPage
  <1>8. working' = committed'
    BY <1>1, <1>5 DEF ListUnderWay
  <1> QED
    BY <1>4, <1>6, <1>7, <1>8 DEF FreshPage

\* solr.Add of the page: the product was not known, and comes.
LEMMA AddFresh ==
  ASSUME TypeOK, NothingUnknown, NEW p \in Pages, FreshPage(p), NEW c \in Calls, Add(c),
         p \notin stale'
  PROVE  FreshPage(p)'
  <1>1. PICK i \in Ids :
          /\ working' = working \cup {i}
          /\ call' = [call EXCEPT ![c].phase = "changed", ![c].ids = {i}]
          /\ last' = [last EXCEPT ![i] = c]
          /\ stale' = IF i \in Seeded \/ last[i] # None THEN Pages
                      ELSE stale \cup (Pages \ {call[c].page})
    BY DEF Add
  <1>2. call[c].page = p /\ ~Known(i)
    BY <1>1 DEF Known
  <1>3. /\ call'[c] = [call[c] EXCEPT !.phase = "changed", !.ids = {i}]
        /\ \A d \in Calls \ {c} : call'[d] = call[d]
        /\ UNCHANGED <<committed, awaited, rows>>
        /\ call[c].kind = "add" /\ call[c].phase = "sent"
        /\ call[c] \in Call
    BY <1>1 DEF Add, TypeOK, Call
  <1>4. /\ call'[c].kind = "add" /\ call'[c].page = p
        /\ call'[c].phase = "changed" /\ call'[c].ids = {i}
    BY <1>2, <1>3 DEF Call
  <1>5. c \in awaited
    BY <1>2, <1>3 DEF FreshPage, Running
  <1>6. ~Listing(p) /\ RowsInOrder(p) /\ CallsInOrder(p)
    BY <1>2, <1>3, <1>5, OwnCall
  <1>7. \A j : (Known(j) => Known(j)') /\ Known(i)'
    BY <1>1, NoneAssumption DEF Known, TypeOK
  <1>8. /\ Coming(p)' = Coming(p) \cup {c}
        /\ Removing(p)' = Removing(p)
        /\ Going(p)' = Going(p)
        /\ c \notin Coming(p) /\ c \notin Removing(p)
    <2>1. awaited \subseteq Calls
      BY DEF TypeOK
    <2>2. \A d \in awaited : d # c => call'[d] = call[d]
      BY <1>3, <2>1
    <2>3. c \notin Coming(p) /\ c \notin Removing(p)
      BY <1>3 DEF Coming, Removing, Changed
    <2>4. Coming(p)' = Coming(p) \cup {c}
      BY <1>3, <1>4, <1>5, <2>2 DEF Coming, Changed
    <2>5. Removing(p)' = Removing(p)
      BY <1>3, <1>4, <2>2 DEF Removing
    <2>6. Going(p)' = Going(p)
      BY <1>3, <2>1, <2>2, <2>3, <2>5 DEF Going, Changed, Removing
    <2> QED
      BY <2>3, <2>4, <2>5, <2>6
  <1>9. \A d \in Coming(p) \cup Removing(p) : call'[d] = call[d]
    BY <1>3, <1>8 DEF Coming, Removing, TypeOK
  <1>10. ~Listing(p)'
    BY <1>3, <1>4, <1>6 DEF Listing, TypeOK
  <1>11. RowsInOrder(p)'
    <2>1. ASSUME NEW row \in rows'[p]
          PROVE  /\ row.id = row.born
                 /\ Known(row.id)'
                 /\ \/ row.id \in working'
                    \/ \E d \in Going(p)' : call'[d].object = Object(row)'
      <3>1. /\ row.id = row.born
            /\ Known(row.id)
            /\ \/ row.id \in working
               \/ \E d \in Going(p) : call[d].object = Object(row)
        BY <1>3, <1>6 DEF RowsInOrder
      <3> QED
        BY <1>1, <1>7, <1>8, <1>9, <3>1 DEF Going, Object, Known
    <2>2. ASSUME NEW j \in working'
          PROVE  \/ \E row \in rows'[p] : row.id = j
                 \/ \E d \in Coming(p)' : call'[d].ids = {j}
      <3>1. CASE j = i
        BY <1>4, <1>8, <3>1
      <3>2. CASE j # i
        BY <1>1, <1>3, <1>6, <1>8, <1>9, <3>2 DEF RowsInOrder
      <3> QED
        BY <3>1, <3>2
    <2>3. \A row1, row2 \in rows'[p] : row1.id = row2.id => row1 = row2
      BY <1>3, <1>6 DEF RowsInOrder
    <2> QED
      BY <2>1, <2>2, <2>3 DEF RowsInOrder
  <1>12. CallsInOrder(p)'
    <2>0. i \in working' /\ working \subseteq working'
      BY <1>1
    <2>1. \A d \in Removing(p) : /\ Target(d)' = Target(d)
                                 /\ Changed(d)' <=> Changed(d)
                                 /\ Target(d) # i
      BY <1>2, <1>6, <1>9 DEF Target, Changed, CallsInOrder
    <2>2. \A row \in rows'[p] : row.id # i
      BY <1>2, <1>3, <1>6 DEF RowsInOrder
    <2>3. ASSUME NEW d \in Coming(p)'
          PROVE  \E j \in Ids :
                   /\ call'[d].ids = {j}
                   /\ j \in working'
                   /\ \A r \in rows'[p] : r.id # j
                   /\ \A e \in Removing(p)' : Target(e)' # j
                   /\ \A e \in Coming(p)' : call'[e].ids = {j} => e = d
      <3>1. \A e \in Coming(p) : call[e].ids # {i}
        BY <1>2, <1>6 DEF CallsInOrder, NothingUnknown
      <3>2. CASE d = c
        BY <1>4, <1>8, <1>9, <2>0, <2>1, <2>2, <3>1, <3>2
      <3>3. CASE d # c
        <4>1. PICK j \in Ids :
                /\ call[d].ids = {j}
                /\ j \in working
                /\ \A r \in rows[p] : r.id # j
                /\ \A e \in Removing(p) : Target(e) # j
                /\ \A e \in Coming(p) : call[e].ids = {j} => e = d
          BY <1>6, <1>8, <3>3 DEF CallsInOrder
        <4>2. j # i /\ {i} # {j}
          BY <1>2, <4>1 DEF NothingUnknown
        <4>3. \A e \in Coming(p)' : call'[e].ids = {j} => e = d
          BY <1>4, <1>8, <1>9, <4>1, <4>2
        <4> QED
          BY <1>3, <1>8, <1>9, <2>0, <2>1, <3>3, <4>1, <4>3
      <3> QED
        BY <3>2, <3>3
    <2>4. ASSUME NEW d \in Removing(p)'
          PROVE  /\ call'[d].ids = {Target(d)'}
                 /\ Known(Target(d))'
                 /\ \A r \in rows'[p] : r.id = Target(d)' => call'[d].object = Object(r)'
                 /\ Changed(d)' => Target(d)' \notin working'
      <3>1. call'[d] = call[d] /\ d \in Removing(p)
        BY <1>8, <1>9
      <3>2. /\ call[d].ids = {Target(d)}
            /\ Known(Target(d))
            /\ \A r \in rows[p] : r.id = Target(d) => call[d].object = Object(r)
            /\ Changed(d) => Target(d) \notin working
        BY <1>6, <3>1 DEF CallsInOrder
      <3>3. Known(Target(d)) => Known(Target(d))'
        BY <1>7, <3>1 DEF Target, Known
      <3> QED
        BY <1>1, <1>3, <2>1, <3>1, <3>2, <3>3 DEF Object
    <2> QED
      BY <2>3, <2>4 DEF CallsInOrder
  <1> QED
    BY <1>3, <1>4, <1>5, <1>10, <1>11, <1>12, WithList

\* solr.Delete of the page: the row of the product goes.
LEMMA DeleteFresh ==
  ASSUME TypeOK, NEW p \in Pages, FreshPage(p), NEW c \in Calls, Delete(c),
         p \notin stale'
  PROVE  FreshPage(p)'
  <1>1. call[c].page = p
    BY DEF Delete
  <1>2. /\ call'[c] = [call[c] EXCEPT !.phase = "changed"]
        /\ \A d \in Calls \ {c} : call'[d] = call[d]
        /\ UNCHANGED <<committed, awaited, rows>>
        /\ call[c].kind = "remove" /\ call[c].phase = "sent"
        /\ working' = working \ call[c].ids
        /\ call[c] \in Call
    BY DEF Delete, TypeOK, Call
  <1>3. /\ call'[c].kind = "remove" /\ call'[c].page = p
        /\ call'[c].phase = "changed" /\ call'[c].ids = call[c].ids
        /\ call'[c].object = call[c].object
    BY <1>1, <1>2 DEF Call
  <1>4. c \in awaited
    BY <1>1, <1>2 DEF FreshPage, Running
  <1>5. ~Listing(p) /\ RowsInOrder(p) /\ CallsInOrder(p)
    BY <1>1, <1>2, <1>4, OwnCall
  <1>6. \A j \in Ids : Known(j) => Known(j)'
    BY NoneAssumption DEF Delete, Known, TypeOK
  <1>7. /\ Coming(p)' = Coming(p)
        /\ Removing(p)' = Removing(p)
        /\ Going(p)' = Going(p) \cup {c}
        /\ c \notin Coming(p) /\ c \in Removing(p)
    <2>1. awaited \subseteq Calls
      BY DEF TypeOK
    <2>2. \A d \in awaited : d # c => call'[d] = call[d]
      BY <1>2, <2>1
    <2>3. c \notin Coming(p) /\ c \in Removing(p)
      BY <1>1, <1>2, <1>4 DEF Coming, Removing
    <2>4. Coming(p)' = Coming(p)
      BY <1>2, <1>3, <2>2 DEF Coming, Changed
    <2>5. Removing(p)' = Removing(p)
      BY <1>1, <1>2, <1>3, <2>2 DEF Removing
    <2>6. Going(p)' = Going(p) \cup {c}
      BY <1>2, <1>3, <2>1, <2>2, <2>3, <2>5 DEF Going, Changed, Removing
    <2> QED
      BY <2>3, <2>4, <2>5, <2>6
  <1>8. \A d \in Coming(p) \cup Removing(p) :
          call'[d].ids = call[d].ids /\ call'[d].object = call[d].object
    BY <1>2, <1>3 DEF Coming, Removing, TypeOK
  <1>9. ~Listing(p)'
    BY <1>2, <1>3, <1>5 DEF Listing, TypeOK
  <1>10. call[c].ids = {Target(c)}
    BY <1>5, <1>7 DEF CallsInOrder
  <1>11. RowsInOrder(p)'
    <2>1. ASSUME NEW row \in rows'[p]
          PROVE  /\ row.id = row.born
                 /\ Known(row.id)'
                 /\ \/ row.id \in working'
                    \/ \E d \in Going(p)' : call'[d].object = Object(row)'
      <3>1. row.id = row.born /\ Known(row.id)'
        <4>1. row \in rows[p] /\ row.id \in Ids
          BY <1>2 DEF TypeOK, Row
        <4>2. row.id = row.born /\ Known(row.id)
          BY <1>5, <4>1 DEF RowsInOrder
        <4> QED
          BY <1>6, <4>1, <4>2 DEF Known
      <3>2. CASE row.id = Target(c)
        <4>1. call[c].object = Object(row)
          BY <1>2, <1>5, <1>7, <3>2 DEF CallsInOrder
        <4> QED
          BY <1>3, <1>7, <3>1, <4>1 DEF Object
      <3>3. CASE row.id # Target(c)
        <4>1. \/ row.id \in working
              \/ \E d \in Going(p) : call[d].object = Object(row)
          BY <1>2, <1>5 DEF RowsInOrder
        <4>2. row.id \in working => row.id \in working'
          BY <1>2, <1>10, <3>3
        <4> QED
          BY <1>7, <1>8, <3>1, <4>1, <4>2 DEF Object, Going
      <3> QED
        BY <3>2, <3>3
    <2> QED
      BY <1>2, <1>5, <1>7, <1>8, <2>1 DEF RowsInOrder
  <1>12. CallsInOrder(p)'
    <2>1. \A d \in Removing(p) : Target(d)' = Target(d) /\ (d # c => (Changed(d)' <=> Changed(d)))
      BY <1>2, <1>8 DEF Target, Changed, Removing, TypeOK
    <2>2. ASSUME NEW d \in Coming(p)'
          PROVE  \E j \in Ids :
                   /\ call'[d].ids = {j}
                   /\ j \in working'
                   /\ \A r \in rows'[p] : r.id # j
                   /\ \A e \in Removing(p)' : Target(e)' # j
                   /\ \A e \in Coming(p)' : call'[e].ids = {j} => e = d
      <3>1. PICK j \in Ids :
              /\ call[d].ids = {j}
              /\ j \in working
              /\ \A r \in rows[p] : r.id # j
              /\ \A e \in Removing(p) : Target(e) # j
              /\ \A e \in Coming(p) : call[e].ids = {j} => e = d
        BY <1>5, <1>7 DEF CallsInOrder
      <3> QED
        BY <1>2, <1>7, <1>8, <1>10, <2>1, <3>1
    <2>3. ASSUME NEW d \in Removing(p)'
          PROVE  /\ call'[d].ids = {Target(d)'}
                 /\ Known(Target(d))'
                 /\ \A r \in rows'[p] : r.id = Target(d)' => call'[d].object = Object(r)'
                 /\ Changed(d)' => Target(d)' \notin working'
      <3>1. d \in Removing(p)
        BY <1>7
      <3>2. /\ call[d].ids = {Target(d)}
            /\ Known(Target(d))
            /\ \A r \in rows[p] : r.id = Target(d) => call[d].object = Object(r)
            /\ Changed(d) => Target(d) \notin working
        BY <1>5, <3>1 DEF CallsInOrder
      <3>3. Known(Target(d))'
        <4>1. call[d] \in Call /\ call[d].kind = "remove"
          BY <3>1 DEF TypeOK, Removing
        <4>2. Target(d) \in Ids
          BY <3>2, <4>1 DEF Call
        <4> QED
          BY <1>6, <2>1, <3>1, <3>2, <4>2 DEF Known
      <3>4. d = c => Target(d)' \notin working'
        BY <1>2, <1>10, <2>1, <3>1
      <3> QED
        BY <1>2, <1>8, <2>1, <3>1, <3>2, <3>3, <3>4 DEF Object
    <2> QED
      BY <2>2, <2>3 DEF CallsInOrder
  <1> QED
    BY <1>2, <1>3, <1>4, <1>9, <1>11, <1>12, WithList

\* solr.Commit of a call the page waits for: what is changed stays changed.
LEMMA CommitFresh ==
  ASSUME TypeOK, NEW p \in Pages, FreshPage(p), NEW c \in awaited, call[c].page = p, Commit(c)
  PROVE  FreshPage(p)'
  <1>1. c \in Calls /\ awaited \subseteq Calls
    BY DEF TypeOK
  <1>2. /\ call'[c] = [call[c] EXCEPT !.phase = "done"]
        /\ \A d \in Calls \ {c} : call'[d] = call[d]
        /\ UNCHANGED <<working, awaited, last, rows>>
        /\ committed' = working
        /\ call[c].phase = "changed"
        /\ call[c] \in Call
    BY <1>1 DEF Commit, TypeOK
  <1>3. /\ call'[c].kind = call[c].kind /\ call'[c].page = p
        /\ call'[c].phase = "done" /\ call'[c].ids = call[c].ids
        /\ call'[c].object = call[c].object
    BY <1>2 DEF Call
  <1>4. ~Listing(p)
    BY <1>2 DEF FreshPage, ListUnderWay
  <1>5. RowsInOrder(p) /\ CallsInOrder(p)
    BY <1>4 DEF FreshPage
  <1>6. \A d \in awaited : /\ call'[d].kind = call[d].kind /\ call'[d].page = call[d].page
                           /\ call'[d].ids = call[d].ids /\ call'[d].object = call[d].object
                           /\ Changed(d)' <=> Changed(d)
    BY <1>1, <1>2, <1>3 DEF Changed
  <1>7. ~Listing(p)'
    BY <1>2, <1>4, <1>6 DEF Listing
  <1>8. Coming(p)' = Coming(p) /\ Removing(p)' = Removing(p)
    BY <1>2, <1>6 DEF Coming, Removing
  <1>9. Going(p)' = Going(p)
    BY <1>6, <1>8 DEF Going, Removing
  <1>10. RowsInOrder(p)' /\ CallsInOrder(p)'
    <2>1. \A d \in Coming(p) \cup Removing(p) : d \in awaited
      BY DEF Coming, Removing
    <2> QED
      BY <1>2, <1>5, <1>6, <1>8, <1>9, <2>1, RowsFrame
  <1> QED
    BY <1>1, <1>2, <1>7, <1>10, WithList

\* A failure before the change, of a call the page waits for.
LEMMA FailFresh ==
  ASSUME TypeOK, NEW p \in Pages, FreshPage(p), NEW c \in awaited, call[c].page = p, Fail(c),
         p \notin stale'
  PROVE  FreshPage(p)'
  <1>1. c \in Calls /\ awaited \subseteq Calls
    BY DEF TypeOK
  <1>2. /\ call'[c] = [call[c] EXCEPT !.phase = "failed"]
        /\ \A d \in Calls \ {c} : call'[d] = call[d]
        /\ UNCHANGED <<working, committed, awaited, last, rows>>
        /\ call[c].phase = "sent" /\ call[c].kind # "list"
        /\ call[c] \in Call
    BY <1>1 DEF Fail, Running, TypeOK
  <1>3. /\ call'[c].kind = call[c].kind /\ call'[c].page = p
        /\ call'[c].phase = "failed" /\ call'[c].ids = call[c].ids
        /\ call'[c].object = call[c].object
    BY <1>2 DEF Call
  <1>4. ~Listing(p) /\ RowsInOrder(p) /\ CallsInOrder(p)
    BY <1>2, OwnCall
  <1>6. \A d \in awaited : /\ call'[d].kind = call[d].kind /\ call'[d].page = call[d].page
                           /\ call'[d].ids = call[d].ids /\ call'[d].object = call[d].object
                           /\ Changed(d)' <=> Changed(d)
    BY <1>1, <1>2, <1>3 DEF Changed
  <1>7. ~Listing(p)'
    BY <1>2, <1>4, <1>6 DEF Listing
  <1>8. Coming(p)' = Coming(p) /\ Removing(p)' = Removing(p)
    BY <1>2, <1>6 DEF Coming, Removing
  <1>9. Going(p)' = Going(p)
    BY <1>6, <1>8 DEF Going, Removing
  <1>10. RowsInOrder(p)' /\ CallsInOrder(p)'
    <2>1. \A d \in Coming(p) \cup Removing(p) : d \in awaited
      BY DEF Coming, Removing
    <2> QED
      BY <1>2, <1>4, <1>6, <1>8, <1>9, <2>1, RowsFrame
  <1>11. working' = committed' \/ \E d \in Calls : call'[d].phase = "changed"
    <2>1. \A d \in Calls : call[d].phase = "changed" => call'[d] = call[d]
      BY <1>2
    <2> QED
      BY <1>2, <2>1 DEF FreshPage
  <1> QED
    BY <1>1, <1>2, <1>7, <1>10, <1>11, WithList

\* A callback that changes no row: the page waits no longer for what has failed.
LEMMA ForgetFresh ==
  ASSUME TypeOK, NEW p \in Pages, FreshPage(p), NEW c \in awaited, call[c].page = p,
         call[c].kind # "list", call[c].phase = "failed", awaited' = awaited \ {c},
         UNCHANGED <<working, committed, call, rows, last>>
  PROVE  FreshPage(p)'
  <1>1. c \in Calls /\ awaited \subseteq Calls
    BY DEF TypeOK
  <1>2. ~Listing(p) /\ RowsInOrder(p) /\ CallsInOrder(p)
    BY OwnCall
  <1>3. ~Listing(p)'
    BY <1>2 DEF Listing
  <1>4. Coming(p)' = Coming(p) /\ Removing(p)' \subseteq Removing(p)
    BY DEF Coming, Removing, Changed
  <1>5. Going(p)' = Going(p)
    BY DEF Going, Removing, Changed
  <1>6. RowsInOrder(p)' /\ CallsInOrder(p)'
    BY <1>2, <1>4, <1>5, RowsFrame
  <1>7. ~Running(c)'
    BY DEF Running
  <1>8. working' = committed' \/ \E d \in Calls : call'[d].phase = "changed"
    BY DEF FreshPage
  <1> QED
    BY <1>1, <1>3, <1>6, <1>7, <1>8, WithList

\* The list is shown: every product of the index, once.
LEMMA PushListFresh ==
  ASSUME TypeOK, NothingUnknown, NEW p \in Pages, FreshPage(p), NEW c \in awaited,
         call[c].page = p, call[c].kind = "list", Push(c)
  PROVE  FreshPage(p)'
  <1>1. c \in Calls /\ awaited \subseteq Calls
    BY DEF TypeOK
  <1>2. ListUnderWay(p)
    BY <1>1 DEF FreshPage, Listing
  <1>3. /\ call[c].phase = "done" /\ call[c].ids = working /\ working = committed
        /\ UNCHANGED <<working, committed, call, last>>
        /\ awaited' = awaited \ {c}
        /\ rows[p] = {}
    BY <1>2 DEF ListUnderWay, Push
  <1>4. rows'[p] = {[by |-> c, born |-> i, id |-> i] : i \in working}
    BY <1>3 DEF Push, Pushed, TypeOK
  <1>5. \A d \in awaited' : call'[d].page # p
    BY <1>2, <1>3 DEF ListUnderWay
  <1>6. ~Listing(p)' /\ Coming(p)' = {} /\ Removing(p)' = {}
    BY <1>5 DEF Listing, Coming, Removing
  <1>7. RowsInOrder(p)'
    <2>1. \A row \in rows'[p] : row.id = row.born /\ row.by = c /\ row.id \in working
      BY <1>4
    <2>2. \A row1, row2 \in rows'[p] : row1.id = row2.id => row1 = row2
      BY <1>4
    <2>3. \A i \in working : \E row \in rows'[p] : row.id = i
      <3> TAKE i \in working
      <3>1. [by |-> c, born |-> i, id |-> i] \in rows'[p]
        BY <1>4
      <3> QED
        BY <3>1
    <2>4. \A i \in working : Known(i)'
      BY <1>3 DEF NothingUnknown, Known
    <2>5. \A row \in rows'[p] : Known(row.id)'
      BY <2>1, <2>4 DEF Known
    <2> QED
      BY <1>3, <2>1, <2>2, <2>3, <2>5 DEF RowsInOrder
  <1>8. CallsInOrder(p)'
    BY <1>6 DEF CallsInOrder
  <1>9. ~Running(c)'
    BY <1>3 DEF Running
  <1> QED
    BY <1>1, <1>3, <1>6, <1>7, <1>8, <1>9, WithList

\* The new product is shown: it came, and is there.
LEMMA PushAddFresh ==
  ASSUME TypeOK, NothingUnknown, NEW p \in Pages, FreshPage(p), NEW c \in awaited,
         call[c].page = p, call[c].kind = "add", Push(c)
  PROVE  FreshPage(p)'
  <1>1. c \in Calls /\ awaited \subseteq Calls
    BY DEF TypeOK
  <1>2. ~Listing(p) /\ RowsInOrder(p) /\ CallsInOrder(p)
    BY OwnCall
  <1>3. /\ call[c].phase = "done"
        /\ UNCHANGED <<working, committed, call, last>>
        /\ awaited' = awaited \ {c}
    BY DEF Push
  <1>4. c \in Coming(p)
    BY <1>3 DEF Coming, Changed
  <1>5. PICK i \in Ids :
          /\ call[c].ids = {i}
          /\ i \in working
          /\ \A row \in rows[p] : row.id # i
          /\ \A d \in Removing(p) : Target(d) # i
          /\ \A d \in Coming(p) : call[d].ids = {i} => d = c
    BY <1>2, <1>4 DEF CallsInOrder
  <1> DEFINE new == [by |-> c, born |-> i, id |-> i]
  <1>6. rows'[p] = rows[p] \cup {new}
    BY <1>5 DEF Push, Pushed, TypeOK
  <1>7. /\ Coming(p)' = Coming(p) \ {c}
        /\ Removing(p)' = Removing(p)
        /\ Going(p)' = Going(p)
    BY <1>3 DEF Coming, Removing, Going, Changed
  <1>8. ~Listing(p)'
    BY <1>2, <1>3 DEF Listing
  <1>9. \A j : Known(j)' <=> Known(j)
    BY <1>3 DEF Known
  <1>10. RowsInOrder(p)'
    <2>1. ASSUME NEW row \in rows'[p]
          PROVE  /\ row.id = row.born
                 /\ Known(row.id)'
                 /\ \/ row.id \in working'
                    \/ \E d \in Going(p)' : call'[d].object = Object(row)'
      <3>1. CASE row = new
        BY <1>3, <1>5, <3>1 DEF NothingUnknown, Known
      <3>2. CASE row \in rows[p]
        BY <1>2, <1>3, <1>7, <3>2 DEF RowsInOrder, Object, Known
      <3> QED
        BY <1>6, <3>1, <3>2
    <2>2. \A row1, row2 \in rows'[p] : row1.id = row2.id => row1 = row2
      BY <1>2, <1>5, <1>6 DEF RowsInOrder
    <2>3. ASSUME NEW j \in working'
          PROVE  \/ \E row \in rows'[p] : row.id = j
                 \/ \E d \in Coming(p)' : call'[d].ids = {j}
      <3>1. CASE j = i
        <4>1. new \in rows'[p] /\ new.id = i
          BY <1>6
        <4> QED
          BY <3>1, <4>1
      <3>2. CASE j # i
        BY <1>2, <1>3, <1>5, <1>6, <1>7, <3>2 DEF RowsInOrder
      <3> QED
        BY <3>1, <3>2
    <2> QED
      BY <2>1, <2>2, <2>3 DEF RowsInOrder
  <1>11. CallsInOrder(p)'
    <2>1. ASSUME NEW d \in Coming(p)'
          PROVE  \E j \in Ids :
                   /\ call'[d].ids = {j}
                   /\ j \in working'
                   /\ \A r \in rows'[p] : r.id # j
                   /\ \A e \in Removing(p)' : Target(e)' # j
                   /\ \A e \in Coming(p)' : call'[e].ids = {j} => e = d
      <3>1. PICK j \in Ids :
              /\ call[d].ids = {j}
              /\ j \in working
              /\ \A r \in rows[p] : r.id # j
              /\ \A e \in Removing(p) : Target(e) # j
              /\ \A e \in Coming(p) : call[e].ids = {j} => e = d
        BY <1>2, <1>7 DEF CallsInOrder
      <3>2. j # i
        BY <1>4, <1>5, <1>7, <3>1
      <3> QED
        BY <1>3, <1>6, <1>7, <1>9, <3>1, <3>2 DEF Target
    <2>2. ASSUME NEW d \in Removing(p)'
          PROVE  /\ call'[d].ids = {Target(d)'}
                 /\ Known(Target(d))'
                 /\ \A r \in rows'[p] : r.id = Target(d)' => call'[d].object = Object(r)'
                 /\ Changed(d)' => Target(d)' \notin working'
      <3>1. d \in Removing(p) /\ Target(d) # i
        BY <1>5, <1>7
      <3>2. /\ call[d].ids = {Target(d)}
            /\ Known(Target(d))
            /\ \A r \in rows[p] : r.id = Target(d) => call[d].object = Object(r)
            /\ Changed(d) => Target(d) \notin working
        BY <1>2, <3>1 DEF CallsInOrder
      <3> QED
        BY <1>3, <1>6, <1>9, <3>1, <3>2 DEF Object, Target, Known, Changed
    <2> QED
      BY <2>1, <2>2 DEF CallsInOrder
  <1>12. ~Running(c)'
    BY <1>3 DEF Running
  <1>13. working' = committed' \/ \E d \in Calls : call'[d].phase = "changed"
    BY <1>3 DEF FreshPage
  <1> QED
    BY <1>1, <1>3, <1>8, <1>10, <1>11, <1>12, <1>13, WithList
\* The product is removed: its row has gone, and no other one.
LEMMA DropFresh ==
  ASSUME TypeOK, NEW p \in Pages, FreshPage(p), NEW c \in awaited,
         call[c].page = p, call[c].phase = "done", Drop(c)
  PROVE  FreshPage(p)'
  <1>1. c \in Calls /\ awaited \subseteq Calls
    BY DEF TypeOK
  <1>2. call[c].kind = "remove" /\ ~Listing(p) /\ RowsInOrder(p) /\ CallsInOrder(p)
    BY OwnCall DEF Drop
  <1>3. /\ UNCHANGED <<working, committed, call, last>>
        /\ awaited' = awaited \ {c}
        /\ rows'[p] = {row \in rows[p] : Object(row) # call[c].object}
    BY DEF Drop, Ok, TypeOK
  <1>4. c \in Removing(p) /\ Changed(c)
    BY <1>2 DEF Removing, Changed
  <1>5. Target(c) \notin working
    BY <1>2, <1>4 DEF CallsInOrder
  <1>6. /\ Coming(p)' = Coming(p)
        /\ Removing(p)' = Removing(p) \ {c}
        /\ Going(p)' = Going(p) \ {c}
    BY <1>2, <1>3 DEF Coming, Removing, Going, Changed
  <1>7. ~Listing(p)'
    BY <1>2, <1>3 DEF Listing
  <1>8. RowsInOrder(p)'
    <2>1. ASSUME NEW row \in rows'[p]
          PROVE  /\ row.id = row.born
                 /\ Known(row.id)'
                 /\ \/ row.id \in working'
                    \/ \E d \in Going(p)' : call'[d].object = Object(row)'
      <3>1. row \in rows[p] /\ Object(row) # call[c].object
        BY <1>3
      <3> QED
        BY <1>2, <1>3, <1>6, <3>1 DEF RowsInOrder, Known, Object
    <2>2. \A row1, row2 \in rows'[p] : row1.id = row2.id => row1 = row2
      BY <1>2, <1>3 DEF RowsInOrder
    <2>3. ASSUME NEW row \in rows[p], row.id \in working PROVE row \in rows'[p]
      <3>1. row.id = row.born
        BY <1>2 DEF RowsInOrder
      <3>2. Object(row) # call[c].object
        BY <1>5, <2>3, <3>1 DEF Target, Object
      <3> QED
        BY <1>3, <3>2
    <2>4. \A i \in working' : \/ \E row \in rows'[p] : row.id = i
                              \/ \E d \in Coming(p)' : call'[d].ids = {i}
      BY <1>2, <1>3, <1>6, <2>3 DEF RowsInOrder
    <2> QED
      BY <2>1, <2>2, <2>4 DEF RowsInOrder
  <1>9. CallsInOrder(p)'
    <2>1. rows'[p] \subseteq rows[p]
      BY <1>3
    <2> QED
      BY <1>2, <1>3, <1>6, <2>1 DEF CallsInOrder, Target, Known, Changed, Object
  <1>10. ~Running(c)'
    BY <1>3 DEF Running
  <1>11. working' = committed' \/ \E d \in Calls : call'[d].phase = "changed"
    BY <1>3 DEF FreshPage
  <1> QED
    BY <1>1, <1>3, <1>7, <1>8, <1>9, <1>10, <1>11, WithList

\* The callbacks of the page's own calls.
LEMMA CallbackFresh ==
  ASSUME TypeOK, NothingUnknown, NEW p \in Pages, FreshPage(p), NEW c \in awaited,
         call[c].page = p, Push(c) \/ Drop(c) \/ Alert(c)
  PROVE  FreshPage(p)'
  <1>1. CASE Push(c)
    BY <1>1, PushListFresh, PushAddFresh DEF Push
  <1>2. CASE Drop(c)
    <2>1. CASE call[c].phase = "done"
      BY <1>2, <2>1, DropFresh
    <2>2. CASE call[c].phase = "failed"
      BY <1>2, <2>2, ForgetFresh DEF Drop, Ok
    <2> QED
      BY <1>2, <2>1, <2>2 DEF Drop
  <1>3. CASE Alert(c)
    <2>1. c \in Calls
      BY DEF TypeOK
    <2>2. call[c].kind # "list"
      BY <1>3, <2>1 DEF Alert, FreshPage, Listing, ListUnderWay
    <2> QED
      BY <1>3, <2>2, ForgetFresh DEF Alert
  <1> QED
    BY <1>1, <1>2, <1>3

\* The callbacks of calls that other pages wait for.
LEMMA OtherCallback ==
  ASSUME TypeOK, NEW p \in Pages, FreshPage(p), NEW c \in Calls,
         call[c].page # p, Push(c) \/ Drop(c) \/ Alert(c) \/ Break(c)
  PROVE  FreshPage(p)'
  <1>1. /\ UNCHANGED <<working, committed, call, last>>
        /\ awaited' = awaited \ {c}
        /\ awaited \subseteq Calls
    BY DEF Push, Drop, Alert, Break, TypeOK
  <1>2. rows'[p] = rows[p]
    BY DEF Push, Drop, Alert, Break, TypeOK
  <1>3. committed' = working \/ call'[c].phase = "changed" \/ call[c].phase # "changed"
    BY <1>1
  <1> QED
    BY <1>1, <1>2, <1>3, OtherCall

\* A call is sent by another page, or is the clearing nobody waits for.
LEMMA OtherSend ==
  ASSUME TypeOK, NEW p \in Pages, FreshPage(p), NEW q \in Pages, NEW c \in Calls,
         \/ q # p /\ \/ Open(q, c) \/ AddProduct(q, c)
                     \/ \E row \in rows[q] : RemoveProduct(q, c, row)
         \/ RemoveAll(q, c)
  PROVE  FreshPage(p)'
  <1>1. /\ call[c].phase = "unsent"
        /\ \A d \in Calls \ {c} : call'[d] = call[d]
        /\ call'[c].page = q
        /\ RemoveAll(q, c) => call'[c].kind = "clear"
        /\ UNCHANGED <<working, committed, last>>
    BY DEF Open, AddProduct, RemoveProduct, RemoveAll, Send, TypeOK
  <1>2. c \notin awaited /\ awaited \subseteq Calls
    BY <1>1 DEF TypeOK
  <1>3. rows'[p] = rows[p]
    BY DEF Open, AddProduct, RemoveProduct, RemoveAll, TypeOK
  <1>4. /\ awaited' \subseteq Calls
        /\ \A d \in Calls \ {c} : call[d].page = p => (d \in awaited' <=> d \in awaited)
        /\ q # p \/ c \notin awaited'
    BY <1>2 DEF Open, AddProduct, RemoveProduct, RemoveAll
  <1>5. call'[c].page # p \/ (c \notin awaited' /\ call'[c].kind = "clear")
    BY <1>1, <1>4
  <1> QED
    BY <1>1, <1>2, <1>3, <1>4, <1>5, OtherCall

\* The server goes on with a call that the page does not wait for.
LEMMA OtherServe ==
  ASSUME TypeOK, NEW p \in Pages, FreshPage(p), NEW c \in Calls,
         call[c].page # p \/ c \notin awaited,
         Read(c) \/ Commit(c) \/ Fail(c), p \notin stale'
  PROVE  FreshPage(p)'
  <1>1. /\ \A d \in Calls \ {c} : call'[d] = call[d]
        /\ UNCHANGED <<working, awaited, last, rows>>
        /\ committed' \in {committed, working}
        /\ awaited \subseteq Calls
        /\ call[c] \in Call
    BY DEF Read, Commit, Fail, TypeOK
  <1>2. call'[c].phase \in {"done", "failed"} /\ call'[c].page = call[c].page
    BY <1>1 DEF Read, Commit, Fail, TypeOK, Call
  <1>3. ~Running(c)'
    BY <1>2 DEF Running
  <1>4. committed' = working \/ call[c].phase # "changed"
    BY DEF Read, Commit, Fail
  <1> QED
    BY <1>1, <1>2, <1>3, <1>4, OtherCall
\* The index holds nothing that nobody has put there.
LEMMA NextKnown == IInv /\ NothingUnknown /\ [Next]_vars => NothingUnknown'
  <1> SUFFICES ASSUME TypeOK, NothingUnknown, [Next]_vars PROVE NothingUnknown'
    BY DEF IInv
  <1>1. ASSUME UNCHANGED <<working, last>> PROVE NothingUnknown'
    BY <1>1 DEF NothingUnknown, Known
  <1>2. ASSUME NEW c \in Calls, Add(c) PROVE NothingUnknown'
    <2>1. PICK i \in Ids : working' = working \cup {i} /\ last' = [last EXCEPT ![i] = c]
      BY <1>2 DEF Add
    <2> QED
      BY <2>1, NoneAssumption DEF NothingUnknown, Known, TypeOK
  <1>3. ASSUME NEW c \in Calls, Delete(c) PROVE NothingUnknown'
    BY <1>3, NoneAssumption DEF Delete, NothingUnknown, Known, TypeOK
  <1>4. ASSUME NEW c \in Calls, DeleteAll(c) PROVE NothingUnknown'
    BY <1>4 DEF DeleteAll, NothingUnknown
  <1>5. CASE UNCHANGED vars
    BY <1>1, <1>5 DEF vars
  <1> QED
    BY <1>1, <1>2, <1>3, <1>4, <1>5
       DEF Next, Open, AddProduct, RemoveAll, RemoveProduct, EditId, Send, Read, Commit, Fail,
           Push, Drop, Alert, Break, AutoCommit

\* A page that nothing is done behind the back of stays fresh, and is made so
\* only by being loaded.
LEMMA NextFresh ==
  ASSUME TypeOK, NothingUnknown, [Next]_vars, NEW p \in Pages, p \notin stale',
         p \notin stale => FreshPage(p)
  PROVE  FreshPage(p)'
  <1>1. ASSUME NEW c \in Calls, Open(p, c) PROVE FreshPage(p)'
    BY <1>1, OpenFresh
  <1> SUFFICES ASSUME ~ \E c \in Calls : Open(p, c) PROVE FreshPage(p)'
    BY <1>1
  <1>2. p \notin stale
    BY DEF Next, vars, Open, AddProduct, RemoveAll, RemoveProduct, EditId, Read, Add, Delete,
           DeleteAll, Commit, Fail, Push, Drop, Alert, Break, AutoCommit
  <1>3. FreshPage(p)
    BY <1>2
  <1>4. awaited \subseteq Calls /\ call \in [Calls -> Call]
    BY DEF TypeOK
  <1>5. ASSUME NEW q \in Pages, NEW c \in Calls,
               Open(q, c) \/ AddProduct(q, c) \/ RemoveAll(q, c)
        PROVE  FreshPage(p)'
    BY <1>3, <1>5, AddProductFresh, OtherSend
  <1>6. ASSUME NEW q \in Pages, NEW c \in Calls, NEW row \in rows[q], RemoveProduct(q, c, row)
        PROVE  FreshPage(p)'
    BY <1>3, <1>6, RemoveProductFresh, OtherSend
  <1>7. ASSUME NEW q \in Pages, NEW row \in rows[q], NEW i \in Ids, EditId(q, row, i)
        PROVE  FreshPage(p)'
    <2>1. /\ UNCHANGED <<working, committed, call, awaited, last>>
          /\ rows'[p] = rows[p]
      BY <1>7 DEF EditId, TypeOK
    <2>2. working' = committed' \/ \E c \in Calls : call'[c].phase = "changed"
      BY <1>3, <2>1 DEF FreshPage
    <2>3. \A c \in Calls : call'[c].page = p /\ Running(c)' /\ call'[c].kind # "clear"
                           => c \in awaited'
      BY <1>3, <2>1 DEF FreshPage, Running
    <2> QED
      BY <1>3, <1>4, <2>1, <2>2, <2>3, Elsewhere
  <1>8. ASSUME NEW c \in Calls, Read(c) \/ Commit(c) \/ Fail(c) PROVE FreshPage(p)'
    <2>1. CASE call[c].page = p /\ c \in awaited
      BY <1>3, <1>8, <2>1, ReadFresh, CommitFresh, FailFresh
    <2>2. CASE call[c].page # p \/ c \notin awaited
      BY <1>3, <1>8, <2>2, OtherServe
    <2> QED
      BY <2>1, <2>2
  <1>9. ASSUME NEW c \in Calls, Add(c) \/ Delete(c) PROVE FreshPage(p)'
    BY <1>3, <1>9, AddFresh, DeleteFresh
  <1>10. ASSUME NEW c \in Calls, DeleteAll(c) PROVE FALSE
    BY <1>10 DEF DeleteAll
  <1>11. ASSUME NEW c \in Calls, Push(c) \/ Drop(c) \/ Alert(c) \/ Break(c) PROVE FreshPage(p)'
    <2>1. c \in awaited
      BY <1>11 DEF Push, Drop, Alert, Break
    <2>2. CASE call[c].page = p
      BY <1>3, <1>11, <2>1, <2>2, CallbackFresh DEF Break
    <2>3. CASE call[c].page # p
      BY <1>3, <1>11, <2>3, OtherCallback
    <2> QED
      BY <2>2, <2>3
  <1>12. CASE AutoCommit
    <2>1. /\ UNCHANGED <<working, call, awaited, rows, last>>
          /\ committed' = working
      BY <1>12 DEF AutoCommit
    <2>2. \A c \in Calls : call'[c].page = p /\ Running(c)' /\ call'[c].kind # "clear"
                           => c \in awaited'
      BY <1>3, <2>1 DEF FreshPage, Running
    <2> QED
      BY <1>3, <1>4, <2>1, <2>2, Elsewhere
  <1>13. CASE UNCHANGED vars
    <2>1. UNCHANGED <<working, committed, call, awaited, rows, last>>
      BY <1>13 DEF vars
    <2>2. working' = committed' \/ \E c \in Calls : call'[c].phase = "changed"
      BY <1>3, <2>1 DEF FreshPage
    <2>3. \A c \in Calls : call'[c].page = p /\ Running(c)' /\ call'[c].kind # "clear"
                           => c \in awaited'
      BY <1>3, <2>1 DEF FreshPage, Running
    <2> QED
      BY <1>3, <1>4, <2>1, <2>2, <2>3, Elsewhere
  <1> QED
    BY <1>5, <1>6, <1>7, <1>8, <1>9, <1>10, <1>11, <1>12, <1>13 DEF Next

\* At the start no page is open, and the index is as it was.
THEOREM InitPages == Init => PagesInOrder
  BY DEF Init, PagesInOrder, NothingUnknown, Known

\* Every step keeps the pages in order.
THEOREM NextPages == IInv /\ PagesInOrder /\ [Next]_vars => PagesInOrder'
  <1> SUFFICES ASSUME IInv, PagesInOrder, [Next]_vars PROVE PagesInOrder'
    OBVIOUS
  <1>1. TypeOK /\ NothingUnknown /\ \A p \in Pages \ stale : FreshPage(p)
    BY DEF IInv, PagesInOrder
  <1>2. NothingUnknown'
    BY <1>1, NextKnown
  <1>3. ASSUME NEW p \in Pages, p \notin stale' PROVE FreshPage(p)'
    BY <1>1, <1>3, NextFresh
  <1> QED
    BY <1>2, <1>3 DEF PagesInOrder

\* A fresh page with nothing under way shows the index.
LEMMA FreshAndQuiet ==
  ASSUME TypeOK, NEW p \in Pages, FreshPage(p), Pending = {}
  PROVE  /\ {row.id : row \in rows[p]} = committed
         /\ Cardinality(rows[p]) = Cardinality(committed)
  <1>1. awaited = {} /\ \A c \in Calls : call[c].phase # "changed"
    BY DEF Pending, Running, TypeOK
  <1>2. ~Listing(p) /\ Coming(p) = {} /\ Going(p) = {}
    BY <1>1 DEF Listing, Coming, Going, Removing
  <1>3. RowsInOrder(p) /\ working = committed
    BY <1>1, <1>2 DEF FreshPage
  <1>4. /\ \A row \in rows[p] : row.id \in committed
        /\ \A row1, row2 \in rows[p] : row1.id = row2.id => row1 = row2
        /\ \A i \in committed : \E row \in rows[p] : row.id = i
    BY <1>2, <1>3 DEF RowsInOrder
  <1> DEFINE rowOf == [i \in committed |-> CHOOSE row \in rows[p] : row.id = i]
  <1>5. \A i \in committed : rowOf[i] \in rows[p] /\ rowOf[i].id = i
    BY <1>4
  <1>6. \A row \in rows[p] : rowOf[row.id] = row
    BY <1>4, <1>5
  <1> HIDE DEF rowOf
  <1>7. rowOf \in Bijection(committed, rows[p])
    <2>1. rowOf \in [committed -> rows[p]]
      BY <1>5 DEF rowOf
    <2>2. rowOf \in Injection(committed, rows[p])
      BY <1>5, <2>1 DEF Injection, IsInjective
    <2>3. rowOf \in Surjection(committed, rows[p])
      BY <1>4, <1>6, <2>1 DEF Surjection
    <2> QED
      BY <2>2, <2>3 DEF Bijection
  <1>8. IsFiniteSet(committed)
    BY IdsAssumption, FS_Subset DEF TypeOK
  <1>9. Cardinality(rows[p]) = Cardinality(committed)
    BY <1>7, <1>8, FS_Bijection DEF ExistsBijection
  <1> QED
    BY <1>4, <1>9

\* In every reachable state a page nothing was done behind the back of shows,
\* once everything has ended, the products of the index, each of them once.
THEOREM QuietPage == Spec => []QuietPageShowsIndex
  <1>1. IInv /\ PagesInOrder => QuietPageShowsIndex
    BY FreshAndQuiet DEF IInv, PagesInOrder, QuietPageShowsIndex
  <1> QED
    BY <1>1, InitPages, NextPages, Invariance, PTL DEF Spec
=============================================================================

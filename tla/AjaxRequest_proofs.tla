------------------------- MODULE AjaxRequest_proofs -------------------------
(***************************************************************************)
(* Proofs about AjaxRequest: types, the count of active requests, that     *)
(* nobody is forgotten, the order of complete, and that every request      *)
(* keeps the promise of OneAnswer, for all requests and handlers.          *)
(***************************************************************************)
EXTENDS AjaxRequest, FiniteSetTheorems, TLAPS

\* What Types, the part of TypeOK without the counter, and its steps need.
Types ==
  /\ state \in [Requests -> 0 .. 2]
  /\ list \in [Slots -> Seq(Handlers)]
  /\ fired \subseteq Slots
  /\ firing \subseteq fired
  /\ stack \in Seq(Frame)
  /\ place \in [Handlers -> (SUBSET Slots) \cup {None}]
  /\ told \in [Handlers -> Slots \cup {None}]
  /\ broken \subseteq Requests \X BOOLEAN

Core == Types /\ RequestsInOrder /\ LoopsInOrder /\ HandlersInOrder

\* Appending to a sequence keeps what it held and adds one element.
LEMMA AppendFacts ==
  ASSUME NEW S, NEW q \in Seq(S), NEW e \in S
  PROVE  /\ Append(q, e) \in Seq(S)
         /\ Len(Append(q, e)) = Len(q) + 1
         /\ \A i \in 1 .. Len(q) : Append(q, e)[i] = q[i]
         /\ Append(q, e)[Len(q) + 1] = e
  OBVIOUS

\* A prefix of a sequence.
LEMMA PrefixFacts ==
  ASSUME NEW S, NEW q \in Seq(S), NEW k \in 0 .. Len(q)
  PROVE  /\ SubSeq(q, 1, k) \in Seq(S)
         /\ Len(SubSeq(q, 1, k)) = k
         /\ \A i \in 1 .. k : SubSeq(q, 1, k)[i] = q[i]
  OBVIOUS

\* The tail of a sequence that is not empty, and its head.
LEMMA TailFacts ==
  ASSUME NEW S, NEW q \in Seq(S), q # <<>>
  PROVE  /\ Tail(q) \in Seq(S)
         /\ Len(q) \in Nat \ {0}
         /\ Len(Tail(q)) = Len(q) - 1
         /\ \A i \in 1 .. Len(q) - 1 : Tail(q)[i] = q[i + 1]
         /\ Head(q) = q[1]
         /\ Head(q) \in S
  OBVIOUS

\* Replacing one element of a sequence.
LEMMA ExceptFacts ==
  ASSUME NEW S, NEW q \in Seq(S), NEW k \in 1 .. Len(q), NEW e \in S
  PROVE  /\ [q EXCEPT ![k] = e] \in Seq(S)
         /\ Len([q EXCEPT ![k] = e]) = Len(q)
         /\ \A i \in 1 .. Len(q) : [q EXCEPT ![k] = e][i] = IF i = k THEN e ELSE q[i]
  OBVIOUS

\* A sequence that is not empty has a last element.
LEMMA LastFacts ==
  ASSUME NEW S, NEW q \in Seq(S), q # <<>>
  PROVE  /\ Len(q) \in Nat \ {0}
         /\ Len(q) \in 1 .. Len(q)
         /\ q[Len(q)] \in S
  OBVIOUS
-----------------------------------------------------------------------------
\* A request that is not done has no list fired, no loop and no exception.
LEMMA UntouchedBeforeDone ==
  ASSUME Types, RequestsInOrder, LoopsInOrder, NEW c \in Requests, state[c] # 2
  PROVE  /\ \A l \in Lists : <<c, l>> \notin fired /\ <<c, l>> \notin firing
         /\ \A i \in 1 .. Depth : stack[i].slot[1] # c
         /\ \A late \in BOOLEAN : <<c, late>> \notin broken
  BY DEF Types, RequestsInOrder, LoopsInOrder, Slots, Depth

\* What a loop looks like when it starts.
LEMMA LoopFacts ==
  ASSUME NEW s \in Slots, NEW late \in BOOLEAN
  PROVE  /\ Loop(s, late) \in Frame
         /\ Loop(s, late).slot = s
         /\ Loop(s, late).late = late
         /\ Loop(s, late).running = None
  BY DEF Loop, Frame

\* When the page runs, every loop under way is inside a handler.
LEMMA PageRunsInside ==
  ASSUME Types, LoopsInOrder, PageRuns
  PROVE  \A i \in 1 .. Depth : stack[i].running # None
  BY DEF Types, LoopsInOrder, PageRuns, EngineRuns, Depth, Top

\* A loop that starts while the page runs, over a list that has none and was
\* not interrupted by an exception.
LEMMA PushKeepsLoops ==
  ASSUME Types, LoopsInOrder, PageRuns,
         NEW f \in Frame, f.slot \notin firing,
         stack' = Push(f),
         firing' = firing \cup {f.slot}, fired' = fired \cup {f.slot},
         UNCHANGED broken,
         f.slot[2] = "complete" => f.slot \in fired,
         ~f.late => /\ <<f.slot[1], FALSE>> \notin broken
                    /\ <<f.slot[1], "complete">> \notin fired'
                    /\ \A i \in 1 .. Depth : stack[i].slot[1] # f.slot[1]
  PROVE  stack' \in Seq(Frame) /\ LoopsInOrder'
  <1>1. /\ stack' \in Seq(Frame)
        /\ Len(stack') = Len(stack) + 1
        /\ \A i \in 1 .. Len(stack) : stack'[i] = stack[i]
        /\ stack'[Len(stack) + 1] = f
    BY AppendFacts DEF Types, Push
  <1>2. Len(stack) \in Nat
    BY DEF Types
  <1>3. \A i \in 1 .. Depth : stack[i].running # None
    BY PageRunsInside
  <1>4. \A i \in 1 .. Depth' : i = Depth' \/ i \in 1 .. Depth
    BY <1>1, <1>2 DEF Depth
  <1>5. stack'[Depth'] = f /\ \A i \in 1 .. Depth : stack'[i] = stack[i]
    BY <1>1 DEF Depth
  <1>6. Depth' \in 1 .. Depth' /\ \A i \in 1 .. Depth : i \in 1 .. Depth'
    BY <1>1, <1>2 DEF Depth
  <1>7. \A i \in 1 .. Depth' : stack'[i].slot \in firing'
    BY <1>4, <1>5 DEF LoopsInOrder
  <1>8. \A i \in 1 .. Depth' : i # Depth' => stack'[i].running # None
    BY <1>3, <1>4, <1>5
  <1>9. \A i, j \in 1 .. Depth' : stack'[i].slot = stack'[j].slot => i = j
    BY <1>4, <1>5 DEF LoopsInOrder
  <1>10. \A i, j \in 1 .. Depth' : SameDone(stack'[i], stack'[j]) => i = j
    BY <1>4, <1>5 DEF LoopsInOrder, SameDone
  <1>11. \A i \in 1 .. Depth' :
           ~stack'[i].late => <<stack'[i].slot[1], FALSE>> \notin broken'
    BY <1>4, <1>5 DEF LoopsInOrder
  <1>12. \A i \in 1 .. Depth' : ~stack'[i].late /\ stack'[i].slot[2] \in Answers
                                => <<stack'[i].slot[1], "complete">> \notin fired'
    <2> SUFFICES ASSUME NEW i \in 1 .. Depth',
                        ~stack'[i].late, stack'[i].slot[2] \in Answers
                 PROVE  <<stack'[i].slot[1], "complete">> \notin fired'
      OBVIOUS
    <2>1. CASE i = Depth'
      BY <2>1, <1>5
    <2>2. CASE i \in 1 .. Depth
      <3>1. <<stack[i].slot[1], "complete">> \notin fired
        BY <2>2, <1>5 DEF LoopsInOrder
      <3>2. <<stack[i].slot[1], "complete">> # f.slot
        BY <3>1
      <3> QED
        BY <3>1, <3>2, <2>2, <1>5
    <2> QED
      BY <2>1, <2>2, <1>4
  <1>13. \A s \in firing' : Broken(s[1])' \/ \E i \in 1 .. Depth' : stack'[i].slot = s
    BY <1>5, <1>6 DEF LoopsInOrder, Broken
  <1> QED
    BY <1>1, <1>7, <1>8, <1>9, <1>10, <1>11, <1>12, <1>13 DEF LoopsInOrder

\* The loop that ends is taken off.
LEMMA PopKeepsLoops ==
  ASSUME Types, LoopsInOrder, stack # <<>>, stack' = Pop,
         firing' = firing \ {Top.slot}, UNCHANGED <<fired, broken>>
  PROVE  stack' \in Seq(Frame) /\ LoopsInOrder'
  <1>1. Len(stack) \in Nat \ {0} /\ Depth \in 1 .. Depth
    BY LastFacts DEF Types, Depth
  <1>2. Depth - 1 \in 0 .. Len(stack)
    BY <1>1 DEF Depth
  <1>3. /\ stack' \in Seq(Frame)
        /\ Depth' = Depth - 1
        /\ \A i \in 1 .. Depth - 1 : stack'[i] = stack[i]
    BY <1>2, PrefixFacts DEF Types, Pop, Depth
  <1>4. \A i \in 1 .. Depth' : i \in 1 .. Depth /\ i # Depth /\ stack'[i] = stack[i]
    BY <1>1, <1>3 DEF Depth
  <1>5. \A i \in 1 .. Depth : i = Depth \/ i \in 1 .. Depth'
    BY <1>1, <1>3 DEF Depth
  <1>6. \A i \in 1 .. Depth' : stack'[i].slot \in firing'
    BY <1>1, <1>4 DEF LoopsInOrder, Top
  <1>7. \A s \in firing' : Broken(s[1])' \/ \E i \in 1 .. Depth' : stack'[i].slot = s
    BY <1>1, <1>4, <1>5 DEF LoopsInOrder, Top, Broken
  <1>8. \A i \in 1 .. Depth' : stack'[i].running # None
    BY <1>4 DEF LoopsInOrder
  <1>9. \A i, j \in 1 .. Depth' : stack'[i].slot = stack'[j].slot => i = j
    BY <1>4 DEF LoopsInOrder
  <1>10. \A i, j \in 1 .. Depth' : SameDone(stack'[i], stack'[j]) => i = j
    BY <1>4 DEF LoopsInOrder
  <1>11. \A i \in 1 .. Depth' :
           ~stack'[i].late => <<stack'[i].slot[1], FALSE>> \notin broken'
    BY <1>4 DEF LoopsInOrder
  <1>12. \A i \in 1 .. Depth' : ~stack'[i].late /\ stack'[i].slot[2] \in Answers
                                => <<stack'[i].slot[1], "complete">> \notin fired'
    BY <1>4 DEF LoopsInOrder
  <1> QED
    BY <1>3, <1>6, <1>7, <1>8, <1>9, <1>10, <1>11, <1>12 DEF LoopsInOrder

\* The innermost loop calls a handler, or that handler returns.
LEMMA RunningKeepsLoops ==
  ASSUME Types, LoopsInOrder, stack # <<>>, NEW r \in Handlers \cup {None},
         stack' = [stack EXCEPT ![Depth].running = r],
         UNCHANGED <<fired, firing, broken>>
  PROVE  stack' \in Seq(Frame) /\ LoopsInOrder'
  <1>1. Depth \in 1 .. Len(stack) /\ Top \in Frame
    BY LastFacts DEF Types, Depth, Top
  <1>2. PICK f : f = [Top EXCEPT !.running = r]
    OBVIOUS
  <1>3. f \in Frame /\ f.slot = Top.slot /\ f.late = Top.late
    BY <1>1, <1>2 DEF Frame
  <1>10. Len(stack) \in 1 .. Len(stack) /\ stack \in Seq(Frame)
    BY <1>1 DEF Types, Depth
  <1>11. stack' = [stack EXCEPT ![Len(stack)] = f]
    BY <1>2 DEF Top, Depth
  <1>13. /\ [stack EXCEPT ![Len(stack)] = f] \in Seq(Frame)
         /\ Len([stack EXCEPT ![Len(stack)] = f]) = Len(stack)
         /\ \A i \in 1 .. Len(stack) : [stack EXCEPT ![Len(stack)] = f][i]
                                        = IF i = Len(stack) THEN f ELSE stack[i]
    BY <1>3, <1>10, ExceptFacts
  <1>12. /\ stack' \in Seq(Frame)
         /\ Len(stack') = Len(stack)
         /\ \A i \in 1 .. Len(stack) :
              stack'[i] = IF i = Len(stack) THEN f ELSE stack[i]
    BY <1>11, <1>13, Zenon
  <1>4. /\ stack' \in Seq(Frame)
        /\ Depth' = Depth
        /\ \A i \in 1 .. Depth : stack'[i] = IF i = Depth THEN f ELSE stack[i]
    BY <1>12 DEF Depth
  <1>5. \A i \in 1 .. Depth : /\ stack'[i].slot = stack[i].slot
                              /\ stack'[i].late <=> stack[i].late
                              /\ i # Depth => stack'[i].running = stack[i].running
    BY <1>3, <1>4 DEF Top
  <1>6. \A i \in 1 .. Depth' : /\ i \in 1 .. Depth
                               /\ stack'[i].slot \in firing'
                               /\ i # Depth' => stack'[i].running # None
    BY <1>4, <1>5 DEF LoopsInOrder
  <1>7. \A i, j \in 1 .. Depth' : /\ stack'[i].slot = stack'[j].slot => i = j
                                  /\ SameDone(stack'[i], stack'[j]) => i = j
    BY <1>5, <1>6 DEF LoopsInOrder, SameDone
  <1>8. \A i \in 1 .. Depth' :
          /\ ~stack'[i].late => <<stack'[i].slot[1], FALSE>> \notin broken'
          /\ ~stack'[i].late /\ stack'[i].slot[2] \in Answers
             => <<stack'[i].slot[1], "complete">> \notin fired'
    <2> TAKE i \in 1 .. Depth'
    <2>1. /\ i \in 1 .. Depth
          /\ stack'[i].slot = stack[i].slot
          /\ stack'[i].late <=> stack[i].late
      BY <1>5, <1>6
    <2>2. /\ ~stack[i].late => <<stack[i].slot[1], FALSE>> \notin broken
          /\ ~stack[i].late /\ stack[i].slot[2] \in Answers
             => <<stack[i].slot[1], "complete">> \notin fired
      BY <2>1, Zenon DEF LoopsInOrder
    <2>3. fired' = fired /\ broken' = broken
      OBVIOUS
    <2> QED
      BY <2>1, <2>2, <2>3, Zenon
  <1>9. \A s \in firing' : Broken(s[1])' \/ \E i \in 1 .. Depth' : stack'[i].slot = s
    BY <1>4, <1>5 DEF LoopsInOrder, Broken
  <1> QED
    BY <1>4, <1>6, <1>7, <1>8, <1>9 DEF LoopsInOrder
-----------------------------------------------------------------------------
\* done of a request that was not done: types, requests and loops stay in
\* order.
LEMMA DoneKeepsOrder ==
  ASSUME Types, RequestsInOrder, LoopsInOrder, PageRuns,
         NEW c \in Requests, NEW a \in Answers, state[c] # 2,
         Done(c, a), UNCHANGED broken
  PROVE  /\ state' \in [Requests -> 0 .. 2]
         /\ fired' \subseteq Slots /\ firing' \subseteq fired'
         /\ stack' \in Seq(Frame)
         /\ RequestsInOrder' /\ LoopsInOrder'
  <1>1. <<c, a>> \in Slots /\ a \in Lists /\ "complete" \in Lists /\ a # "complete"
    BY DEF Slots, Lists, Answers
  <1>2. /\ state' = [state EXCEPT ![c] = 2]
        /\ fired' = fired \cup {<<c, a>>}
        /\ firing' = firing \cup {<<c, a>>}
        /\ stack' = Push(Loop(<<c, a>>, FALSE))
    BY DEF Done
  <1>3. /\ \A l \in Lists : <<c, l>> \notin fired /\ <<c, l>> \notin firing
        /\ \A i \in 1 .. Depth : stack[i].slot[1] # c
        /\ \A late \in BOOLEAN : <<c, late>> \notin broken
    BY UntouchedBeforeDone
  <1>4. RequestsInOrder'
    BY <1>1, <1>2, <1>3 DEF RequestsInOrder, Types, Answers, Lists, Slots
  <1>5. stack' \in Seq(Frame) /\ LoopsInOrder'
    <2>1. \A f : f = Loop(<<c, a>>, FALSE) => /\ f \in Frame
                                              /\ f.slot = <<c, a>>
                                              /\ f.late = FALSE
      BY <1>1, LoopFacts
    <2>2. PICK f : f = Loop(<<c, a>>, FALSE)
      OBVIOUS
    <2>3. f \in Frame /\ f.slot = <<c, a>> /\ f.late = FALSE
      BY <2>1, <2>2
    <2>4. f.slot[1] = c /\ f.slot[2] = a
      BY <2>3
    <2> QED
      BY <1>1, <1>2, <1>3, <2>2, <2>3, <2>4, PushKeepsLoops
  <1>6. state' \in [Requests -> 0 .. 2]
    BY <1>2 DEF Types
  <1>7. fired' \subseteq Slots /\ firing' \subseteq fired'
    BY <1>1, <1>2 DEF Types
  <1> QED
    BY <1>4, <1>5, <1>6, <1>7
-----------------------------------------------------------------------------
\* What the handlers' part of the invariant depends on: lists and flags that
\* grow keep it, and a flag may go down over a list that is through.
LEMMA FlagsKeepHandlers ==
  ASSUME Types, HandlersInOrder, UNCHANGED <<list, place, told>>,
         fired \subseteq fired',
         \A s \in fired' : s \in fired \/ s \in firing',
         \A s \in firing \ firing' : list[s] = <<>>
  PROVE  HandlersInOrder'
  <1>1. \A s \in Slots : Disabled(s) => Disabled(s)'
    BY DEF Disabled
  <1>2. list' = list /\ place' = place /\ told' = told
    OBVIOUS
  <1>3. \A h \in Handlers : PlacedTogether(h)'
    BY <1>2 DEF HandlersInOrder, PlacedTogether
  <1>4. \A s \in Slots : \A i \in 1 .. Len(list[s])' :
          /\ place[list[s][i]]' # None
          /\ s \in place[list[s][i]]'
          /\ told[list[s][i]]' # None => Disabled(s)'
    BY <1>1, <1>2 DEF HandlersInOrder
  <1>5. \A h \in Handlers : place'[h] # None /\ told'[h] = None =>
          \A s \in place'[h] : Disabled(s)' \/ \E i \in 1 .. Len(list'[s]) : list'[s][i] = h
    BY <1>1, <1>2 DEF HandlersInOrder, Types
  <1>6. \A s \in fired' : list'[s] = <<>> \/ s \in firing'
    BY <1>2 DEF HandlersInOrder
  <1> QED
    BY <1>2, <1>3, <1>4, <1>5, <1>6 DEF HandlersInOrder

\* The options of a new request are installed: each handler takes one list of
\* a request none of whose lists was fired.
LEMMA InstallKeepsHandlers ==
  ASSUME Types, RequestsInOrder, HandlersInOrder,
         NEW c \in Requests, NEW o \in Options, state[c] = 0, Install(c, o),
         UNCHANGED told,
         fired \subseteq fired', firing \subseteq firing',
         \A s \in fired' : s \in fired \/ s \in firing'
  PROVE  list' \in [Slots -> Seq(Handlers)]
         /\ place' \in [Handlers -> (SUBSET Slots) \cup {None}]
         /\ HandlersInOrder'
  <1> DEFINE new(s) == s[1] = c /\ s[2] \in DOMAIN o
  <1>1. /\ DOMAIN o \subseteq Lists
        /\ \A l \in DOMAIN o : o[l] \in Handlers /\ place[o[l]] = None
        /\ \A l, m \in DOMAIN o : o[l] = o[m] => l = m
    BY DEF Options, Install, Installable
  <1>2. \A s \in Slots : list'[s] = IF new(s) THEN Append(list[s], o[s[2]]) ELSE list[s]
    BY DEF Install
  <1>3. \A h \in Handlers :
          place'[h] = IF \E l \in DOMAIN o : o[l] = h
                      THEN {<<c, l>> : l \in {m \in DOMAIN o : o[m] = h}} ELSE place[h]
    BY DEF Install
  <1>4. \A s \in Slots :
          /\ list'[s] \in Seq(Handlers)
          /\ Len(list[s]) \in Nat
          /\ Len(list'[s]) = IF new(s) THEN Len(list[s]) + 1 ELSE Len(list[s])
          /\ \A i \in 1 .. Len(list[s]) : list'[s][i] = list[s][i]
          /\ new(s) => list'[s][Len(list[s]) + 1] = o[s[2]]
    <2> TAKE s \in Slots
    <2>1. list[s] \in Seq(Handlers) /\ Len(list[s]) \in Nat
      BY DEF Types
    <2>2. CASE new(s)
      <3>1. o[s[2]] \in Handlers /\ list'[s] = Append(list[s], o[s[2]])
        BY <1>1, <1>2, <2>2
      <3> QED
        BY <2>1, <2>2, <3>1, AppendFacts
    <2>3. CASE ~new(s)
      BY <1>2, <2>1, <2>3
    <2> QED
      BY <2>2, <2>3
  <1>5. list' \in [Slots -> Seq(Handlers)]
    BY <1>4 DEF Install
  <1>6. \A l \in DOMAIN o : place'[o[l]] = {<<c, l>>}
    <2> TAKE l \in DOMAIN o
    <2>1. {m \in DOMAIN o : o[m] = o[l]} = {l}
      BY <1>1
    <2>2. {<<c, k>> : k \in {m \in DOMAIN o : o[m] = o[l]}} = {<<c, l>>}
      BY <2>1
    <2> QED
      BY <1>1, <1>3, <2>2
  <1>7. \A h \in Handlers : (\A l \in DOMAIN o : o[l] # h) => place'[h] = place[h]
    BY <1>3
  <1>8. place' \in [Handlers -> (SUBSET Slots) \cup {None}]
    <2>1. \A l \in DOMAIN o : {<<c, l>>} \subseteq Slots
      BY <1>1 DEF Slots
    <2>2. \A h \in Handlers : place'[h] \in (SUBSET Slots) \cup {None}
      BY <1>6, <1>7, <2>1 DEF Types
    <2> QED
      BY <2>2 DEF Install
  <1>9. \A s \in Slots : Disabled(s) => Disabled(s)'
    BY DEF Disabled
  <1>10. \A s \in Slots : \A i \in 1 .. Len(list[s]) :
           /\ list[s][i] \in Handlers
           /\ \A l \in DOMAIN o : o[l] # list[s][i]
           /\ place'[list[s][i]] = place[list[s][i]]
    <2> TAKE s \in Slots
    <2> TAKE i \in 1 .. Len(list[s])
    <2>1. list[s][i] \in Handlers
      BY DEF Types
    <2>2. place[list[s][i]] # None
      BY DEF HandlersInOrder
    <2> QED
      BY <1>1, <1>7, <2>1, <2>2
  <1>11. \A l \in DOMAIN o : told[o[l]] = None /\ place'[o[l]] # None
    <2> TAKE l \in DOMAIN o
    <2>1. told[o[l]] = None
      BY <1>1 DEF HandlersInOrder
    <2>2. {<<c, l>>} \in SUBSET Slots
      BY <1>1 DEF Slots
    <2> QED
      BY <1>6, <2>1, <2>2, NoneAssumption
  <1> HIDE DEF new
  <1>12. \A s \in Slots : \A i \in 1 .. Len(list'[s]) :
           \/ i \in 1 .. Len(list[s]) /\ list'[s][i] = list[s][i]
           \/ /\ i = Len(list[s]) + 1
              /\ s[1] = c /\ s[2] \in DOMAIN o /\ s = <<c, s[2]>>
              /\ list'[s][i] = o[s[2]]
    <2> TAKE s \in Slots
    <2> TAKE i \in 1 .. Len(list'[s])
    <2>1. CASE new(s)
      <3>1. i \in 1 .. Len(list[s]) \/ i = Len(list[s]) + 1
        BY <1>4, <2>1
      <3>2. s[1] = c /\ s[2] \in DOMAIN o /\ s = <<c, s[2]>>
        BY <2>1 DEF new, Slots
      <3> QED
        BY <1>4, <2>1, <3>1, <3>2
    <2>2. CASE ~new(s)
      BY <1>4, <2>2
    <2> QED
      BY <2>1, <2>2
  <1>13. \A h \in Handlers : PlacedTogether(h)'
    <2> TAKE h \in Handlers
    <2>1. CASE \A l \in DOMAIN o : o[l] # h
      BY <2>1, <1>7 DEF HandlersInOrder, PlacedTogether
    <2>2. CASE \E l \in DOMAIN o : o[l] = h
      BY <2>2, <1>1, <1>6 DEF PlacedTogether, Lists, Answers
    <2> QED
      BY <2>1, <2>2
  <1>14. \A s \in Slots : \A i \in 1 .. Len(list'[s]) :
           /\ place'[list'[s][i]] # None
           /\ s \in place'[list'[s][i]]
           /\ told'[list'[s][i]] # None => Disabled(s)'
    <2> TAKE s \in Slots
    <2> TAKE i \in 1 .. Len(list'[s])
    <2>1. CASE i \in 1 .. Len(list[s]) /\ list'[s][i] = list[s][i]
      BY <2>1, <1>9, <1>10 DEF HandlersInOrder
    <2>2. CASE s[2] \in DOMAIN o /\ s = <<c, s[2]>> /\ list'[s][i] = o[s[2]]
      BY <2>2, <1>6, <1>11
    <2> QED
      BY <2>1, <2>2, <1>12
  <1>15. \A s \in Slots : \A i, j \in 1 .. Len(list'[s]) :
           list'[s][i] = list'[s][j] => i = j
    BY <1>10, <1>12 DEF HandlersInOrder
  <1>16. \A h \in Handlers : told'[h] # None => /\ told'[h] \in fired'
                                                /\ place'[h] # None
                                                /\ told'[h] \in place'[h]
    BY <1>7, <1>11 DEF HandlersInOrder
  <1>17. \A h \in Handlers : place'[h] # None /\ told'[h] = None =>
           \A s \in place'[h] : Disabled(s)' \/ \E i \in 1 .. Len(list'[s]) : list'[s][i] = h
    <2> SUFFICES ASSUME NEW h \in Handlers, place'[h] # None, told'[h] = None,
                        NEW s \in place'[h]
                 PROVE  Disabled(s)' \/ \E i \in 1 .. Len(list'[s]) : list'[s][i] = h
      OBVIOUS
    <2>0. s \in Slots
      BY <1>8
    <2>1. CASE \A l \in DOMAIN o : o[l] # h
      <3>1. Disabled(s) \/ \E i \in 1 .. Len(list[s]) : list[s][i] = h
        BY <2>1, <1>7 DEF HandlersInOrder
      <3>2. \A i \in 1 .. Len(list[s]) : i \in 1 .. Len(list'[s])
        BY <1>4, <2>0
      <3> QED
        BY <1>4, <1>9, <2>0, <3>1, <3>2
    <2>2. CASE \E l \in DOMAIN o : o[l] = h
      <3>1. PICK l \in DOMAIN o : o[l] = h
        BY <2>2
      <3>2. s = <<c, l>>
        BY <3>1, <1>6
      <3>3. new(s)
        BY <3>2 DEF new
      <3>4. Len(list[s]) + 1 \in 1 .. Len(list'[s])
        BY <3>3, <1>4, <2>0
      <3> QED
        BY <3>1, <3>2, <3>3, <3>4, <1>4, <2>0
    <2> QED
      BY <2>1, <2>2
  <1>18. \A s \in fired' : list'[s] = <<>> \/ s \in firing'
    <2> SUFFICES ASSUME NEW s \in fired', s \in fired, s \notin firing'
                 PROVE  list'[s] = <<>>
      OBVIOUS
    <2>1. s \in Slots /\ s[1] # c
      BY DEF Types, RequestsInOrder
    <2>2. list[s] = <<>>
      BY DEF HandlersInOrder
    <2> QED
      BY <2>1, <2>2, <1>2 DEF new
  <1> QED
    BY <1>5, <1>8, <1>13, <1>14, <1>15, <1>16, <1>17, <1>18 DEF HandlersInOrder

\* A handler is registered for lists of one request, which take it at their
\* ends; a list that was fired and is not at work starts a loop.
LEMMA RegisterKeepsHandlers ==
  ASSUME Types, RequestsInOrder, HandlersInOrder,
         NEW h \in Handlers, NEW c \in Requests, NEW L \in Choices,
         Register(h, c, L)
  PROVE  list' \in [Slots -> Seq(Handlers)]
         /\ place' \in [Handlers -> (SUBSET Slots) \cup {None}]
         /\ HandlersInOrder'
  <1> DEFINE live == Live(c, L)
  <1>1. /\ L \subseteq Lists
        /\ {c} \X L \in SUBSET Slots /\ {c} \X L # None
        /\ {c} \X L \subseteq {c} \X Answers \/ {c} \X L \subseteq {<<c, "complete">>}
    <2>1. L \subseteq Lists /\ (L \subseteq Answers \/ L \subseteq {"complete"})
      BY DEF Choices, Lists, Answers
    <2>2. {c} \X L \in SUBSET Slots
      BY <2>1 DEF Slots
    <2> QED
      BY <2>1, <2>2, NoneAssumption
  <1>2. /\ place[h] = None /\ told[h] = None
        /\ place' = [place EXCEPT ![h] = {c} \X L]
        /\ list' = Appended(h, live)
        /\ fired' = fired /\ told' = told
    BY DEF Register, HandlersInOrder
  <1>3. /\ firing \subseteq firing'
        /\ \A s \in live \cap fired : s \in firing'
    <2>1. \A s, t \in live \cap fired : s = t
      BY DEF Live, Disabled, RequestsInOrder, Choices, Answers
    <2>2. CASE Ripe(live) = {}
      BY <2>2 DEF Register, Ripe
    <2>3. CASE Ripe(live) # {}
      <3>1. PICK s \in Ripe(live) : firing' = firing \cup {s}
        BY <2>3 DEF Register
      <3> QED
        BY <2>1, <3>1 DEF Ripe
    <2> QED
      BY <2>2, <2>3
  <1>4. live \subseteq {c} \X L /\ \A s \in ({c} \X L) \ live : Disabled(s)
    BY DEF Live
  <1> HIDE DEF live
  <1>5. \A s \in Slots :
          /\ list'[s] \in Seq(Handlers)
          /\ Len(list[s]) \in Nat
          /\ Len(list'[s]) = IF s \in live THEN Len(list[s]) + 1 ELSE Len(list[s])
          /\ \A i \in 1 .. Len(list[s]) : list'[s][i] = list[s][i]
          /\ s \in live => list'[s][Len(list[s]) + 1] = h
          /\ s \notin live => list'[s] = list[s]
    <2> TAKE s \in Slots
    <2>1. list[s] \in Seq(Handlers) /\ Len(list[s]) \in Nat
      BY DEF Types
    <2>2. list'[s] = IF s \in live THEN Append(list[s], h) ELSE list[s]
      BY <1>2 DEF Appended
    <2> QED
      BY <2>1, <2>2, AppendFacts
  <1>6. list' \in [Slots -> Seq(Handlers)]
    BY <1>2, <1>5 DEF Appended
  <1>7. place' \in [Handlers -> (SUBSET Slots) \cup {None}]
    BY <1>1, <1>2 DEF Types
  <1>8. place'[h] = {c} \X L /\ \A g \in Handlers : g # h => place'[g] = place[g]
    BY <1>2 DEF Types
  <1>9. \A s \in Slots : Disabled(s) <=> Disabled(s)'
    BY <1>2 DEF Disabled
  <1>10. \A s \in Slots : \A i \in 1 .. Len(list[s]) :
           list[s][i] \in Handlers /\ list[s][i] # h
    BY <1>2 DEF Types, HandlersInOrder
  <1>11. \A s \in Slots : \A i \in 1 .. Len(list'[s]) :
           \/ i \in 1 .. Len(list[s]) /\ list'[s][i] = list[s][i]
           \/ i = Len(list[s]) + 1 /\ s \in live /\ list'[s][i] = h
    BY <1>5
  <1>12. \A g \in Handlers : PlacedTogether(g)'
    BY <1>1, <1>8 DEF HandlersInOrder, PlacedTogether
  <1>13. \A s \in Slots : \A i \in 1 .. Len(list'[s]) :
           /\ place'[list'[s][i]] # None
           /\ s \in place'[list'[s][i]]
           /\ told'[list'[s][i]] # None => Disabled(s)'
    <2> TAKE s \in Slots
    <2> TAKE i \in 1 .. Len(list'[s])
    <2>1. CASE i \in 1 .. Len(list[s]) /\ list'[s][i] = list[s][i]
      BY <2>1, <1>2, <1>8, <1>9, <1>10 DEF HandlersInOrder
    <2>2. CASE s \in live /\ list'[s][i] = h
      BY <2>2, <1>1, <1>2, <1>4, <1>8
    <2> QED
      BY <2>1, <2>2, <1>11
  <1>14. \A s \in Slots : \A i, j \in 1 .. Len(list'[s]) :
           list'[s][i] = list'[s][j] => i = j
    BY <1>10, <1>11 DEF HandlersInOrder
  <1>15. \A g \in Handlers : told'[g] # None => /\ told'[g] \in fired'
                                                /\ place'[g] # None
                                                /\ told'[g] \in place'[g]
    BY <1>2, <1>8 DEF HandlersInOrder
  <1>16. \A g \in Handlers : place'[g] # None /\ told'[g] = None =>
           \A s \in place'[g] : Disabled(s)' \/ \E i \in 1 .. Len(list'[s]) : list'[s][i] = g
    <2> SUFFICES ASSUME NEW g \in Handlers, place'[g] # None, told'[g] = None,
                        NEW s \in place'[g]
                 PROVE  Disabled(s)' \/ \E i \in 1 .. Len(list'[s]) : list'[s][i] = g
      OBVIOUS
    <2>0. s \in Slots
      BY <1>7
    <2>1. CASE g # h
      <3>1. Disabled(s) \/ \E i \in 1 .. Len(list[s]) : list[s][i] = g
        BY <2>1, <1>2, <1>8 DEF HandlersInOrder
      <3>2. \A i \in 1 .. Len(list[s]) : i \in 1 .. Len(list'[s])
        BY <1>5, <2>0
      <3> QED
        BY <1>5, <1>9, <2>0, <3>1, <3>2
    <2>2. CASE g = h
      <3>1. Disabled(s)' \/ s \in live
        BY <2>2, <1>4, <1>8, <1>9, <2>0
      <3>2. s \in live => Len(list[s]) + 1 \in 1 .. Len(list'[s])
        BY <1>5, <2>0
      <3> QED
        BY <2>2, <3>1, <3>2, <1>5, <2>0
    <2> QED
      BY <2>1, <2>2
  <1>17. \A s \in fired' : list'[s] = <<>> \/ s \in firing'
    <2> SUFFICES ASSUME NEW s \in fired, s \notin firing'
                 PROVE  list'[s] = <<>>
      BY <1>2
    <2>1. s \in Slots /\ s \notin live
      BY <1>3 DEF Types
    <2>2. list[s] = <<>>
      BY <1>3 DEF HandlersInOrder
    <2> QED
      BY <2>1, <2>2, <1>5
  <1> QED
    BY <1>6, <1>7, <1>12, <1>13, <1>14, <1>15, <1>16, <1>17 DEF HandlersInOrder

\* The handler a loop calls was registered for that list, waits nowhere it may
\* still be called from, and was not called before.
LEMMA CallFacts ==
  ASSUME Types, RequestsInOrder, LoopsInOrder, HandlersInOrder, Call
  PROVE  LET s == Top.slot
             h == Head(list[s])
         IN  /\ s \in Slots /\ s \in fired /\ s \in firing
             /\ h \in Handlers
             /\ list[s] # <<>>
             /\ told[h] = None /\ place[h] # None /\ s \in place[h]
             /\ ~Disabled(s)
             /\ \A t \in Slots : t # s /\ t \in place[h] => Disabled(t)
  <1> DEFINE s == Top.slot
             h == Head(list[s])
  <1>1. s \in Slots /\ s \in firing /\ s \in fired
    <2>1. Depth \in 1 .. Depth
      BY LastFacts DEF Types, Depth, Call, EngineRuns
    <2> QED
      BY <2>1 DEF Top, Types, LoopsInOrder
  <1>2. list[s] \in Seq(Handlers) /\ list[s] # <<>>
    BY <1>1 DEF Types, Call
  <1>3. 1 \in 1 .. Len(list[s]) /\ h = list[s][1] /\ h \in Handlers
    BY <1>2, TailFacts
  <1>4. ~Disabled(s)
    <2> SUFFICES ASSUME s[2] \in Answers, NEW a \in Answers \ {s[2]}, <<s[1], a>> \in fired
                 PROVE  FALSE
      BY DEF Disabled
    <2>1. s[1] \in Requests /\ s = <<s[1], s[2]>>
      BY <1>1 DEF Slots
    <2>2. <<s[1], "done">> \in fired /\ <<s[1], "fail">> \in fired
      BY <1>1, <2>1 DEF Answers
    <2> QED
      BY <2>1, <2>2 DEF RequestsInOrder
  <1>5. told[h] = None /\ place[h] # None /\ s \in place[h]
    BY <1>1, <1>3, <1>4 DEF HandlersInOrder
  <1>6. \A t \in Slots : t # s /\ t \in place[h] => Disabled(t)
    <2>1. PlacedTogether(h)
      BY <1>3 DEF HandlersInOrder
    <2> QED
      BY <1>1, <1>5, <2>1 DEF PlacedTogether, Disabled, Slots, Lists, Answers
  <1> QED
    BY <1>1, <1>2, <1>3, <1>4, <1>5, <1>6

\* Calling the next handler of a loop.
LEMMA CallKeepsHandlers ==
  ASSUME Types, RequestsInOrder, LoopsInOrder, HandlersInOrder, Call
  PROVE  list' \in [Slots -> Seq(Handlers)]
         /\ told' \in [Handlers -> Slots \cup {None}]
         /\ HandlersInOrder'
  <1> DEFINE s == Top.slot
             h == Head(list[s])
  <1>1. /\ s \in Slots /\ s \in fired /\ s \in firing
        /\ h \in Handlers
        /\ list[s] # <<>>
        /\ told[h] = None /\ place[h] # None /\ s \in place[h]
        /\ \A t \in Slots : t # s /\ t \in place[h] => Disabled(t)
    BY CallFacts
  <1>2. /\ told' = [told EXCEPT ![h] = s]
        /\ list' = [list EXCEPT ![s] = Tail(list[s])]
        /\ fired' = fired /\ firing' = firing /\ place' = place
    BY DEF Call
  <1>3. /\ list[s] \in Seq(Handlers)
        /\ Tail(list[s]) \in Seq(Handlers)
        /\ Len(list[s]) \in Nat \ {0}
        /\ Len(Tail(list[s])) = Len(list[s]) - 1
        /\ \A i \in 1 .. Len(list[s]) - 1 : Tail(list[s])[i] = list[s][i + 1]
        /\ h = list[s][1]
    <2>1. list[s] \in Seq(Handlers)
      BY <1>1 DEF Types
    <2> QED
      BY <1>1, <2>1, TailFacts
  <1> HIDE DEF s, h
  <1>4. /\ list' \in [Slots -> Seq(Handlers)]
        /\ list'[s] = Tail(list[s])
        /\ \A t \in Slots : t # s => list'[t] = list[t]
    BY <1>1, <1>2, <1>3 DEF Types
  <1>5. /\ told' \in [Handlers -> Slots \cup {None}]
        /\ told'[h] = s
        /\ \A g \in Handlers : g # h => told'[g] = told[g]
    BY <1>1, <1>2 DEF Types
  <1>6. \A t \in Slots : Disabled(t) <=> Disabled(t)'
    BY <1>2 DEF Disabled
  <1>7. \A t \in Slots : \A i \in 1 .. Len(list'[t]) :
          \E j \in 1 .. Len(list[t]) :
             /\ list'[t][i] = list[t][j]
             /\ t = s => j = i + 1 /\ j # 1
             /\ t # s => j = i
    <2> TAKE t \in Slots
    <2> TAKE i \in 1 .. Len(list'[t])
    <2>1. CASE t = s
      <3>1. i \in 1 .. Len(list[s]) - 1
        BY <2>1, <1>3, <1>4
      <3>2. i + 1 \in 1 .. Len(list[s]) /\ i + 1 # 1
        BY <3>1, <1>3
      <3> QED
        BY <2>1, <1>3, <1>4, <3>1, <3>2
    <2>2. CASE t # s
      BY <2>2, <1>4
    <2> QED
      BY <2>1, <2>2
  <1>8. \A t \in Slots : \A i \in 1 .. Len(list'[t]) :
          /\ place'[list'[t][i]] # None
          /\ t \in place'[list'[t][i]]
          /\ told'[list'[t][i]] # None => Disabled(t)'
    <2> TAKE t \in Slots
    <2> TAKE i \in 1 .. Len(list'[t])
    <2>1. PICK j \in 1 .. Len(list[t]) :
             /\ list'[t][i] = list[t][j]
             /\ t = s => j = i + 1 /\ j # 1
      BY <1>7
    <2>2. list[t][j] \in Handlers
      BY DEF Types
    <2>3. /\ place[list[t][j]] # None
          /\ t \in place[list[t][j]]
          /\ told[list[t][j]] # None => Disabled(t)
      BY DEF HandlersInOrder
    <2>4. CASE list[t][j] # h
      BY <2>1, <2>2, <2>3, <2>4, <1>2, <1>5, <1>6
    <2>5. CASE list[t][j] = h
      <3>1. t # s
        <4> SUFFICES ASSUME t = s PROVE FALSE
          OBVIOUS
        <4>1. list[s][j] = list[s][1] /\ j # 1 /\ j \in 1 .. Len(list[s])
          BY <2>1, <2>5, <1>3
        <4>2. 1 \in 1 .. Len(list[s])
          BY <1>3
        <4> QED
          BY <1>1, <4>1, <4>2 DEF HandlersInOrder
      <3> QED
        BY <2>1, <2>3, <2>5, <3>1, <1>1, <1>2, <1>6
    <2> QED
      BY <2>4, <2>5
  <1>9. \A t \in Slots : \A i, j \in 1 .. Len(list'[t]) :
          list'[t][i] = list'[t][j] => i = j
    <2> SUFFICES ASSUME NEW t \in Slots,
                        NEW i \in 1 .. Len(list'[t]), NEW j \in 1 .. Len(list'[t]),
                        list'[t][i] = list'[t][j]
                 PROVE  i = j
      OBVIOUS
    <2>1. PICK m \in 1 .. Len(list[t]) :
             list'[t][i] = list[t][m] /\ (t = s => m = i + 1) /\ (t # s => m = i)
      BY <1>7
    <2>2. PICK n \in 1 .. Len(list[t]) :
             list'[t][j] = list[t][n] /\ (t = s => n = j + 1) /\ (t # s => n = j)
      BY <1>7
    <2>3. m = n
      BY <2>1, <2>2 DEF HandlersInOrder
    <2> QED
      BY <2>1, <2>2, <2>3
  <1>10. \A g \in Handlers : told'[g] # None => /\ told'[g] \in fired'
                                                /\ place'[g] # None
                                                /\ told'[g] \in place'[g]
    BY <1>1, <1>2, <1>5 DEF HandlersInOrder
  <1>11. \A g \in Handlers : place'[g] # None /\ told'[g] = None =>
           \A t \in place'[g] : Disabled(t)' \/ \E i \in 1 .. Len(list'[t]) : list'[t][i] = g
    <2> SUFFICES ASSUME NEW g \in Handlers, place'[g] # None, told'[g] = None,
                        NEW t \in place'[g], ~Disabled(t)
                 PROVE  \E i \in 1 .. Len(list'[t]) : list'[t][i] = g
      BY <1>2, <1>6 DEF Types
    <2>1. g # h /\ told[g] = None /\ t \in Slots
      <3>1. s # None
        BY <1>1, NoneAssumption
      <3> QED
        BY <3>1, <1>2, <1>5 DEF Types
    <2>2. PICK j \in 1 .. Len(list[t]) : list[t][j] = g
      BY <2>1, <1>2 DEF HandlersInOrder
    <2>3. CASE t # s
      BY <2>1, <2>2, <2>3, <1>4
    <2>4. CASE t = s
      <3>1. j # 1
        BY <2>1, <2>2, <2>4, <1>3
      <3>2. j - 1 \in 1 .. Len(list[s]) - 1 /\ (j - 1) + 1 = j
        BY <2>4, <3>1, <1>3
      <3>3. list'[t][j - 1] = g /\ j - 1 \in 1 .. Len(list'[t])
        BY <2>2, <2>4, <3>2, <1>3, <1>4
      <3> QED
        BY <3>3
    <2> QED
      BY <2>3, <2>4
  <1>12. \A t \in fired' : list'[t] = <<>> \/ t \in firing'
    BY <1>1, <1>2, <1>4 DEF HandlersInOrder, Types
  <1>13. \A g \in Handlers : PlacedTogether(g)'
    BY <1>2 DEF HandlersInOrder, PlacedTogether
  <1> QED
    BY <1>4, <1>5, <1>8, <1>9, <1>10, <1>11, <1>12, <1>13 DEF HandlersInOrder

\* An exception ends the loops above the handler that catches it.
LEMMA ThrowKeepsOrder ==
  ASSUME Types, RequestsInOrder, LoopsInOrder, NEW k \in 0 .. Depth - 1, Throw(k)
  PROVE  /\ stack' \in Seq(Frame)
         /\ broken' \subseteq Requests \X BOOLEAN
         /\ RequestsInOrder' /\ LoopsInOrder'
  <1>1. Depth \in Nat /\ k \in 0 .. Len(stack) /\ stack \in Seq(Frame)
    BY DEF Types, Depth
  <1>2. /\ stack' = SubSeq(stack, 1, k)
        /\ fired' = fired /\ firing' = firing /\ state' = state
        /\ broken' = broken \cup {<<stack[i].slot[1], stack[i].late>> : i \in k + 1 .. Depth}
    BY DEF Throw
  <1>3. /\ stack' \in Seq(Frame)
        /\ Depth' = k
        /\ \A i \in 1 .. k : stack'[i] = stack[i]
    BY <1>1, <1>2, PrefixFacts DEF Depth
  <1>4. /\ \A i \in 1 .. k : i \in 1 .. Depth /\ i # Depth
        /\ \A i \in 1 .. Depth : i \in 1 .. k \/ i \in k + 1 .. Depth
        /\ \A i \in k + 1 .. Depth : i \in 1 .. Depth /\ i \notin 1 .. k
    BY <1>1
  <1>5. \A i \in 1 .. Depth : /\ stack[i].slot \in Slots
                              /\ stack[i].slot \in fired
                              /\ stack[i].slot[1] \in Requests
                              /\ stack[i].late \in BOOLEAN
    <2> TAKE i \in 1 .. Depth
    <2>1. stack[i] \in Frame
      BY DEF Types, Depth
    <2>2. stack[i].slot \in fired
      BY DEF Types, LoopsInOrder
    <2> QED
      BY <2>1, <2>2 DEF Frame, Slots
  <1>6. broken' \subseteq Requests \X BOOLEAN
    <2>1. \A i \in k + 1 .. Depth :
            <<stack[i].slot[1], stack[i].late>> \in Requests \X BOOLEAN
      BY <1>4, <1>5
    <2> QED
      BY <1>2, <2>1 DEF Types
  <1>7. RequestsInOrder'
    <2>1. \A b \in broken' : state'[b[1]] = 2
      BY <1>2, <1>4, <1>5 DEF RequestsInOrder
    <2> QED
      BY <1>2, <2>1 DEF RequestsInOrder
  <1>8. \A i \in 1 .. Depth' : /\ stack'[i].slot \in firing'
                               /\ stack'[i].running # None
    BY <1>2, <1>3, <1>4 DEF LoopsInOrder
  <1>9. \A i, j \in 1 .. Depth' : /\ stack'[i].slot = stack'[j].slot => i = j
                                  /\ SameDone(stack'[i], stack'[j]) => i = j
    BY <1>3, <1>4 DEF LoopsInOrder
  <1>10. \A i \in 1 .. Depth' :
           ~stack'[i].late => <<stack'[i].slot[1], FALSE>> \notin broken'
    <2> SUFFICES ASSUME NEW i \in 1 .. k, ~stack[i].late
                 PROVE  <<stack[i].slot[1], FALSE>> \notin broken'
      BY <1>3
    <2>1. <<stack[i].slot[1], FALSE>> \notin broken
      BY <1>4 DEF LoopsInOrder
    <2>2. \A j \in k + 1 .. Depth :
            <<stack[j].slot[1], stack[j].late>> # <<stack[i].slot[1], FALSE>>
      <3> SUFFICES ASSUME NEW j \in k + 1 .. Depth,
                          stack[j].slot[1] = stack[i].slot[1], stack[j].late = FALSE
                   PROVE  FALSE
        OBVIOUS
      <3>1. SameDone(stack[i], stack[j])
        BY DEF SameDone
      <3> QED
        BY <3>1, <1>4 DEF LoopsInOrder
    <2> QED
      BY <2>1, <2>2, <1>2
  <1>11. \A i \in 1 .. Depth' : ~stack'[i].late /\ stack'[i].slot[2] \in Answers
                                => <<stack'[i].slot[1], "complete">> \notin fired'
    BY <1>2, <1>3, <1>4 DEF LoopsInOrder
  <1>12. \A s \in firing' : Broken(s[1])' \/ \E i \in 1 .. Depth' : stack'[i].slot = s
    <2> SUFFICES ASSUME NEW s \in firing, ~Broken(s[1])'
                 PROVE  \E i \in 1 .. k : stack[i].slot = s
      BY <1>2, <1>3
    <2>1. \A late \in BOOLEAN : <<s[1], late>> \notin broken'
      BY DEF Broken
    <2>2. PICK i \in 1 .. Depth : stack[i].slot = s
      BY <2>1, <1>2 DEF LoopsInOrder, Broken
    <2>3. i \notin k + 1 .. Depth
      BY <2>1, <2>2, <1>2, <1>5
    <2> QED
      BY <2>2, <2>3, <1>4
  <1> QED
    BY <1>3, <1>6, <1>7, <1>8, <1>9, <1>10, <1>11, <1>12 DEF LoopsInOrder

\* done goes on from the answer to complete.
LEMMA EndAnswerKeepsOrder ==
  ASSUME Types, RequestsInOrder, LoopsInOrder, stack # <<>>,
         EndAnswer, UNCHANGED <<state, broken>>
  PROVE  /\ fired' \subseteq Slots /\ firing' \subseteq fired'
         /\ stack' \in Seq(Frame)
         /\ RequestsInOrder' /\ LoopsInOrder'
  <1> DEFINE c == Top.slot[1]
             next == <<c, "complete">>
  <1>1. Len(stack) \in Nat \ {0} /\ Depth \in 1 .. Depth /\ Top \in Frame
    BY LastFacts DEF Types, Depth, Top
  <1>2. /\ Top.slot \in Slots /\ c \in Requests /\ Top.slot \in firing
        /\ Top.late = FALSE /\ Top.slot[2] \in Answers
        /\ Top.slot = <<c, Top.slot[2]>>
    <2>1. Top.slot \in Slots /\ Top.late \in BOOLEAN
      BY <1>1 DEF Frame
    <2> QED
      BY <1>1, <2>1 DEF Top, LoopsInOrder, EndAnswer, Slots
  <1>3. /\ stack' = Append(Pop, Loop(next, FALSE))
        /\ firing' = (firing \ {Top.slot}) \cup {next}
        /\ fired' = fired \cup {next}
        /\ state' = state /\ broken' = broken
    BY DEF EndAnswer
  <1>4. next \in Slots
    BY <1>2 DEF Slots, Lists
  <1>5. next \notin fired /\ next \notin firing /\ <<c, FALSE>> \notin broken
    <2>1. ~stack[Depth].late /\ stack[Depth].slot = Top.slot
      BY <1>2 DEF Top
    <2> QED
      BY <1>1, <1>2, <2>1 DEF LoopsInOrder, Types
  <1>6. PICK f : f = Loop(next, FALSE)
    OBVIOUS
  <1>7. f \in Frame /\ f.slot = next /\ f.late = FALSE
    <2>1. /\ Loop(next, FALSE) \in Frame
          /\ Loop(next, FALSE).slot = next
          /\ Loop(next, FALSE).late = FALSE
      BY <1>4, LoopFacts
    <2> QED
      BY <1>6, <2>1
  <1>8. /\ stack' \in Seq(Frame)
        /\ Depth' = Depth
        /\ stack'[Depth] = f
        /\ \A i \in 1 .. Depth : i # Depth => stack'[i] = stack[i]
    <2>1. /\ Pop \in Seq(Frame)
          /\ Len(Pop) = Depth - 1
          /\ \A i \in 1 .. Depth - 1 : Pop[i] = stack[i]
      <3>1. Depth - 1 \in 0 .. Len(stack)
        BY <1>1 DEF Depth
      <3> QED
        BY <3>1, PrefixFacts DEF Types, Pop
    <2>2. /\ stack' \in Seq(Frame)
          /\ Len(stack') = Len(Pop) + 1
          /\ \A i \in 1 .. Len(Pop) : stack'[i] = Pop[i]
          /\ stack'[Len(Pop) + 1] = f
      <3>1. PICK q : q = Pop
        OBVIOUS
      <3>2. stack' = Append(q, f)
        BY <1>3, <1>6, <3>1
      <3> QED
        BY <1>7, <2>1, <3>1, <3>2, AppendFacts
    <2>3. Depth = Len(stack) /\ Depth' = Len(stack')
      BY DEF Depth
    <2>4. Depth \in Nat /\ Len(Pop) + 1 = Depth
      BY <1>1, <2>1, <2>3
    <2>5. \A i \in 1 .. Depth : i # Depth => i \in 1 .. Len(Pop) /\ i \in 1 .. Depth - 1
      BY <2>1, <2>4
    <2> QED
      BY <2>1, <2>2, <2>3, <2>4, <2>5
  <1> HIDE DEF c, next
  <1>9. fired' \subseteq Slots /\ firing' \subseteq fired'
    BY <1>3, <1>4 DEF Types
  <1>10. next[1] = c /\ next[2] = "complete" /\ "complete" \notin Answers
    BY DEF next, Answers
  <1>11. RequestsInOrder'
    <2>1. <<c, "done">> \in fired \/ <<c, "fail">> \in fired
      BY <1>2 DEF Types, Answers
    <2>2. state[c] = 2
      BY <1>2 DEF Types, RequestsInOrder
    <2>3. \A s \in fired' : state'[s[1]] = 2
      BY <1>3, <1>10, <2>2 DEF RequestsInOrder
    <2>4. \A d \in Requests : <<d, "done">> # next /\ <<d, "fail">> # next
      BY <1>10
    <2>5. \A d \in Requests : <<d, "complete">> = next => d = c
      BY DEF next
    <2> QED
      BY <1>3, <2>1, <2>3, <2>4, <2>5 DEF RequestsInOrder
  <1>12. \A i \in 1 .. Depth : i # Depth => /\ stack[i].slot # Top.slot
                                            /\ stack[i].slot # next
                                            /\ ~stack[i].late => stack[i].slot[1] # c
    <2> SUFFICES ASSUME NEW i \in 1 .. Depth, i # Depth
                 PROVE  /\ stack[i].slot # Top.slot
                        /\ stack[i].slot # next
                        /\ ~stack[i].late => stack[i].slot[1] # c
      OBVIOUS
    <2>1. stack[i].slot # Top.slot
      BY <1>1 DEF LoopsInOrder, Top
    <2>2. stack[i].slot # next
      BY <1>5 DEF LoopsInOrder
    <2>3. ~stack[i].late => stack[i].slot[1] # c
      BY <1>1, <1>2 DEF LoopsInOrder, SameDone, Top, c
    <2> QED
      BY <2>1, <2>2, <2>3
  <1>13. \A i \in 1 .. Depth' : /\ stack'[i].slot \in firing'
                                /\ i # Depth' => stack'[i].running # None
    BY <1>3, <1>7, <1>8, <1>12 DEF LoopsInOrder
  <1>14. \A i, j \in 1 .. Depth' : /\ stack'[i].slot = stack'[j].slot => i = j
                                   /\ SameDone(stack'[i], stack'[j]) => i = j
    <2>1. \A i, j \in 1 .. Depth' : stack'[i].slot = stack'[j].slot => i = j
      BY <1>7, <1>8, <1>12 DEF LoopsInOrder
    <2>2. \A i \in 1 .. Depth : i # Depth => ~SameDone(stack[i], f) /\ ~SameDone(f, stack[i])
      BY <1>7, <1>10, <1>12 DEF SameDone
    <2>3. \A i, j \in 1 .. Depth' : SameDone(stack'[i], stack'[j]) => i = j
      BY <1>8, <2>2 DEF LoopsInOrder
    <2> QED
      BY <2>1, <2>3
  <1>15. \A i \in 1 .. Depth' :
           ~stack'[i].late => <<stack'[i].slot[1], FALSE>> \notin broken'
    BY <1>3, <1>5, <1>7, <1>8, <1>10 DEF LoopsInOrder
  <1>16. \A i \in 1 .. Depth' : ~stack'[i].late /\ stack'[i].slot[2] \in Answers
                                => <<stack'[i].slot[1], "complete">> \notin fired'
    <2> SUFFICES ASSUME NEW i \in 1 .. Depth', ~stack'[i].late, stack'[i].slot[2] \in Answers
                 PROVE  <<stack'[i].slot[1], "complete">> \notin fired'
      OBVIOUS
    <2>1. i # Depth /\ i \in 1 .. Depth /\ stack'[i] = stack[i]
      BY <1>7, <1>8, <1>10
    <2>2. <<stack[i].slot[1], "complete">> \notin fired
      BY <2>1 DEF LoopsInOrder
    <2>3. stack[i].slot[1] # c
      BY <2>1, <1>12
    <2> QED
      BY <2>1, <2>2, <2>3, <1>3, <1>10
  <1>17. \A s \in firing' : Broken(s[1])' \/ \E i \in 1 .. Depth' : stack'[i].slot = s
    <2> SUFFICES ASSUME NEW s \in firing'
                 PROVE  Broken(s[1])' \/ \E i \in 1 .. Depth' : stack'[i].slot = s
      OBVIOUS
    <2>1. CASE s = next
      BY <2>1, <1>1, <1>7, <1>8
    <2>2. CASE s \in firing /\ s # Top.slot
      <3>1. Broken(s[1]) \/ \E i \in 1 .. Depth : stack[i].slot = s
        BY <2>2 DEF LoopsInOrder
      <3>2. \A i \in 1 .. Depth : stack[i].slot = s => i # Depth
        BY <2>2 DEF Top
      <3> QED
        BY <1>3, <1>8, <3>1, <3>2 DEF Broken
    <2> QED
      BY <2>1, <2>2, <1>3
  <1> QED
    BY <1>8, <1>9, <1>11, <1>13, <1>14, <1>15, <1>16, <1>17 DEF LoopsInOrder
-----------------------------------------------------------------------------
\* Core, the inductive invariant without the counter.
LEMMA InitCore == Init => Core
  <1> SUFFICES ASSUME Init PROVE Core
    OBVIOUS
  <1>1. /\ \A s \in Slots : list[s] = <<>>
        /\ fired = {} /\ firing = {} /\ stack = <<>> /\ broken = {}
        /\ \A h \in Handlers : place[h] = None /\ told[h] = None
        /\ Depth = 0
    BY DEF Init, Depth
  <1>2. Types
    BY DEF Init, Types
  <1>3. \A s \in Slots : Len(list[s]) = 0
    BY <1>1
  <1> QED
    BY <1>1, <1>2, <1>3
       DEF Core, RequestsInOrder, LoopsInOrder, HandlersInOrder, PlacedTogether

\* Starting a request.
LEMMA SendKeepsCore ==
  ASSUME Core, NEW c \in Requests, NEW o \in Options, NEW a \in Answers,
         Send(c, o) \/ SendDone(c, o, a)
  PROVE  Core'
  <1> USE DEF Core
  <1>1. /\ PageRuns /\ state[c] = 0 /\ Install(c, o)
        /\ told' = told /\ broken' = broken
    BY DEF Send, SendDone
  <1>2. fired \subseteq fired' /\ firing \subseteq firing'
        /\ \A s \in fired' : s \in fired \/ s \in firing'
    BY DEF Send, SendDone, Done
  <1>3. list' \in [Slots -> Seq(Handlers)]
        /\ place' \in [Handlers -> (SUBSET Slots) \cup {None}]
        /\ HandlersInOrder'
    BY <1>1, <1>2, InstallKeepsHandlers
  <1>4. CASE Send(c, o)
    <2>1. /\ state' = [state EXCEPT ![c] = 1]
          /\ fired' = fired /\ firing' = firing /\ stack' = stack
      BY <1>4 DEF Send
    <2>2. Types'
      BY <1>1, <1>3, <2>1 DEF Types
    <2>3. RequestsInOrder'
      BY <1>1, <2>1 DEF RequestsInOrder, Types, Slots
    <2>4. LoopsInOrder'
      BY <1>1, <2>1 DEF LoopsInOrder, Depth, Broken
    <2> QED
      BY <1>3, <2>2, <2>3, <2>4
  <1>5. CASE SendDone(c, o, a)
    <2>1. Done(c, a)
      BY <1>5 DEF SendDone
    <2>2. /\ state' \in [Requests -> 0 .. 2]
          /\ fired' \subseteq Slots /\ firing' \subseteq fired'
          /\ stack' \in Seq(Frame)
          /\ RequestsInOrder' /\ LoopsInOrder'
      BY <1>1, <2>1, DoneKeepsOrder
    <2> QED
      BY <1>1, <1>3, <2>2 DEF Types
  <1> QED
    BY <1>4, <1>5

\* An answer, the timer, or an abort of an open request.
LEMMA AnswerKeepsCore ==
  ASSUME Core, PageRuns, NEW c \in Requests, NEW a \in Answers, Open(c),
         Done(c, a), UNCHANGED <<list, active, place, told, broken>>
  PROVE  Core'
  <1>1. /\ state' \in [Requests -> 0 .. 2]
        /\ fired' \subseteq Slots /\ firing' \subseteq fired'
        /\ stack' \in Seq(Frame)
        /\ RequestsInOrder' /\ LoopsInOrder'
    BY DoneKeepsOrder DEF Core, Open
  <1>2. HandlersInOrder'
    <2>1. /\ fired \subseteq fired'
          /\ \A s \in fired' : s \in fired \/ s \in firing'
          /\ \A s \in firing \ firing' : list[s] = <<>>
      BY DEF Done
    <2> QED
      BY <2>1, FlagsKeepHandlers DEF Core
  <1> QED
    BY <1>1, <1>2 DEF Core, Types

\* Registering a handler.
LEMMA RegisterKeepsCore ==
  ASSUME Core, NEW h \in Handlers, NEW c \in Requests, NEW L \in Choices,
         Register(h, c, L)
  PROVE  Core'
  <1> USE DEF Core
  <1>1. list' \in [Slots -> Seq(Handlers)]
        /\ place' \in [Handlers -> (SUBSET Slots) \cup {None}]
        /\ HandlersInOrder'
    BY RegisterKeepsHandlers
  <1>2. /\ PageRuns /\ state' = state /\ fired' = fired /\ told' = told
        /\ broken' = broken
    BY DEF Register
  <1>3. firing' \subseteq fired' /\ stack' \in Seq(Frame) /\ LoopsInOrder'
    <2>1. CASE UNCHANGED <<firing, stack>>
      BY <2>1, <1>2 DEF Types, LoopsInOrder, Depth, Broken
    <2>2. CASE \E s \in Ripe(Live(c, L)) : /\ firing' = firing \cup {s}
                                           /\ stack' = Push(Loop(s, TRUE))
      <3>1. PICK s \in Ripe(Live(c, L)) : /\ firing' = firing \cup {s}
                                          /\ stack' = Push(Loop(s, TRUE))
        BY <2>2
      <3>2. s \in fired /\ s \notin firing /\ s \in Slots
        BY DEF Ripe, Types
      <3>3. PICK f : f = Loop(s, TRUE)
        OBVIOUS
      <3>4. f \in Frame /\ f.slot = s /\ f.late = TRUE
        <4>1. /\ Loop(s, TRUE) \in Frame
              /\ Loop(s, TRUE).slot = s
              /\ Loop(s, TRUE).late = TRUE
          BY <3>2, LoopFacts
        <4> QED
          BY <3>3, <4>1
      <3>5. stack' = Push(f) /\ fired' = fired \cup {f.slot}
        BY <1>2, <3>1, <3>2, <3>3, <3>4
      <3>6. stack' \in Seq(Frame) /\ LoopsInOrder'
        BY <1>2, <3>1, <3>2, <3>4, <3>5, PushKeepsLoops
      <3> QED
        BY <1>2, <3>1, <3>2, <3>6 DEF Types
    <2> QED
      BY <2>1, <2>2 DEF Register
  <1>4. RequestsInOrder'
    BY <1>2 DEF RequestsInOrder
  <1> QED
    BY <1>1, <1>2, <1>3, <1>4 DEF Types

\* The engine's steps and the end of a handler.
LEMMA StepKeepsCore ==
  ASSUME Core, Step \/ Leave
  PROVE  Core'
  <1> USE DEF Core
  <1>1. CASE Call
    <2>1. /\ state' = state /\ fired' = fired /\ firing' = firing
          /\ place' = place /\ broken' = broken /\ stack # <<>>
      BY <1>1 DEF Call, EngineRuns
    <2>2. list' \in [Slots -> Seq(Handlers)]
          /\ told' \in [Handlers -> Slots \cup {None}]
          /\ HandlersInOrder'
      BY <1>1, CallKeepsHandlers
    <2>3. Head(list[Top.slot]) \in Handlers \cup {None}
      BY <1>1, CallFacts
    <2>4. stack' = [stack EXCEPT ![Depth].running = Head(list[Top.slot])]
      BY <1>1 DEF Call
    <2>5. stack' \in Seq(Frame) /\ LoopsInOrder'
      BY <2>1, <2>3, <2>4, RunningKeepsLoops
    <2> QED
      BY <2>1, <2>2, <2>5 DEF Types, RequestsInOrder
  <1>2. CASE Return
    <2>1. /\ UNCHANGED <<state, list, fired, firing, active, place, told, broken>>
          /\ stack # <<>>
          /\ stack' = [stack EXCEPT ![Depth].running = None]
      BY <1>2 DEF Return
    <2>2. stack' \in Seq(Frame) /\ LoopsInOrder'
      BY <2>1, RunningKeepsLoops
    <2>3. HandlersInOrder'
      BY <2>1, FlagsKeepHandlers
    <2> QED
      BY <2>1, <2>2, <2>3 DEF Types, RequestsInOrder
  <1>3. ASSUME NEW k \in 0 .. Depth - 1, Throw(k)
        PROVE  Core'
    <2>1. UNCHANGED <<state, list, fired, firing, active, place, told>>
      BY <1>3 DEF Throw
    <2>2. /\ stack' \in Seq(Frame)
          /\ broken' \subseteq Requests \X BOOLEAN
          /\ RequestsInOrder' /\ LoopsInOrder'
      BY <1>3, ThrowKeepsOrder
    <2>3. HandlersInOrder'
      BY <2>1, FlagsKeepHandlers
    <2> QED
      BY <2>1, <2>2, <2>3 DEF Types
  <1>4. CASE EndLoop
    <2>1. /\ UNCHANGED <<state, list, place, told, broken>>
          /\ stack # <<>> /\ list[Top.slot] = <<>>
          /\ EndLate \/ EndAnswer \/ EndRequest
      BY <1>4 DEF EndLoop, EngineRuns, Through
    <2>2. CASE EndLate \/ EndRequest
      <3>1. /\ stack' = Pop /\ firing' = firing \ {Top.slot}
            /\ fired' = fired /\ broken' = broken
        BY <2>1, <2>2 DEF EndLate, EndRequest
      <3>2. stack' \in Seq(Frame) /\ LoopsInOrder'
        BY <2>1, <3>1, PopKeepsLoops
      <3>3. HandlersInOrder'
        BY <2>1, <3>1, FlagsKeepHandlers
      <3> QED
        BY <2>1, <3>1, <3>2, <3>3 DEF Types, RequestsInOrder
    <2>3. CASE EndAnswer
      <3>1. /\ fired' \subseteq Slots /\ firing' \subseteq fired'
            /\ stack' \in Seq(Frame)
            /\ RequestsInOrder' /\ LoopsInOrder'
        BY <2>1, <2>3, EndAnswerKeepsOrder
      <3>2. HandlersInOrder'
        <4>1. /\ fired \subseteq fired'
              /\ \A s \in fired' : s \in fired \/ s \in firing'
              /\ \A s \in firing \ firing' : s = Top.slot
          BY <2>3 DEF EndAnswer
        <4> QED
          BY <2>1, <4>1, FlagsKeepHandlers
      <3> QED
        BY <2>1, <3>1, <3>2 DEF Types
    <2> QED
      BY <2>1, <2>2, <2>3
  <1> QED
    BY <1>1, <1>2, <1>3, <1>4 DEF Step, Leave

\* Every step keeps Core.
LEMMA NextKeepsCore == Core /\ [Next]_vars => Core'
  <1> SUFFICES ASSUME Core, [Next]_vars PROVE Core'
    OBVIOUS
  <1>1. ASSUME NEW c \in Requests, NEW a \in Answers,
               Expire(c) \/ Abort(c) \/ Respond(c, a)
        PROVE  Core'
    <2>1. "fail" \in Answers /\ (Idle => PageRuns)
      BY DEF Answers, Idle, PageRuns, EngineRuns
    <2>2. \E b \in Answers : /\ PageRuns /\ Open(c) /\ Done(c, b)
                             /\ UNCHANGED <<list, active, place, told, broken>>
      BY <1>1, <2>1 DEF Expire, Abort, Respond
    <2> QED
      BY <2>2, AnswerKeepsCore
  <1>2. CASE UNCHANGED vars
    <2>1. Types'
      BY <1>2 DEF vars, Core, Types
    <2>2. RequestsInOrder'
      BY <1>2 DEF vars, Core, RequestsInOrder
    <2>3. LoopsInOrder'
      BY <1>2 DEF vars, Core, LoopsInOrder, Depth, Broken
    <2>4. HandlersInOrder'
      BY <1>2, FlagsKeepHandlers DEF vars, Core
    <2> QED
      BY <2>1, <2>2, <2>3, <2>4 DEF Core
  <1>3. \E a : a \in Answers
    BY DEF Answers
  <1> QED
    BY <1>1, <1>2, <1>3, SendKeepsCore, RegisterKeepsCore, StepKeepsCore DEF Next

\* Types, requests, loops and handlers stay in order: what has been fired belongs
\* to a request that is done, a list has one loop at most, and a handler waits
\* wherever it may still be called.
THEOREM CoreHolds == Spec => []Core
  <1> QED
    BY InitCore, NextKeepsCore, PTL DEF Spec
-----------------------------------------------------------------------------
\* Whatever is registered for an answer is called, for all requests and
\* handlers: it waits in a list whose loop is gone without an exception, and
\* there is no such list.
THEOREM NobodyForgotten == Spec => []NobodyIsForgotten
  <1>1. Core => NobodyIsForgotten
    <2> SUFFICES ASSUME Core, NEW h \in Handlers, Idle, Concerned(h),
                        \A s \in place[h] : ~Broken(s[1]), told[h] = None
                 PROVE  FALSE
      BY DEF NobodyIsForgotten
    <2>1. PICK s \in place[h] : s \in fired
      BY DEF Concerned
    <2>2. s \in Slots
      BY <2>1 DEF Core, Types
    <2>3. CASE Disabled(s)
      <3>1. PICK a \in Answers \ {s[2]} : <<s[1], a>> \in fired
        BY <2>3 DEF Disabled
      <3>2. s[2] \in Answers /\ s[1] \in Requests /\ s = <<s[1], s[2]>>
        BY <2>2, <2>3 DEF Disabled, Slots
      <3> QED
        BY <2>1, <3>1, <3>2 DEF Core, RequestsInOrder, Answers
    <2>4. CASE ~Disabled(s)
      <3>1. \E i \in 1 .. Len(list[s]) : list[s][i] = h
        BY <2>1, <2>4 DEF Core, HandlersInOrder, Concerned
      <3>2. list[s] # <<>>
        BY <3>1
      <3>3. s \in firing
        BY <2>1, <3>2 DEF Core, HandlersInOrder
      <3>4. Depth = 0
        BY DEF Idle, Depth
      <3>5. Broken(s[1]) \/ \E i \in 1 .. Depth : stack[i].slot = s
        BY <3>3 DEF Core, LoopsInOrder
      <3> QED
        BY <2>1, <3>4, <3>5
    <2> QED
      BY <2>3, <2>4
  <1> QED
    BY <1>1, CoreHolds, PTL

\* The only step that calls a handler.
LEMMA OnlyCallTells ==
  ASSUME Core, [Next]_vars, told' # told
  PROVE  Call
  BY DEF Next, vars, Send, SendDone, Respond, Expire, Abort, Register,
         Step, EndLoop, Leave, Return, Throw

\* complete is called last, for all requests and handlers.
THEOREM CompleteLast == Spec => CompleteComesLast
  <1>1. ASSUME Core, [Next]_vars, NEW h \in Handlers,
               told[h] = None, told'[h] # None, told'[h][2] = "complete",
               NEW a \in Answers, <<told'[h][1], a>> \in fired
        PROVE  LET s == <<told'[h][1], a>>
               IN list[s] = <<>> \/ LateLoop(s) \/ Broken(s[1])
    <2>1. Call
      BY <1>1, OnlyCallTells
    <2>2. Top.slot \in Slots /\ Top.slot \in fired /\ told'[h] = Top.slot
      <3>1. Top.slot \in Slots /\ Top.slot \in fired /\ Head(list[Top.slot]) \in Handlers
        BY <1>1, <2>1, CallFacts DEF Core
      <3> QED
        BY <1>1, <2>1, <3>1 DEF Call, Core, Types
    <2>3. PICK s : s = <<told'[h][1], a>>
      OBVIOUS
    <2>4. /\ s \in fired /\ s[1] = told'[h][1] /\ s[2] \in Answers
          /\ <<s[1], "complete">> \in fired
      BY <1>1, <2>2, <2>3 DEF Slots
    <2>5. list[s] = <<>> \/ s \in firing
      BY <1>1, <2>4 DEF Core, HandlersInOrder
    <2>6. s \in firing => Broken(s[1]) \/ LateLoop(s)
      BY <1>1, <2>4 DEF Core, LoopsInOrder, LateLoop
    <2> QED
      BY <2>3, <2>5, <2>6
  <1>2. Core /\ [Next]_vars =>
          [\A h \in Handlers :
             told[h] = None /\ told'[h] # None /\ told'[h][2] = "complete"
             => \A a \in Answers :
                  LET s == <<told'[h][1], a>>
                  IN s \in fired => list[s] = <<>> \/ LateLoop(s) \/ Broken(s[1])]_vars
    BY <1>1
  <1> QED
    BY <1>2, CoreHolds, PTL DEF Spec, CompleteComesLast
-----------------------------------------------------------------------------
\* Requests keep the promise of OneAnswer.
LEMMA AnswerFacts ==
  ASSUME Core
  PROVE  /\ \A c \in Requests : Answer(c) \in {"ok", "error", None}
         /\ \A s \in fired : Answer(s[1]) # None
         /\ \A c \in Requests : <<c, "done">> \in fired => Answer(c) = "ok"
         /\ \A c \in Requests : <<c, "fail">> \in fired => Answer(c) = "error"
         /\ \A h \in Handlers : told[h] # None =>
              told[h] \in fired /\ told[h] \in Slots /\ Heard(h) = <<told[h][1], Answer(told[h][1])>>
  <1>1. \A c \in Requests : /\ <<c, "done">> \in fired => Answer(c) = "ok"
                            /\ <<c, "fail">> \in fired => Answer(c) = "error"
                            /\ Answer(c) \in {"ok", "error", None}
    BY DEF Core, RequestsInOrder, Answer
  <1>2. \A s \in fired : s \in Slots /\ Answer(s[1]) # None
    <2> TAKE s \in fired
    <2>1. s[1] \in Requests /\ s = <<s[1], s[2]>> /\ s[2] \in {"done", "fail", "complete"} /\ s \in Slots
      BY DEF Core, Types, Slots, Lists, Answers
    <2>2. <<s[1], "done">> \in fired \/ <<s[1], "fail">> \in fired
      BY <2>1 DEF Core, RequestsInOrder
    <2> QED
      BY <1>1, <2>1, <2>2, NoneAssumption
  <1>3. \A h \in Handlers : told[h] # None =>
          told[h] \in fired /\ Heard(h) = <<told[h][1], Answer(told[h][1])>>
    <2> SUFFICES ASSUME NEW h \in Handlers, told[h] # None
                 PROVE  told[h] \in fired /\ Heard(h) = <<told[h][1], Answer(told[h][1])>>
      OBVIOUS
    <2>1. told[h] \in fired
      BY DEF Core, HandlersInOrder
    <2>2. told[h][1] \in Requests /\ told[h] = <<told[h][1], told[h][2]>>
      BY <2>1, <1>2 DEF Slots
    <2> QED
      BY <1>1, <2>1, <2>2 DEF Heard
  <1> QED
    BY <1>1, <1>2, <1>3

\* A step that settles request c, or no request, and calls no handler.
LEMMA SettleSteps ==
  ASSUME Core, Core', NEW c \in Requests, NEW a \in Answers, state[c] # 2,
         fired' = fired \cup {<<c, a>>}, told' = told
  PROVE  Abstract!Next
  <1>1. \A l \in Lists : <<c, l>> \notin fired
    BY UntouchedBeforeDone DEF Core
  <1>2. Answer(c) = None
    BY <1>1 DEF Answer, Lists, Answers
  <1>3. PICK r \in {"ok", "error"} : Answer(c)' = r
    BY <1>1 DEF Answer, Lists, Answers
  <1>4. \A d \in Requests : d # c => Answer(d)' = Answer(d)
    BY DEF Answer
  <1>5. \A h \in Handlers : Heard(h)' = Heard(h)
    <2> TAKE h \in Handlers
    <2>1. CASE told[h] = None
      BY <2>1 DEF Heard
    <2>2. CASE told[h] # None
      <3>1. told[h] \in fired /\ told[h] \in Slots
        BY <2>2, AnswerFacts
      <3>2. told[h][1] \in Requests /\ told[h][1] # c
        BY <3>1, <1>1 DEF Slots
      <3> QED
        BY <3>2, <1>4 DEF Heard
    <2> QED
      BY <2>1, <2>2
  <1>6. [d \in Requests |-> Answer(d)]' = [[d \in Requests |-> Answer(d)] EXCEPT ![c] = r]
    BY <1>3, <1>4
  <1>7. [h \in Handlers |-> Heard(h)]' = [h \in Handlers |-> Heard(h)]
    BY <1>5
  <1>8. Abstract!Settle(c, r)
    BY <1>2, <1>6, <1>7 DEF Abstract!Settle
  <1> QED
    BY <1>8 DEF Abstract!Next, Abstract!Answers

\* A step that calls no handler and settles nothing.
LEMMA SilentSteps ==
  ASSUME Core, told' = told, \A s \in fired' \ fired : s[2] = "complete",
         fired \subseteq fired'
  PROVE  UNCHANGED Abstract!vars
  <1>1. \A c \in Requests : Answer(c)' = Answer(c)
    BY DEF Answer
  <1>2. \A h \in Handlers : Heard(h)' = Heard(h)
    <2> TAKE h \in Handlers
    <2>1. CASE told[h] = None
      BY <2>1 DEF Heard
    <2>2. CASE told[h] # None
      BY <2>2, <1>1, AnswerFacts DEF Heard, Slots
    <2> QED
      BY <2>1, <2>2
  <1> QED
    BY <1>1, <1>2 DEF Abstract!vars

\* A call tells its handler the answer of its request.
LEMMA CallTells ==
  ASSUME Core, Core', Call
  PROVE  Abstract!Next
  <1>1. PICK s : s = Top.slot
    OBVIOUS
  <1>2. PICK h : h = Head(list[s])
    OBVIOUS
  <1>3. /\ s \in Slots /\ s \in fired /\ h \in Handlers /\ told[h] = None
    BY <1>1, <1>2, CallFacts DEF Core
  <1>4. told' = [told EXCEPT ![h] = s] /\ fired' = fired
    BY <1>1, <1>2 DEF Call
  <1>5. told'[h] = s /\ \A g \in Handlers : g # h => told'[g] = told[g]
    BY <1>3, <1>4 DEF Core, Types
  <1>6. s[1] \in Requests /\ Answer(s[1]) # None /\ \A c \in Requests : Answer(c)' = Answer(c)
    BY <1>3, <1>4, AnswerFacts DEF Slots, Answer
  <1>7. Heard(h) = None /\ Heard(h)' = <<s[1], Answer(s[1])>>
    <2>1. told'[h] # None
      BY <1>3, <1>5, NoneAssumption
    <2>2. s = <<s[1], s[2]>> /\ s[2] \in {"done", "fail", "complete"}
      BY <1>3 DEF Slots, Lists, Answers
    <2>3. Answer(s[1]) = CASE s[2] = "done" -> "ok"
                           [] s[2] = "fail" -> "error"
                           [] OTHER -> Answer(s[1])
      BY <1>3, <1>6, <2>2, AnswerFacts
    <2>4. Heard(h)' = <<s[1], CASE s[2] = "done" -> "ok"
                                [] s[2] = "fail" -> "error"
                                [] OTHER -> Answer(s[1])>>
      BY <1>4, <1>5, <2>1 DEF Heard, Answer
    <2> QED
      BY <1>3, <2>3, <2>4 DEF Heard
  <1>8. \A g \in Handlers : g # h => Heard(g)' = Heard(g)
    BY <1>5, <1>6, AnswerFacts DEF Heard, Slots
  <1>9. [g \in Handlers |-> Heard(g)]'
        = [[g \in Handlers |-> Heard(g)] EXCEPT ![h] = <<s[1], Answer(s[1])>>]
    BY <1>3, <1>7, <1>8
  <1>10. [c \in Requests |-> Answer(c)]' = [c \in Requests |-> Answer(c)]
    BY <1>6
  <1>11. Abstract!Tell(h, s[1])
    BY <1>3, <1>6, <1>7, <1>9, <1>10 DEF Abstract!Tell
  <1> QED
    BY <1>3, <1>6, <1>11 DEF Abstract!Next

\* jQuery.ajax implements OneAnswer: one answer per request that never
\* changes, and every handler called at most once, with that answer.
THEOREM PromiseKept == Spec => Promise
  <1>1. Init => Abstract!Init
    BY DEF Init, Abstract!Init, Answer, Heard
  <1>2. Core /\ Core' /\ [Next]_vars => [Abstract!Next]_(Abstract!vars)
    <2> SUFFICES ASSUME Core, Core', [Next]_vars
                 PROVE  Abstract!Next \/ UNCHANGED Abstract!vars
      OBVIOUS
    <2>1. ASSUME NEW c \in Requests, NEW o \in Options, Send(c, o)
          PROVE  UNCHANGED Abstract!vars
      BY <2>1, SilentSteps DEF Send
    <2>2. ASSUME NEW c \in Requests, NEW o \in Options, NEW a \in Answers, SendDone(c, o, a)
          PROVE  Abstract!Next
      <3>1. state[c] # 2 /\ told' = told /\ fired' = fired \cup {<<c, a>>}
        BY <2>2 DEF SendDone, Done
      <3> QED
        BY <3>1, SettleSteps
    <2>3. ASSUME NEW c \in Requests, NEW a \in Answers,
                 Expire(c) \/ Abort(c) \/ Respond(c, a)
          PROVE  Abstract!Next
      <3>1. PICK b \in Answers : /\ state[c] # 2 /\ told' = told
                                 /\ fired' = fired \cup {<<c, b>>}
        <4>1. CASE Expire(c) \/ Abort(c)
          <5>1. Open(c) /\ Done(c, "fail") /\ told' = told
            BY <4>1 DEF Expire, Abort
          <5>3. state[c] # 2 /\ fired' = fired \cup {<<c, "fail">>}
            BY <5>1 DEF Open, Done
          <5>2. "fail" \in Answers
            BY DEF Answers
          <5> QED
            BY <5>1, <5>2, <5>3
        <4>2. CASE Respond(c, a)
          BY <4>2 DEF Respond, Done, Open
        <4> QED
          BY <2>3, <4>1, <4>2
      <3> QED
        BY <3>1, SettleSteps
    <2>4. ASSUME NEW h \in Handlers, NEW c \in Requests, NEW L \in Choices, Register(h, c, L)
          PROVE  UNCHANGED Abstract!vars
      BY <2>4, SilentSteps DEF Register
    <2>5. CASE EndLoop \/ Leave
      <3>1. told' = told /\ fired \subseteq fired' /\ \A s \in fired' \ fired : s[2] = "complete"
        <4>1. CASE EndLoop
          <5>1. told' = told
            BY <4>1 DEF EndLoop
          <5>2. \/ fired' = fired
                \/ fired' = fired \cup {<<Top.slot[1], "complete">>}
            BY <4>1 DEF EndLoop, EndLate, EndAnswer, EndRequest
          <5> QED
            BY <5>1, <5>2
        <4>2. CASE Leave
          BY <4>2 DEF Leave, Return, Throw
        <4> QED
          BY <2>5, <4>1, <4>2
      <3> QED
        BY <3>1, SilentSteps
    <2>6. CASE UNCHANGED vars
      BY <2>6, SilentSteps DEF vars
    <2>7. CASE Call
      BY <2>7, CallTells
    <2>8. "done" \in Answers
      BY DEF Answers
    <2> QED
      BY <2>1, <2>2, <2>3, <2>4, <2>5, <2>6, <2>7, <2>8 DEF Next, Step
  <1> QED
    BY <1>1, <1>2, CoreHolds, PTL DEF Spec, Promise, Abstract!Spec

\* What that promise means to the page: all handlers that have been called for
\* a request, by whichever of its three lists and in whichever order, have
\* been told the same, and it is the answer the request has now.
THEOREM HandlersAgree ==
  Spec => [](\A g, h \in Handlers :
               Heard(g) # None /\ Heard(h) # None /\ Heard(g)[1] = Heard(h)[1]
               => Heard(g)[2] = Heard(h)[2] /\ Heard(h)[2] = Answer(Heard(h)[1])
                  /\ Heard(h)[2] \in {"ok", "error"})
  <1>1. Core => \A g, h \in Handlers :
                  Heard(g) # None /\ Heard(h) # None /\ Heard(g)[1] = Heard(h)[1]
                  => Heard(g)[2] = Heard(h)[2] /\ Heard(h)[2] = Answer(Heard(h)[1])
                     /\ Heard(h)[2] \in {"ok", "error"}
    <2> SUFFICES ASSUME Core, NEW g \in Handlers, NEW h \in Handlers,
                        Heard(g) # None, Heard(h) # None, Heard(g)[1] = Heard(h)[1]
                 PROVE  Heard(g)[2] = Heard(h)[2] /\ Heard(h)[2] = Answer(Heard(h)[1])
                        /\ Heard(h)[2] \in {"ok", "error"}
      OBVIOUS
    <2>1. told[g] # None /\ told[h] # None
      BY DEF Heard
    <2>2. /\ told[h] \in fired /\ told[h][1] \in Requests
          /\ Heard(g) = <<told[g][1], Answer(told[g][1])>>
          /\ Heard(h) = <<told[h][1], Answer(told[h][1])>>
      BY <2>1, AnswerFacts DEF Slots
    <2> QED
      BY <2>2, AnswerFacts
  <1> QED
    BY <1>1, CoreHolds, PTL
-----------------------------------------------------------------------------
\* The counter.  Which requests done is at work on, when a loop starts or ends.
LEMMA PushFinishing ==
  ASSUME stack \in Seq(Frame), NEW f \in Frame, stack' = Push(f)
  PROVE  \A c \in Requests : Finishing(c)' <=> Finishing(c) \/ (f.slot[1] = c /\ ~f.late)
  <1>1. /\ Depth \in Nat
        /\ Depth' = Depth + 1
        /\ \A i \in 1 .. Depth : stack'[i] = stack[i]
        /\ stack'[Depth + 1] = f
    BY AppendFacts DEF Push, Depth
  <1>2. \A i \in 1 .. Depth' : i = Depth + 1 \/ i \in 1 .. Depth
    BY <1>1
  <1>3. Depth + 1 \in 1 .. Depth' /\ \A i \in 1 .. Depth : i \in 1 .. Depth'
    BY <1>1
  <1> QED
    BY <1>1, <1>2, <1>3 DEF Finishing

\* done has ended for the request of the loop that is taken off.
LEMMA PopFinishing ==
  ASSUME stack \in Seq(Frame), stack # <<>>, stack' = Pop
  PROVE  \A c \in Requests : Finishing(c) <=> Finishing(c)' \/ (Top.slot[1] = c /\ ~Top.late)
  <1>1. Depth \in Nat \ {0} /\ Depth - 1 \in 0 .. Len(stack)
    BY LastFacts DEF Depth
  <1>2. /\ Depth' = Depth - 1
        /\ \A i \in 1 .. Depth - 1 : stack'[i] = stack[i]
    BY <1>1, PrefixFacts DEF Depth, Pop
  <1>3. \A i \in 1 .. Depth : i = Depth \/ i \in 1 .. Depth'
    BY <1>1, <1>2
  <1>4. Depth \in 1 .. Depth /\ \A i \in 1 .. Depth' : i \in 1 .. Depth /\ stack'[i] = stack[i]
    BY <1>1, <1>2
  <1> QED
    BY <1>3, <1>4 DEF Finishing, Top

\* A call and a return change neither the lists nor the loops.
LEMMA RunningFinishing ==
  ASSUME stack \in Seq(Frame), stack # <<>>, NEW r,
         stack' = [stack EXCEPT ![Depth].running = r]
  PROVE  \A c \in Requests : Finishing(c)' <=> Finishing(c)
  <1>1. Depth \in 1 .. Len(stack) /\ Len(stack') = Len(stack)
    BY LastFacts DEF Depth
  <1>2. \A i \in 1 .. Len(stack) : /\ stack'[i].slot = stack[i].slot
                                   /\ stack'[i].late <=> stack[i].late
    <2> TAKE i \in 1 .. Len(stack)
    <2>1. stack[i] \in Frame
      OBVIOUS
    <2>2. stack'[i] = IF i = Depth THEN [stack[i] EXCEPT !.running = r] ELSE stack[i]
      BY <1>1
    <2> QED
      BY <2>1, <2>2 DEF Frame
  <1> QED
    BY <1>1, <1>2 DEF Finishing, Depth

Counting == IsFiniteSet(Counted) /\ active = Cardinality(Counted)

\* The requests that are counted, after each kind of step.
LEMMA SendCounts ==
  ASSUME Core, Counting, NEW c \in Requests, NEW o \in Options, NEW a \in Answers,
         Send(c, o) \/ SendDone(c, o, a)
  PROVE  Counting'
  <1>1. c \notin Counted
    <2>1. state[c] = 0
      BY DEF Send, SendDone
    <2>2. /\ \A i \in 1 .. Depth : stack[i].slot[1] # c
          /\ \A late \in BOOLEAN : <<c, late>> \notin broken
      BY <2>1, UntouchedBeforeDone DEF Core
    <2>3. ~Finishing(c)
      BY <2>2 DEF Finishing
    <2>4. state[c] # 1
      BY <2>1
    <2>5. <<c, FALSE>> \notin broken
      BY <2>2, Zenon
    <2> QED
      BY <2>3, <2>4, <2>5 DEF Counted
  <1>2. /\ broken' = broken /\ active' = active + 1 /\ state[c] = 0
        /\ state' \in [Requests -> {state'[d] : d \in Requests}]
        /\ \A d \in Requests : d # c => state'[d] = state[d]
    BY DEF Send, SendDone, Done, Core, Types
  <1>3. \A d \in Requests : d # c => (Finishing(d)' <=> Finishing(d))
    <2>1. CASE Send(c, o)
      BY <2>1 DEF Send, Finishing, Depth
    <2>2. CASE SendDone(c, o, a)
      <3>1. PICK f : f = Loop(<<c, a>>, FALSE)
        OBVIOUS
      <3>2. f \in Frame /\ f.slot = <<c, a>> /\ stack' = Push(f)
        <4>1. <<c, a>> \in Slots
          BY DEF Slots, Lists, Answers
        <4> QED
          BY <2>2, <3>1, <4>1, LoopFacts DEF SendDone, Done
      <3> QED
        BY <3>2, PushFinishing DEF Core, Types
    <2> QED
      BY <2>1, <2>2
  <1>4. c \in Counted'
    <2>1. CASE Send(c, o)
      BY <2>1 DEF Send, Counted, Core, Types
    <2>2. CASE SendDone(c, o, a)
      <3>1. PICK f : f = Loop(<<c, a>>, FALSE)
        OBVIOUS
      <3>2. f \in Frame /\ f.slot = <<c, a>> /\ f.late = FALSE /\ stack' = Push(f)
        <4>1. <<c, a>> \in Slots
          BY DEF Slots, Lists, Answers
        <4> QED
          BY <2>2, <3>1, <4>1, LoopFacts DEF SendDone, Done
      <3> QED
        BY <3>2, PushFinishing DEF Core, Types, Counted
    <2> QED
      BY <2>1, <2>2
  <1>5. Counted' = Counted \cup {c}
    BY <1>2, <1>3, <1>4 DEF Counted
  <1> QED
    BY <1>1, <1>2, <1>5, FS_AddElement DEF Counting

\* done of an open request keeps it counted.
LEMMA AnswerCounts ==
  ASSUME Core, Counting, NEW c \in Requests, NEW a \in Answers, Open(c), Done(c, a),
         UNCHANGED <<list, active, place, told, broken>>
  PROVE  Counting'
  <1>1. PICK f : f = Loop(<<c, a>>, FALSE)
    OBVIOUS
  <1>2. f \in Frame /\ f.slot = <<c, a>> /\ f.late = FALSE /\ stack' = Push(f)
    <2>1. <<c, a>> \in Slots
      BY DEF Slots, Lists
    <2> QED
      BY <1>1, <2>1, LoopFacts DEF Done
  <1>3. \A d \in Requests : Finishing(d)' <=> Finishing(d) \/ d = c
    BY <1>2, PushFinishing DEF Core, Types
  <1>4. \A d \in Requests : d # c => state'[d] = state[d]
    BY DEF Done, Core, Types
  <1>5. Counted' = Counted
    BY <1>3, <1>4 DEF Counted, Open
  <1> QED
    BY <1>5 DEF Counting

\* Registering starts a late loop at most.
LEMMA RegisterCounts ==
  ASSUME Core, Counting, NEW h \in Handlers, NEW c \in Requests, NEW L \in Choices,
         Register(h, c, L)
  PROVE  Counting'
  <1>1. \A d \in Requests : Finishing(d)' <=> Finishing(d)
    <2>1. CASE stack' = stack
      BY <2>1 DEF Finishing, Depth
    <2>2. CASE \E s \in Ripe(Live(c, L)) : stack' = Push(Loop(s, TRUE))
      <3>1. PICK s \in Ripe(Live(c, L)) : stack' = Push(Loop(s, TRUE))
        BY <2>2
      <3>2. PICK f : f = Loop(s, TRUE)
        OBVIOUS
      <3>3. f \in Frame /\ f.late = TRUE
        <4>1. s \in Slots
          BY DEF Ripe, Core, Types
        <4> QED
          BY <3>2, <4>1, LoopFacts
      <3> QED
        BY <3>1, <3>2, <3>3, PushFinishing DEF Core, Types
    <2> QED
      BY <2>1, <2>2 DEF Register
  <1>2. state' = state /\ broken' = broken /\ active' = active
    BY DEF Register
  <1>3. Counted' = Counted
    BY <1>1, <1>2 DEF Counted
  <1> QED
    BY <1>2, <1>3 DEF Counting

\* A throw moves requests from those at work to those broken.
LEMMA ThrowCounts ==
  ASSUME Core, Counting, NEW k \in 0 .. Depth - 1, Throw(k)
  PROVE  Counting'
  <1>1. /\ state' = state /\ active' = active
        /\ broken' = broken \cup {<<stack[i].slot[1], stack[i].late>> : i \in k + 1 .. Depth}
    BY DEF Throw
  <1>2. Depth \in Nat /\ k \in 0 .. Len(stack) /\ stack \in Seq(Frame)
    BY DEF Core, Types, Depth
  <1>3. /\ Depth' = k
        /\ \A i \in 1 .. k : stack'[i] = stack[i] /\ i \in 1 .. Depth
        /\ \A i \in 1 .. Depth : i \in 1 .. k \/ i \in k + 1 .. Depth
        /\ \A i \in k + 1 .. Depth : i \in 1 .. Depth
    BY <1>2, PrefixFacts DEF Throw, Depth
  <1>4. \A i \in 1 .. Depth : stack[i].late \in BOOLEAN
    <2> TAKE i \in 1 .. Depth
    <2>1. stack[i] \in Frame
      BY <1>2 DEF Depth
    <2> QED
      BY <2>1 DEF Frame
  <1>5. \A c \in Requests : Finishing(c) => Finishing(c)' \/ <<c, FALSE>> \in broken'
    BY <1>1, <1>3, <1>4 DEF Finishing
  <1>6. \A c \in Requests : Finishing(c)' => Finishing(c)
    BY <1>3 DEF Finishing
  <1>7. \A c \in Requests : <<c, FALSE>> \in broken' => <<c, FALSE>> \in broken \/ Finishing(c)
    BY <1>1, <1>3, <1>4 DEF Finishing
  <1>8. \A c \in Requests : <<c, FALSE>> \in broken => <<c, FALSE>> \in broken'
    BY <1>1
  <1>9. Counted' = Counted
    BY <1>1, <1>5, <1>6, <1>7, <1>8 DEF Counted
  <1> QED
    BY <1>1, <1>9 DEF Counting

\* The end of a loop: only that of complete, started by done, counts down.
LEMMA EndCounts ==
  ASSUME Core, Counting, EndLoop
  PROVE  Counting'
  <1>1. /\ state' = state /\ broken' = broken /\ stack # <<>> /\ stack \in Seq(Frame)
        /\ Depth \in 1 .. Depth /\ Top \in Frame
    BY LastFacts DEF EndLoop, EngineRuns, Core, Types, Depth, Top
  <1>2. Top.slot \in Slots /\ Top.slot \in fired /\ Top.late \in BOOLEAN /\ Top.slot[1] \in Requests
    <2>1. Top.slot \in Slots /\ Top.late \in BOOLEAN
      BY <1>1 DEF Frame
    <2>2. Top.slot \in fired
      BY <1>1 DEF Top, Core, Types, LoopsInOrder
    <2> QED
      BY <2>1, <2>2 DEF Slots
  <1>3. CASE EndLate
    <2>1. stack' = Pop /\ Top.late /\ active' = active
      BY <1>3 DEF EndLate
    <2>2. \A c \in Requests : Finishing(c) <=> Finishing(c)'
      BY <1>1, <2>1, PopFinishing
    <2> QED
      BY <1>1, <2>1, <2>2 DEF Counting, Counted
  <1>4. CASE EndAnswer
    <2>1. ~Top.late /\ active' = active
          /\ stack' = Append(Pop, Loop(<<Top.slot[1], "complete">>, FALSE))
      BY <1>4 DEF EndAnswer
    <2>2. PICK f : f = Loop(<<Top.slot[1], "complete">>, FALSE)
      OBVIOUS
    <2>3. f \in Frame /\ f.slot[1] = Top.slot[1] /\ f.late = FALSE
      <3>1. <<Top.slot[1], "complete">> \in Slots
        BY <1>2 DEF Slots, Lists
      <3>2. f \in Frame /\ f.slot = <<Top.slot[1], "complete">> /\ f.late = FALSE
        BY <2>2, <3>1, LoopFacts
      <3> QED
        BY <3>2
    <2>4. /\ Depth' = Depth /\ stack'[Depth] = f
          /\ \A i \in 1 .. Depth : i # Depth => stack'[i] = stack[i]
      <3>1. Depth = Len(stack) /\ Depth \in Nat \ {0} /\ Depth - 1 \in 0 .. Len(stack)
        BY <1>1, LastFacts DEF Depth
      <3>2. PICK q : q = Pop
        OBVIOUS
      <3>3. /\ q \in Seq(Frame) /\ Len(q) = Depth - 1
            /\ \A i \in 1 .. Depth - 1 : q[i] = stack[i]
        BY <1>1, <3>1, <3>2, PrefixFacts DEF Pop
      <3>4. /\ Len(stack') = Depth
            /\ stack'[Depth] = f
            /\ \A i \in 1 .. Depth - 1 : stack'[i] = stack[i]
        <4>1. stack' = Append(q, f)
          BY <2>1, <2>2, <3>2
        <4> QED
          BY <2>3, <3>1, <3>3, <4>1, AppendFacts
      <3>5. \A i \in 1 .. Depth : i # Depth => i \in 1 .. Depth - 1
        BY <3>1
      <3> QED
        BY <3>4, <3>5 DEF Depth
    <2>5. \A c \in Requests : Finishing(c) <=> Finishing(c)'
      BY <1>1, <2>1, <2>3, <2>4 DEF Finishing, Top
    <2> QED
      BY <1>1, <2>1, <2>5 DEF Counting, Counted
  <1>5. CASE EndRequest
    <2>1. stack' = Pop /\ ~Top.late /\ active' = active - 1
      BY <1>5 DEF EndRequest
    <2>2. PICK c \in Requests : c = Top.slot[1]
      BY <1>2
    <2>3. \A d \in Requests : Finishing(d) <=> Finishing(d)' \/ d = c
      BY <1>1, <2>1, <2>2, PopFinishing
    <2>4. ~Finishing(c)'
      <3>1. \A i \in 1 .. Depth : i # Depth => ~(stack[i].slot[1] = c /\ ~stack[i].late)
        BY <1>1, <2>1, <2>2 DEF Core, LoopsInOrder, SameDone, Top
      <3>2. /\ Depth' = Depth - 1
            /\ \A i \in 1 .. Depth' : i \in 1 .. Depth /\ i # Depth /\ stack'[i] = stack[i]
        <4>1. Depth = Len(stack) /\ Depth \in Nat \ {0} /\ Depth - 1 \in 0 .. Len(stack)
          BY <1>1, LastFacts DEF Depth
        <4>2. Depth' = Depth - 1 /\ \A i \in 1 .. Depth - 1 : stack'[i] = stack[i]
          BY <1>1, <2>1, <4>1, PrefixFacts DEF Pop, Depth
        <4> QED
          BY <4>1, <4>2
      <3> QED
        BY <3>1, <3>2 DEF Finishing
    <2>5. state[c] = 2 /\ <<c, FALSE>> \notin broken
      <3>1. state[c] = 2
        BY <1>2, <2>2 DEF Core, RequestsInOrder
      <3>2. <<c, FALSE>> \notin broken
        BY <1>1, <2>1, <2>2 DEF Core, LoopsInOrder, Top
      <3> QED
        BY <3>1, <3>2
    <2>6. c \in Counted
      BY <2>3 DEF Counted
    <2>7. c \notin Counted'
      <3>1. state'[c] # 1 /\ <<c, FALSE>> \notin broken'
        BY <1>1, <2>5
      <3> QED
        BY <2>4, <3>1 DEF Counted
    <2>8. \A d \in Requests : d # c => (d \in Counted <=> d \in Counted')
      BY <1>1, <2>3 DEF Counted
    <2>9. Counted \subseteq Requests /\ Counted' \subseteq Requests
      BY DEF Counted
    <2>10. Counted' = Counted \ {c}
      BY <2>7, <2>8, <2>9
    <2> QED
      BY <2>1, <2>6, <2>10, FS_RemoveElement DEF Counting
  <1> QED
    BY <1>3, <1>4, <1>5 DEF EndLoop

\* Every step keeps the counter.
LEMMA NextCounts == Core /\ Counting /\ [Next]_vars => Counting'
  <1> SUFFICES ASSUME Core, Counting, [Next]_vars PROVE Counting'
    OBVIOUS
  <1>1. ASSUME NEW c \in Requests, NEW a \in Answers,
               Expire(c) \/ Abort(c) \/ Respond(c, a)
        PROVE  Counting'
    <2>1. CASE Expire(c) \/ Abort(c)
      <3>1. "fail" \in Answers
        BY DEF Answers
      <3> QED
        BY <2>1, <3>1, AnswerCounts DEF Expire, Abort
    <2>2. CASE Respond(c, a)
      BY <2>2, AnswerCounts DEF Respond
    <2> QED
      BY <1>1, <2>1, <2>2
  <1>2. CASE Call \/ Return
    <2>1. /\ state' = state /\ broken' = broken /\ active' = active
          /\ stack # <<>>
          /\ \E r : stack' = [stack EXCEPT ![Depth].running = r]
      BY <1>2 DEF Call, Return, EngineRuns
    <2>2. PICK r : stack' = [stack EXCEPT ![Depth].running = r]
      BY <2>1
    <2>3. \A c \in Requests : Finishing(c)' <=> Finishing(c)
      BY <2>1, <2>2, RunningFinishing DEF Core, Types
    <2> QED
      BY <2>1, <2>3 DEF Counting, Counted
  <1>3. CASE UNCHANGED vars
    BY <1>3 DEF vars, Counting, Counted, Finishing, Depth
  <1>4. \E a : a \in Answers
    BY DEF Answers
  <1>5. CASE Next
    BY <1>1, <1>2, <1>4, <1>5, SendCounts, RegisterCounts, ThrowCounts, EndCounts
       DEF Next, Step, Leave
  <1> QED
    BY <1>3, <1>5

\* Nothing is counted at first.
LEMMA InitCounts == Init => Counting
  <1> SUFFICES ASSUME Init PROVE Counting
    OBVIOUS
  <1>1. Counted = {}
    BY DEF Init, Counted, Finishing, Depth
  <1> QED
    BY <1>1, FS_EmptySet DEF Init, Counting

\* jQuery.active counts what it should, for all requests, and is therefore
\* never below zero.
THEOREM ActiveIsCounted == Spec => []ActiveCounts
  <1>1. Counting => ActiveCounts
    BY DEF Counting, ActiveCounts
  <1> QED
    BY <1>1, InitCounts, NextCounts, CoreHolds, PTL DEF Spec

\* Every variable keeps its type; above all, jQuery.active never falls below
\* zero, whatever throws.
THEOREM TypesHold == Spec => []TypeOK
  <1>1. Core /\ Counting => TypeOK
    BY FS_CardinalityType DEF Core, Types, TypeOK, Counting
  <1> QED
    BY <1>1, InitCounts, NextCounts, CoreHolds, PTL DEF Spec
=============================================================================

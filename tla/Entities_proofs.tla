-------------------------- MODULE Entities_proofs --------------------------
(***************************************************************************)
(* Proofs about the entities: how they are stored (UnitOfWork), for any    *)
(* table, callers and units of work, and how they are validated            *)
(* (BusinessRules), for any object, rules and data.                        *)
(***************************************************************************)
EXTENDS UnitOfWork, BusinessRules, SequenceTheorems, WellFoundedInduction, TLAPS
-----------------------------------------------------------------------------
(***************************************************************************)
(* UnitOfWork.                                                             *)
(***************************************************************************)
Tracker == [Ids -> Entity \cup {None}]

\* The inductive invariant.
IInv == TypeOK /\ OnlyFailuresLinger

\* Nothing that is pending in x is lost or changed in y.
Extends(x, y) == \A i \in Dirty(x) : i \in Dirty(y) /\ y[i].value = x[i].value

\* None is no entity and no content, so that it marks absence.
LEMMA NoneIsNoEntity == None \notin Entity
  BY NoneAssumption DEF Entity

\* DetectChanges yields a tracker, finds a tracker's own findings again, and
\* takes nothing off.
LEMMA DetectedFacts ==
  ASSUME NEW t \in Tracker
  PROVE  /\ Detected(t) \in Tracker
         /\ Dirty(Detected(Detected(t))) = Dirty(Detected(t))
         /\ Dirty(t) \subseteq Dirty(Detected(t))
         /\ Extends(t, Detected(t))
         /\ \A i \in Ids : Detected(t)[i] = None <=> t[i] = None
  BY NoneIsNoEntity DEF Tracker, Detected, Dirty, Entity, Modified, Extends

\* Marking one entity as modified makes at most that one pending.
LEMMA MarkedFacts ==
  ASSUME NEW x \in Tracker, NEW i \in Ids, NEW v \in Values
  PROVE  LET t == [Detected(x) EXCEPT ![i] = Modified(v)]
         IN /\ t \in Tracker
            /\ Dirty(Detected(t)) \subseteq Dirty(Detected(x)) \cup {i}
            /\ Detected(x)[i] = None \/ Detected(x)[i].value = v => Extends(Detected(x), t)
  <1> DEFINE d == Detected(x)
             t == [d EXCEPT ![i] = Modified(v)]
  <1>1. d \in Tracker /\ Dirty(Detected(d)) = Dirty(d)
    BY DetectedFacts
  <1>2. Modified(v) \in Entity /\ Modified(v).state = "Modified"
        /\ Modified(v).value = Modified(v).original
    BY DEF Modified, Entity
  <1>3. t \in Tracker /\ t[i] = Modified(v) /\ \A j \in Ids \ {i} : t[j] = d[j]
    BY <1>1, <1>2 DEF Tracker
  <1>4. \A j \in Ids \ {i} : Detected(t)[j] = Detected(d)[j]
    BY <1>3 DEF Detected
  <1>5. Dirty(Detected(t)) \subseteq Dirty(Detected(d)) \cup {i}
    BY <1>4 DEF Dirty
  <1>6. d[i] = None \/ d[i].value = v => Extends(d, t)
    <2>1. Dirty(d) \subseteq Dirty(t)
      BY <1>2, <1>3, NoneIsNoEntity DEF Dirty
    <2>2. Modified(v).value = v
      BY DEF Modified
    <2> QED
      BY <1>3, <2>1, <2>2 DEF Extends, Dirty
  <1> QED
    BY <1>1, <1>3, <1>5, <1>6

\* An accepted tracker is a tracker with nothing pending.
LEMMA AcceptedFacts ==
  ASSUME NEW t \in Tracker, NEW new \in SUBSET New, NEW place \in Injection(new, Fresh(t))
  PROVE  /\ Accepted(t, new, place) \in Tracker
         /\ Dirty(Accepted(t, new, place)) = {}
         /\ Dirty(Detected(Accepted(t, new, place))) = {}
  <1> DEFINE a == Accepted(t, new, place)
  <1>1. ASSUME NEW i \in Ids PROVE a[i] = None \/ \E v \in Values : a[i] = Unchanged(v)
    <2>1. CASE \E o \in new : place[o] = i
      <3>1. (CHOOSE o \in new : place[o] = i) \in New
        BY <2>1
      <3> QED
        BY <2>1, <3>1, ContentAssumption DEF Accepted
    <2>2. CASE ~ \E o \in new : place[o] = i
      BY <2>2 DEF Accepted, Tracker, Entity
    <2> QED
      BY <2>1, <2>2
  <1>2. a \in Tracker
    <2>1. \A v \in Values : Unchanged(v) \in Entity
      BY DEF Unchanged, Entity
    <2> QED
      BY <1>1, <2>1 DEF Accepted, Tracker
  <1> HIDE DEF a
  <1>3. ASSUME NEW i \in Ids, a[i] # None
        PROVE  a[i].state = "Unchanged" /\ a[i].value = a[i].original
    <2>1. PICK v \in Values : a[i] = Unchanged(v)
      BY <1>1, <1>3
    <2>2. Unchanged(v).state = "Unchanged" /\ Unchanged(v).value = Unchanged(v).original
      BY DEF Unchanged
    <2> QED
      BY <2>1, <2>2
  <1>4. Detected(a) = a
    BY <1>2, <1>3 DEF Detected, Tracker
  <1>5. Dirty(a) = {}
    BY <1>3 DEF Dirty
  <1> QED
    BY <1>2, <1>4, <1>5 DEF a

\* What is stored are rows that validation lets through.
LEMMA StoredType ==
  ASSUME NEW t \in Tracker, NEW new \in SUBSET New, NEW place \in Injection(new, Fresh(t)),
         table \in [Ids -> (Values \ Bad) \cup {None}], Savable(t, new)
  PROVE  Stored(t, new, place) \in [Ids -> (Values \ Bad) \cup {None}]
  <1>1. ASSUME NEW i \in Ids PROVE Stored(t, new, place)[i] \in (Values \ Bad) \cup {None}
    <2>1. CASE \E o \in new : place[o] = i
      <3>1. (CHOOSE o \in new : place[o] = i) \in new
        BY <2>1
      <3> QED
        BY <2>1, <3>1, ContentAssumption DEF Stored, Savable
    <2>2. CASE i \in Dirty(t) /\ ~ \E o \in new : place[o] = i
      BY <2>2 DEF Stored, Savable, Dirty, Tracker, Entity
    <2>3. CASE i \notin Dirty(t) /\ ~ \E o \in new : place[o] = i
      BY <2>3 DEF Stored
    <2> QED
      BY <2>1, <2>2, <2>3
  <1> QED
    BY <1>1 DEF Stored
-----------------------------------------------------------------------------
\* A unit that gets a tracker with nothing pending but what has failed keeps
\* the invariant.
LEMMA HoldsInv ==
  ASSUME IInv, NEW u \in Units, NEW t \in Tracker, NEW new \in SUBSET New, NEW f \in SUBSET (Ids \cup New),
         tracked' = [tracked EXCEPT ![u] = t],
         added' = [added EXCEPT ![u] = new],
         failed' = [failed EXCEPT ![u] = f],
         Dirty(Detected(t)) \cup new \subseteq f,
         table' \in [Ids -> (Values \ Bad) \cup {None}],
         last' \in (Units \X (Ids \cup New)) \cup {<<>>},
         disposed' \subseteq Units
  PROVE  IInv'
  <1>1. tracked[u] \in Tracker
    BY DEF IInv, TypeOK, Tracker
  <1>2. TypeOK'
    BY DEF IInv, TypeOK, Tracker
  <1>3. \A w \in Units \ {u} : /\ tracked'[w] = tracked[w] /\ added'[w] = added[w]
                               /\ failed'[w] = failed[w]
    BY DEF IInv, TypeOK
  <1>4. tracked'[u] = t /\ added'[u] = new /\ failed'[u] = f
    BY DEF IInv, TypeOK
  <1>5. OnlyFailuresLinger'
    BY <1>3, <1>4 DEF IInv, OnlyFailuresLinger
  <1> QED
    BY <1>2, <1>5 DEF IInv

\* Save keeps the invariant if the call is about all that is newly pending.
LEMMA SaveInv ==
  ASSUME IInv, NEW u \in Units, NEW r \in Ids \cup New, NEW t \in Tracker, NEW new \in SUBSET New,
         Dirty(Detected(t)) \cup new \subseteq failed[u] \cup {r},
         Save(u, r, t, new), UNCHANGED disposed
  PROVE  IInv'
  <1>1. last' = <<u, r>> /\ failed[u] \in SUBSET (Ids \cup New) /\ disposed' \subseteq Units
        /\ table \in [Ids -> (Values \ Bad) \cup {None}]
    BY DEF Save, IInv, TypeOK
  <1>2. CASE Fails(u, r, t, new) /\ table' = table
    BY <1>1, <1>2, HoldsInv DEF Fails, Holds
  <1>3. ASSUME Savable(t, new),
               NEW place \in Injection(new, Fresh(t)), table' = Stored(t, new, place),
               Holds(u, Accepted(t, new, place), {}),
               failed' = [failed EXCEPT ![u] = {}]
        PROVE  IInv'
    BY <1>1, <1>3, HoldsInv, AcceptedFacts, StoredType DEF Holds
  <1>4. ASSUME Savable(t, new),
               NEW place \in Injection(new, Fresh(t)), table' = Stored(t, new, place),
               Fails(u, r, t, new)
        PROVE  IInv'
    BY <1>1, <1>4, HoldsInv, StoredType DEF Fails, Holds
  <1> QED
    BY <1>2, <1>3, <1>4 DEF Save

\* Reading: nothing becomes pending that was not.
LEMMA ReadInv ==
  ASSUME IInv, NEW u \in Units, NEW t \in Tracker,
         tracked' = [tracked EXCEPT ![u] = t],
         UNCHANGED <<table, added, disposed, last, failed>>,
         Dirty(Detected(t)) \subseteq Dirty(Detected(tracked[u]))
  PROVE  IInv'
  <1>1. TypeOK'
    BY DEF IInv, TypeOK, Tracker
  <1>2. /\ tracked'[u] = t
        /\ \A w \in Units \ {u} : tracked'[w] = tracked[w]
    BY DEF IInv, TypeOK
  <1>3. OnlyFailuresLinger'
    BY <1>2 DEF IInv, OnlyFailuresLinger
  <1> QED
    BY <1>1, <1>3 DEF IInv

\* Steps inside the tracker.
LocalCall(u) ==
  \/ \E i \in Ids : GetById(u, i)
  \/ GetAll(u)
  \/ \E i \in Ids, v \in Values : Touch(u, i, v)

\* Reading and touching keep the invariant.
LEMMA LocalInv ==
  ASSUME IInv, NEW u \in Units, LocalCall(u), UNCHANGED disposed
  PROVE  IInv'
  <1> DEFINE x == tracked[u]
  <1>1. x \in Tracker /\ added[u] \in SUBSET New /\ failed[u] \in SUBSET (Ids \cup New)
        /\ table \in [Ids -> (Values \ Bad) \cup {None}]
        /\ last \in (Units \X (Ids \cup New)) \cup {<<>>}
        /\ disposed' \subseteq Units
        /\ Dirty(Detected(x)) \cup added[u] \subseteq failed[u]
    BY DEF IInv, TypeOK, Tracker, OnlyFailuresLinger
  <1>2. added = [added EXCEPT ![u] = added[u]]
    BY DEF IInv, TypeOK
  <1>3. \A v \in Values : Unchanged(v) \in Entity
    BY DEF Unchanged, Entity
  <1> HIDE DEF x
  <1>4. ASSUME NEW i \in Ids, GetById(u, i) PROVE IInv'
    <2> DEFINE d == Detected(x)
               t == IF d[i] = None /\ table[i] # None
                    THEN [d EXCEPT ![i] = Unchanged(table[i])] ELSE d
    <2>1. d \in Tracker /\ Dirty(Detected(d)) = Dirty(d)
      BY <1>1, DetectedFacts
    <2>2. tracked' = [tracked EXCEPT ![u] = t]
      BY <1>4 DEF GetById, x
    <2> HIDE DEF d
    <2>3. t \in Tracker
      BY <1>1, <1>3, <2>1 DEF Tracker
    <2>4. Dirty(Detected(t)) \subseteq Dirty(Detected(d))
      BY <1>1, <2>1 DEF Tracker, Dirty, Detected, Unchanged
    <2>5. Dirty(Detected(t)) \subseteq Dirty(Detected(tracked[u]))
      BY <2>1, <2>4 DEF d, x
    <2> HIDE DEF t
    <2> QED
      BY <1>4, <2>2, <2>3, <2>5, ReadInv DEF GetById
  <1>5. CASE GetAll(u)
    <2> DEFINE t == [i \in Ids |-> IF x[i] = None /\ table[i] \notin Hidden \cup {None}
                                   THEN Unchanged(table[i]) ELSE x[i]]
    <2>1. tracked' = [tracked EXCEPT ![u] = t]
      BY <1>5 DEF GetAll, x
    <2>2. t \in Tracker
      BY <1>1, <1>3 DEF Tracker
    <2>3. Dirty(Detected(t)) \subseteq Dirty(Detected(tracked[u]))
      BY <1>1 DEF Tracker, Dirty, Detected, Unchanged, x
    <2> HIDE DEF t
    <2> QED
      BY <1>5, <2>1, <2>2, <2>3, ReadInv DEF GetAll
  <1>6. ASSUME NEW i \in Ids, NEW v \in Values, Touch(u, i, v) PROVE IInv'
    <2> DEFINE t == [x EXCEPT ![i] = [x[i] EXCEPT !.value = v]]
               f == failed[u] \cup {i}
    <2>1. tracked' = [tracked EXCEPT ![u] = t]
      BY <1>1, <1>6 DEF Touch, x, Tracker
    <2>2. x[i] \in Entity
      BY <1>1, <1>6 DEF Touch, x, Tracker
    <2>3. [x[i] EXCEPT !.value = v] \in Entity
      BY <2>2 DEF Entity
    <2>4. t \in Tracker
      BY <1>1, <2>3 DEF Tracker
    <2>5. \A j \in Ids \ {i} : Detected(t)[j] = Detected(x)[j]
      BY <1>1 DEF Tracker, Detected
    <2>6. Dirty(Detected(t)) \subseteq Dirty(Detected(x)) \cup {i}
      BY <2>5 DEF Dirty
    <2>7. failed' = [failed EXCEPT ![u] = f] /\ f \in SUBSET (Ids \cup New)
      BY <1>1, <1>6 DEF Touch
    <2>8. Dirty(Detected(t)) \cup added[u] \subseteq f
      BY <1>1, <2>6
    <2>9. /\ added' = [added EXCEPT ![u] = added[u]]
          /\ table' \in [Ids -> (Values \ Bad) \cup {None}]
          /\ last' \in (Units \X (Ids \cup New)) \cup {<<>>}
      BY <1>1, <1>2, <1>6 DEF Touch
    <2> HIDE DEF t, f
    <2> QED
      BY <1>1, <2>1, <2>4, <2>7, <2>8, <2>9, HoldsInv
  <1> QED
    BY <1>4, <1>5, <1>6 DEF LocalCall

\* So do the end of a unit and a new one.
LEMMA LifeInv ==
  ASSUME IInv, NEW u \in Units, Dispose(u) \/ Create(u)
  PROVE  IInv'
  <1>1. CASE Dispose(u)
    <2>1. Nothing \in Tracker /\ Dirty(Detected(Nothing)) = {}
      BY DEF Nothing, Tracker, Dirty, Detected
    <2>2. /\ table' \in [Ids -> (Values \ Bad) \cup {None}]
          /\ last' \in (Units \X (Ids \cup New)) \cup {<<>>}
          /\ disposed' \subseteq Units
      BY <1>1 DEF Dispose, IInv, TypeOK
    <2> QED
      BY <1>1, <2>1, <2>2, HoldsInv DEF Dispose, Holds
  <1>2. CASE Create(u)
    BY <1>2 DEF Create, IInv, TypeOK, OnlyFailuresLinger
  <1> QED
    BY <1>1, <1>2

\* What a call of the service comes to: a save of what was pending and of what
\* the call is about ...
Saves(u, r, t, new) ==
  /\ Save(u, r, t, new)
  /\ Extends(tracked[u], t) /\ added[u] \subseteq new
  /\ Dirty(Detected(t)) \cup new \subseteq failed[u] \cup {r}

\* ... or an exception before that.
Throws(u, r) ==
  /\ Fails(u, r, Detected(tracked[u]), added[u])
  /\ last' = <<u, r>>
  /\ UNCHANGED table

ServiceCall(u) ==
  \/ \E o \in New : Add(u, o)
  \/ \E i \in Ids : UpdateTracked(u, i)
  \/ \E i \in Ids, v \in Values : Update(u, i, v)

\* Add, and Update of an entity the tracker knows or does not know.
LEMMA ServiceSaves ==
  ASSUME IInv, NEW u \in Units, ServiceCall(u)
  PROVE  \E r \in Ids \cup New :
           \/ Throws(u, r)
           \/ \E t \in Tracker, new \in SUBSET New : Saves(u, r, t, new)
  <1> DEFINE d == Detected(tracked[u])
             m(i, v) == [d EXCEPT ![i] = Modified(v)]
  <1>1. /\ tracked[u] \in Tracker /\ added[u] \in SUBSET New
        /\ Dirty(d) \cup added[u] \subseteq failed[u]
    BY DEF IInv, TypeOK, Tracker, OnlyFailuresLinger
  <1>2. d \in Tracker /\ Dirty(Detected(d)) = Dirty(d) /\ Extends(tracked[u], d)
    BY <1>1, DetectedFacts
  <1>3. \A i \in Ids, v \in Values :
          /\ m(i, v) \in Tracker
          /\ Dirty(Detected(m(i, v))) \subseteq Dirty(d) \cup {i}
          /\ d[i] = None \/ d[i].value = v => Extends(d, m(i, v))
    BY <1>1, MarkedFacts
  <1>4. ASSUME NEW i \in Ids, NEW v \in Values, Save(u, i, m(i, v), added[u]),
               d[i] = None \/ d[i].value = v
        PROVE  Saves(u, i, m(i, v), added[u])
    <2> HIDE DEF m, d
    <2>1. Extends(tracked[u], m(i, v))
      BY <1>2, <1>3, <1>4 DEF Extends
    <2> QED
      BY <1>1, <1>3, <1>4, <2>1 DEF Saves
  <1>5. ASSUME NEW o \in New, Add(u, o) PROVE Saves(u, o, d, added[u] \cup {o})
    <2>1. Save(u, o, d, added[u] \cup {o})
      BY <1>5 DEF Add
    <2> HIDE DEF d
    <2> QED
      BY <1>1, <1>2, <2>1 DEF Saves
  <1>6. ASSUME NEW i \in Ids, UpdateTracked(u, i)
        PROVE  \E v \in Values : Saves(u, i, m(i, v), added[u])
    <2>1. Save(u, i, m(i, d[i].value), added[u]) /\ d[i] # None
      BY <1>6 DEF UpdateTracked
    <2>2. d[i].value \in Values
      <3> HIDE DEF d
      <3> QED
        BY <1>2, <2>1 DEF Tracker, Entity
    <2> HIDE DEF m, d
    <2> QED
      BY <1>4, <2>1, <2>2
  <1>7. ASSUME NEW i \in Ids, NEW v \in Values, Update(u, i, v)
        PROVE  Throws(u, i) \/ Saves(u, i, m(i, v), added[u])
    <2>1. CASE d[i] = None
      <3>1. Save(u, i, m(i, v), added[u])
        BY <1>7, <2>1 DEF Update
      <3> HIDE DEF m, d
      <3> QED
        BY <1>4, <2>1, <3>1
    <2>2. CASE d[i] # None
      BY <1>7, <2>2 DEF Update, Throws
    <2> QED
      BY <2>1, <2>2
  <1> HIDE DEF m, d
  <1>8. ASSUME NEW o \in New, Add(u, o)
        PROVE  \E t \in Tracker, new \in SUBSET New : Saves(u, o, t, new)
    BY <1>1, <1>2, <1>5, <1>8
  <1>9. ASSUME NEW i \in Ids, UpdateTracked(u, i)
        PROVE  \E t \in Tracker, new \in SUBSET New : Saves(u, i, t, new)
    BY <1>1, <1>3, <1>6, <1>9
  <1>10. ASSUME NEW i \in Ids, NEW v \in Values, Update(u, i, v)
         PROVE  Throws(u, i) \/ \E t \in Tracker, new \in SUBSET New : Saves(u, i, t, new)
    BY <1>1, <1>3, <1>7, <1>10
  <1> QED
    BY <1>8, <1>9, <1>10 DEF ServiceCall

\* The calls of the service keep the invariant.
LEMMA ServiceInv ==
  ASSUME IInv, NEW u \in Units, ServiceCall(u), UNCHANGED disposed
  PROVE  IInv'
  <1>1. PICK r \in Ids \cup New :
          \/ Throws(u, r)
          \/ \E t \in Tracker, new \in SUBSET New : Saves(u, r, t, new)
    BY ServiceSaves
  <1>2. CASE Throws(u, r)
    <2> DEFINE d == Detected(tracked[u])
               f == failed[u] \cup {r}
    <2>1. d \in Tracker /\ Dirty(Detected(d)) = Dirty(d)
      BY DetectedFacts DEF IInv, TypeOK, Tracker
    <2>2. /\ tracked' = [tracked EXCEPT ![u] = d]
          /\ added' = [added EXCEPT ![u] = added[u]]
          /\ failed' = [failed EXCEPT ![u] = f]
      BY <1>2 DEF Throws, Fails, Holds
    <2>3. /\ table' \in [Ids -> (Values \ Bad) \cup {None}]
          /\ last' \in (Units \X (Ids \cup New)) \cup {<<>>}
          /\ disposed' \subseteq Units
          /\ added[u] \in SUBSET New /\ f \in SUBSET (Ids \cup New)
      BY <1>2 DEF Throws, IInv, TypeOK
    <2>4. Dirty(Detected(d)) \cup added[u] \subseteq f
      BY <2>1 DEF IInv, OnlyFailuresLinger
    <2> HIDE DEF d, f
    <2> QED
      BY <2>1, <2>2, <2>3, <2>4, HoldsInv
  <1>3. ASSUME NEW t \in Tracker, NEW new \in SUBSET New, Saves(u, r, t, new) PROVE IInv'
    BY <1>3, SaveInv DEF Saves
  <1> QED
    BY <1>1, <1>2, <1>3
-----------------------------------------------------------------------------
\* Every step keeps the invariant: one case per kind of call.
LEMMA NextInv == IInv /\ [Next]_vars => IInv'
  <1> SUFFICES ASSUME IInv, [Next]_vars PROVE IInv'
    OBVIOUS
  <1>1. ASSUME NEW u \in Units, Call(u), UNCHANGED disposed PROVE IInv'
    <2>1. LocalCall(u) \/ ServiceCall(u)
      BY <1>1 DEF Call, LocalCall, ServiceCall
    <2> QED
      BY <1>1, <2>1, LocalInv, ServiceInv
  <1>2. ASSUME NEW u \in Units, Dispose(u) \/ Create(u) PROVE IInv'
    BY <1>2, LifeInv
  <1>3. CASE UNCHANGED vars
    BY <1>3 DEF vars, IInv, TypeOK, OnlyFailuresLinger
  <1>4. disposed \subseteq Units
    BY DEF IInv, TypeOK
  <1> QED
    BY <1>1, <1>2, <1>3, <1>4 DEF Next

\* The inductive invariant holds in every reachable state.
THEOREM Invariance == Spec => []IInv
  <1>1. Init => IInv
    <2> SUFFICES ASSUME Init PROVE IInv
      OBVIOUS
    <2>1. TypeOK
      BY DEF Init, TypeOK, Nothing
    <2>2. OnlyFailuresLinger
      BY DEF Init, OnlyFailuresLinger, Dirty, Detected, Nothing
    <2> QED
      BY <2>1, <2>2 DEF IInv
  <1> QED
    BY <1>1, NextInv, PTL DEF Spec

\* Types, and that no row ever holds what validation refuses.
THEOREM TypeCorrect == Spec => []TypeOK
  <1>1. IInv => TypeOK
    BY DEF IInv
  <1> QED
    BY <1>1, Invariance, PTL

\* What is pending between two calls comes from failed calls and touched entities.
THEOREM FailuresLinger == Spec => []OnlyFailuresLinger
  <1>1. IInv => OnlyFailuresLinger
    BY DEF IInv
  <1> QED
    BY <1>1, Invariance, PTL
-----------------------------------------------------------------------------
\* Only a call of the service changes the table, and what it stores are the
\* rows of its own and of failed calls, all of which exist.
LEMMA StepStores ==
  ASSUME IInv, [Next]_vars, table' # table
  PROVE  \E u \in Units, r \in Ids \cup New, t \in Tracker, new \in SUBSET New :
           /\ Saves(u, r, t, new) /\ Savable(t, new) /\ last' = <<u, r>>
           /\ \E place \in Injection(new, Fresh(t)) : table' = Stored(t, new, place)
  <1>1. PICK u \in Units : ServiceCall(u)
    BY DEF Next, vars, Call, ServiceCall, GetById, GetAll, Touch, Dispose, Create
  <1>2. PICK r \in Ids \cup New :
          \/ Throws(u, r)
          \/ \E t \in Tracker, new \in SUBSET New : Saves(u, r, t, new)
    BY <1>1, ServiceSaves
  <1>3. PICK t \in Tracker, new \in SUBSET New : Saves(u, r, t, new)
    BY <1>2 DEF Throws
  <1> QED
    BY <1>3 DEF Saves, Save

\* A call changes the row it is about and those of failed calls before it.
THEOREM AskedRows == Spec => OnlyAskedRowsChange
  <1>1. ASSUME IInv, [Next]_vars, NEW i \in Ids, table[i] # None, table'[i] # table[i]
        PROVE  i = last'[2] \/ i \in failed[last'[1]]
    <2>1. PICK u \in Units, r \in Ids \cup New, t \in Tracker, new \in SUBSET New :
            /\ Saves(u, r, t, new) /\ Savable(t, new) /\ last' = <<u, r>>
            /\ \E place \in Injection(new, Fresh(t)) : table' = Stored(t, new, place)
      BY <1>1, StepStores
    <2>2. PICK place \in Injection(new, Fresh(t)) : table' = Stored(t, new, place)
      BY <2>1
    <2>3. \A o \in new : place[o] # i
      BY <1>1 DEF Injection, Fresh
    <2>4. i \in Dirty(t)
      BY <1>1, <2>2, <2>3 DEF Stored
    <2>5. i \in failed[u] \cup {r}
      BY <2>1, <2>4, DetectedFacts DEF Saves
    <2> QED
      BY <2>1, <2>5
  <1>2. IInv /\ [Next]_vars =>
          [\A i \in Ids : table[i] # None /\ table'[i] # table[i] =>
             i = last'[2] \/ i \in failed[last'[1]]]_vars
    BY <1>1
  <1> QED
    BY <1>2, Invariance, PTL DEF Spec, OnlyAskedRowsChange

\* A pending row that does not exist keeps its unit from writing anything.
THEOREM LostRowBlocks == Spec => LostRowBlocksItsUnit
  <1>1. ASSUME IInv, [Next]_vars, table' # table, NEW i \in Dirty(tracked[last'[1]])
        PROVE  table[i] # None
    <2>1. PICK u \in Units, r \in Ids \cup New, t \in Tracker, new \in SUBSET New :
            /\ Saves(u, r, t, new) /\ Savable(t, new) /\ last' = <<u, r>>
      BY <1>1, StepStores
    <2> QED
      BY <1>1, <2>1 DEF Saves, Savable, Extends
  <1>2. IInv /\ [Next]_vars =>
          [table' # table => \A i \in Dirty(tracked[last'[1]]) : table[i] # None]_vars
    BY <1>1
  <1> QED
    BY <1>2, Invariance, PTL DEF Spec, LostRowBlocksItsUnit
-----------------------------------------------------------------------------
\* What a tracker holds for its pending rows.
LEMMA HandedFacts ==
  ASSUME NEW t \in Tracker
  PROVE  /\ Handed(t) \in [Ids -> Values \cup {None}]
         /\ \A i \in Ids : Handed(t)[i] # None <=> i \in Dirty(t)
         /\ \A i \in Dirty(t) : Handed(t)[i] = t[i].value
  BY NoneAssumption DEF Handed, Dirty, Tracker, Entity

\* A step of one unit's tracker, seen from the abstract table.
LEMMA KeepMaps ==
  ASSUME TypeOK, NEW u \in Units, NEW t, NEW new, Holds(u, t, new)
  PROVE  Atomic!Keep(u, Handed(t), new)
  BY DEF Holds, TypeOK, Atomic!Keep

\* A step that writes nothing and forgets nothing.
LEMMA KeepCalls ==
  ASSUME TypeOK, NEW u \in Units, NEW t \in Tracker, NEW new \in SUBSET New,
         Holds(u, t, new), table' = table, UNCHANGED disposed,
         Extends(tracked[u], t), added[u] \subseteq new
  PROVE  Atomic!Call(u)
  <1>1. Atomic!Keep(u, Handed(t), new)
    BY KeepMaps
  <1>2. tracked[u] \in Tracker
    BY DEF TypeOK, Tracker
  <1>3. \A i \in Ids : Handed(tracked[u])[i] # None => Handed(t)[i] = Handed(tracked[u])[i]
    BY <1>2, HandedFacts DEF Extends
  <1>4. Handed(t) \in Atomic!Changes
    BY HandedFacts DEF Atomic!Changes
  <1> HIDE DEF Handed
  <1> QED
    BY <1>1, <1>3, <1>4 DEF Atomic!Call

\* A save is a call of the abstract table.
LEMMA SaveCalls ==
  ASSUME TypeOK, NEW u \in Units, NEW r \in Ids \cup New, NEW t \in Tracker,
         NEW new \in SUBSET New, Saves(u, r, t, new), UNCHANGED disposed
  PROVE  Atomic!Call(u)
  <1>1. CASE Fails(u, r, t, new) /\ table' = table
    BY <1>1, KeepCalls DEF Saves, Fails
  <1>2. ASSUME NEW place \in Injection(new, Fresh(t)), table' = Stored(t, new, place),
               \/ Holds(u, Accepted(t, new, place), {})
               \/ Holds(u, t, new)
        PROVE  Atomic!Call(u)
    <2>1. Handed(t) \in Atomic!Changes
      BY HandedFacts DEF Atomic!Changes
    <2>2. tracked[u] \in Tracker
      BY DEF TypeOK, Tracker
    <2>3. \A i \in Ids : Handed(tracked[u])[i] # None => Handed(t)[i] = Handed(tracked[u])[i]
      BY <2>2, HandedFacts DEF Saves, Extends
    <2>4. place \in Atomic!Injection(new, {i \in Ids : table[i] = None})
      BY DEF Injection, IsInjective, Atomic!Injection, Atomic!IsInjective, Fresh
    <2>5. table' = Atomic!Written(Handed(t), new, place)
      BY <1>2, HandedFacts DEF Stored, Atomic!Written
    <2>6. Handed(Accepted(t, new, place)) = Atomic!Nothing
      BY AcceptedFacts DEF Handed, Atomic!Nothing
    <2>7. Atomic!Keep(u, Handed(t), new) \/ Atomic!Keep(u, Atomic!Nothing, {})
      BY <1>2, <2>6, KeepMaps
    <2>8. added[u] \subseteq new
      BY DEF Saves
    <2> HIDE DEF Handed
    <2> QED
      BY <2>1, <2>3, <2>4, <2>5, <2>7, <2>8 DEF Atomic!Call
  <1> QED
    BY <1>1, <1>2 DEF Saves, Save, Fails

\* Every step is a step of the abstract table, or none.
LEMMA StepMaps ==
  ASSUME IInv, [Next]_vars
  PROVE  [Atomic!Next]_<<table, [u \in Units |-> Handed(tracked[u])], added, disposed>>
  <1>1. TypeOK /\ \A u \in Units : tracked[u] \in Tracker /\ added[u] \in SUBSET New
    BY DEF IInv, TypeOK, Tracker
  <1>2. ASSUME NEW u \in Units, UNCHANGED disposed, ServiceCall(u) PROVE Atomic!Call(u)
    <2>1. PICK r \in Ids \cup New :
            \/ Throws(u, r)
            \/ \E t \in Tracker, new \in SUBSET New : Saves(u, r, t, new)
      BY <1>2, ServiceSaves
    <2>2. CASE Throws(u, r)
      BY <1>1, <1>2, <2>2, DetectedFacts, KeepCalls DEF Throws, Fails
    <2> QED
      BY <1>1, <1>2, <2>1, <2>2, SaveCalls
  <1>3. ASSUME NEW u \in Units, UNCHANGED disposed, NEW i \in Ids, GetById(u, i) PROVE Atomic!Call(u)
    <2> DEFINE d == Detected(tracked[u])
               t == IF d[i] = None /\ table[i] # None
                    THEN [d EXCEPT ![i] = Unchanged(table[i])] ELSE d
    <2>1. d \in Tracker /\ Extends(tracked[u], d)
      BY <1>1, DetectedFacts
    <2>2. Holds(u, t, added[u]) /\ table' = table
      BY <1>1, <1>3 DEF GetById, Holds, TypeOK
    <2> HIDE DEF d
    <2>3. t \in Tracker
      BY <1>1, <2>1 DEF Tracker, TypeOK, Unchanged, Entity
    <2>4. Extends(tracked[u], t)
      BY <2>1 DEF Extends, Dirty, Tracker
    <2> HIDE DEF t
    <2> QED
      BY <1>1, <1>3, <2>1, <2>2, <2>3, <2>4, KeepCalls
  <1>4. ASSUME NEW u \in Units, UNCHANGED disposed, GetAll(u) PROVE Atomic!Call(u)
    <2> DEFINE t == [i \in Ids |-> IF tracked[u][i] = None /\ table[i] \notin Hidden \cup {None}
                                   THEN Unchanged(table[i]) ELSE tracked[u][i]]
    <2>1. Holds(u, t, added[u]) /\ table' = table
      BY <1>1, <1>4 DEF GetAll, Holds, TypeOK
    <2>2. t \in Tracker
      BY <1>1 DEF Tracker, TypeOK, Unchanged, Entity
    <2>3. Extends(tracked[u], t)
      BY <1>1 DEF Extends, Dirty, Tracker
    <2> HIDE DEF t
    <2> QED
      BY <1>1, <1>4, <2>1, <2>2, <2>3, KeepCalls
  <1>5. ASSUME NEW u \in Units, UNCHANGED disposed, NEW i \in Ids, NEW v \in Values, Touch(u, i, v)
        PROVE  Atomic!Change(u, i, v) \/ Atomic!Call(u)
    <2> DEFINE x == tracked[u]
               t == [x EXCEPT ![i] = [x[i] EXCEPT !.value = v]]
    <2>1. x \in Tracker /\ x[i] \in Entity
      BY <1>1, <1>5 DEF Touch, Tracker
    <2>2. Holds(u, t, added[u]) /\ table' = table
      BY <1>1, <1>5 DEF Touch, Holds, TypeOK, Tracker
    <2> HIDE DEF x
    <2>3. /\ [x[i] EXCEPT !.value = v] \in Entity
          /\ [x[i] EXCEPT !.value = v].state = x[i].state
          /\ [x[i] EXCEPT !.value = v].value = v
      BY <2>1 DEF Entity
    <2>4. /\ t \in Tracker /\ t[i] = [x[i] EXCEPT !.value = v]
          /\ \A j \in Ids \ {i} : t[j] = x[j]
      BY <2>1, <2>3 DEF Tracker
    <2> HIDE DEF t
    <2>5. Dirty(t) = Dirty(x)
      BY <2>1, <2>3, <2>4, NoneIsNoEntity DEF Dirty
    <2>6. CASE i \in Dirty(x)
      <3>1. Handed(t) = [Handed(x) EXCEPT ![i] = v]
        BY <2>3, <2>4, <2>5, <2>6 DEF Handed
      <3>2. Handed(x)[i] # None
        BY <2>1, <2>6, HandedFacts
      <3>3. Atomic!Keep(u, Handed(t), added[u])
        BY <1>1, <2>2, KeepMaps
      <3>4. [w \in Units |-> Handed(tracked[w])][u] = Handed(x)
        BY DEF x
      <3> HIDE DEF Handed
      <3> QED
        BY <1>5, <2>2, <3>1, <3>2, <3>3, <3>4 DEF Atomic!Change
    <2>7. CASE i \notin Dirty(x)
      <3>1. Extends(x, t)
        BY <2>4, <2>5, <2>7 DEF Extends, Dirty
      <3> QED
        BY <1>1, <1>5, <2>2, <2>4, <3>1, KeepCalls DEF x
    <2> QED
      BY <2>6, <2>7
  <1>6. ASSUME NEW u \in Units, Dispose(u) PROVE Atomic!Forget(u)
    <2>1. Handed(Nothing) = Atomic!Nothing
      BY DEF Handed, Dirty, Nothing, Atomic!Nothing
    <2>2. Atomic!Keep(u, Handed(Nothing), {})
      BY <1>1, <1>6, KeepMaps DEF Dispose
    <2> QED
      BY <1>6, <2>1, <2>2 DEF Dispose, Atomic!Forget
  <1>7. ASSUME NEW u \in Units, Create(u) PROVE Atomic!Renew(u)
    BY <1>7 DEF Create, Atomic!Renew
  <1>8. CASE UNCHANGED vars
    BY <1>8 DEF vars
  <1>9. ASSUME NEW u \in Units \ disposed, Call(u), UNCHANGED disposed
        PROVE  Atomic!Call(u) \/ \E i \in Ids, v \in Values : Atomic!Change(u, i, v)
    BY <1>2, <1>3, <1>4, <1>5, <1>9 DEF Call, ServiceCall
  <1>10. disposed \subseteq Units
    BY DEF IInv, TypeOK
  <1> QED
    BY <1>6, <1>7, <1>8, <1>9, <1>10 DEF Next, Atomic!Next

\* The service implements the abstract table.
THEOREM Implements == Spec => WritesAreAtomic
  <1>1. Init => Atomic!Init
    <2> SUFFICES ASSUME Init PROVE Atomic!Init
      OBVIOUS
    <2>1. Handed(Nothing) = Atomic!Nothing
      BY DEF Handed, Dirty, Nothing, Atomic!Nothing
    <2> QED
      BY <2>1 DEF Init, Atomic!Init, Atomic!Changes
  <1>2. IInv /\ [Next]_vars => [Atomic!Next]_<<table, [u \in Units |-> Handed(tracked[u])], added, disposed>>
    BY StepMaps
  <1> QED
    BY <1>1, <1>2, Invariance, PTL DEF Spec, WritesAreAtomic, Atomic!Spec
-----------------------------------------------------------------------------
(***************************************************************************)
(* BusinessRules.                                                          *)
(***************************************************************************)
\* Induction on the natural numbers, for a set of them.
LEMMA SetOfAllNaturals ==
  ASSUME NEW T \in SUBSET Nat, 0 \in T, \A n \in T : n + 1 \in T
  PROVE  T = Nat
  <1> SUFFICES ASSUME Nat \ T # {} PROVE FALSE
    OBVIOUS
  <1> DEFINE below == OpToRel(<, Nat)
  <1>1. IsWellFoundedOn(below, Nat)
    BY NatLessThanWellFounded
  <1>2. \A m, n \in Nat : m < n => <<m, n>> \in below
    BY DEF OpToRel
  <1> HIDE DEF below
  <1>3. PICK least \in Nat \ T : \A n \in Nat \ T : <<n, least>> \notin below
    BY <1>1, WFMin
  <1>4. least - 1 \in Nat /\ least - 1 < least /\ (least - 1) + 1 = least
    OBVIOUS
  <1> QED
    BY <1>2, <1>3, <1>4

\* The loop over the rules, as the function f of the rules seen so far.
Loop(o, f, n) ==
  f = [i \in 0 .. n |-> IF i = 0 THEN <<>>
                        ELSE IF IsBroken(o, i) THEN Append(f[i - 1], i) ELSE f[i - 1]]

\* What the loop has found after n rules.
FoundUpTo(o, s, n) ==
  /\ s \in Seq(1 .. n) /\ Len(s) <= n
  /\ \A i \in 1 .. n : IsBroken(o, i) <=> \E k \in 1 .. Len(s) : s[k] = i
  /\ \A k, m \in 1 .. Len(s) : k < m => s[k] < s[m]

\* One turn of the loop.
LEMMA LoopTurn ==
  ASSUME NEW o, NEW n \in Nat, NEW s, FoundUpTo(o, s, n)
  PROVE  FoundUpTo(o, IF IsBroken(o, n + 1) THEN Append(s, n + 1) ELSE s, n + 1)
  <1>1. s \in Seq(1 .. n + 1) /\ Len(s) \in Nat /\ \A k \in 1 .. Len(s) : s[k] \in 1 .. n
    BY DEF FoundUpTo
  <1>2. \A i \in 1 .. n + 1 : i \in 1 .. n \/ i = n + 1
    OBVIOUS
  <1>3. CASE IsBroken(o, n + 1)
    <2> DEFINE t == Append(s, n + 1)
    <2>1. t \in Seq(1 .. n + 1) /\ Len(t) = Len(s) + 1 /\ t[Len(s) + 1] = n + 1
          /\ \A k \in 1 .. Len(s) : t[k] = s[k]
      BY <1>1
    <2>2. \A k \in 1 .. Len(t) : k \in 1 .. Len(s) \/ k = Len(s) + 1
      BY <1>1, <2>1
    <2>3. 1 .. Len(s) \subseteq 1 .. Len(t) /\ Len(t) \in 1 .. Len(t)
      BY <1>1, <2>1
    <2> HIDE DEF t
    <2>4. \A i \in 1 .. n + 1 : IsBroken(o, i) <=> \E k \in 1 .. Len(t) : t[k] = i
      BY <1>1, <1>2, <1>3, <2>1, <2>2, <2>3 DEF FoundUpTo
    <2>5. ASSUME NEW k \in 1 .. Len(t), NEW m \in 1 .. Len(t), k < m
          PROVE  t[k] < t[m]
      <3>1. k \in 1 .. Len(s)
        BY <1>1, <2>1, <2>5
      <3>2. CASE m \in 1 .. Len(s)
        BY <2>1, <2>5, <3>1, <3>2 DEF FoundUpTo
      <3>3. CASE m = Len(s) + 1
        <4>1. t[k] \in 1 .. n /\ t[m] = n + 1
          BY <1>1, <2>1, <3>1, <3>3
        <4> QED
          BY <4>1
      <3> QED
        BY <2>2, <3>2, <3>3
    <2>6. FoundUpTo(o, t, n + 1)
      BY <1>1, <2>1, <2>4, <2>5 DEF FoundUpTo
    <2> QED
      BY <1>3, <2>6 DEF t
  <1>4. CASE ~ IsBroken(o, n + 1)
    BY <1>1, <1>2, <1>4 DEF FoundUpTo
  <1> QED
    BY <1>3, <1>4

\* However many rules there are, the loop can be run over them.
LEMMA LoopRuns ==
  ASSUME NEW o
  PROVE  \A n \in Nat : \E f : Loop(o, f, n)
  <1> DEFINE T == {n \in Nat : \E f : Loop(o, f, n)}
  <1>1. 0 \in T
    <2>1. Loop(o, [i \in 0 .. 0 |-> <<>>], 0)
      BY DEF Loop
    <2> QED
      BY <2>1
  <1>2. \A n \in T : n + 1 \in T
    <2> SUFFICES ASSUME NEW n \in Nat, NEW f, Loop(o, f, n)
                 PROVE  \E g : Loop(o, g, n + 1)
      OBVIOUS
    <2> DEFINE turn == IF IsBroken(o, n + 1) THEN Append(f[n], n + 1) ELSE f[n]
               g == [i \in 0 .. n + 1 |-> IF i = n + 1 THEN turn ELSE f[i]]
               h == [i \in 0 .. n + 1 |->
                       IF i = 0 THEN <<>>
                       ELSE IF IsBroken(o, i) THEN Append(g[i - 1], i) ELSE g[i - 1]]
    <2>1. ASSUME NEW i \in 0 .. n + 1 PROVE g[i] = h[i]
      <3>1. CASE i = 0
        BY <3>1 DEF Loop
      <3>2. CASE i \in 1 .. n
        <4>1. i \in 0 .. n /\ i - 1 \in 0 .. n /\ i # 0 /\ i # n + 1 /\ i - 1 # n + 1
              /\ i - 1 \in 0 .. n + 1
          BY <3>2
        <4>2. f[i] = IF IsBroken(o, i) THEN Append(f[i - 1], i) ELSE f[i - 1]
          BY <4>1 DEF Loop
        <4>3. g[i] = f[i] /\ g[i - 1] = f[i - 1]
          BY <4>1
        <4> QED
          BY <4>1, <4>2, <4>3
      <3>3. CASE i = n + 1
        <4>1. (n + 1) - 1 = n /\ n # n + 1 /\ n \in 0 .. n + 1 /\ n + 1 # 0
          OBVIOUS
        <4>2. g[n] = f[n]
          BY <4>1
        <4> QED
          BY <3>3, <4>1, <4>2
      <3> QED
        BY <3>1, <3>2, <3>3
    <2>2. g = h
      BY <2>1
    <2> QED
      BY <2>2 DEF Loop
  <1>3. T = Nat
    <2> HIDE DEF T
    <2>1. T \in SUBSET Nat
      BY DEF T
    <2> QED
      BY <1>1, <1>2, <2>1, SetOfAllNaturals
  <1> QED
    BY <1>3

\* The rules that are found to fail are those that do, each once, in order.
LEMMA FailingFacts ==
  ASSUME NEW o
  PROVE  FoundUpTo(o, Failing(o), Len(Rules))
  <1> DEFINE f == CHOOSE f : Loop(o, f, Len(Rules))
  <1>1. Loop(o, f, Len(Rules))
    BY LoopRuns, RulesAssumption
  <1>2. Failing(o) = f[Len(Rules)]
    BY DEF Failing, Loop
  <1> HIDE DEF f
  <1> DEFINE T == {n \in Nat : n <= Len(Rules) => FoundUpTo(o, f[n], n)}
  <1>3. 0 \in T
    <2>1. f[0] = <<>>
      BY <1>1, RulesAssumption DEF Loop
    <2>2. FoundUpTo(o, <<>>, 0)
      <3>1. <<>> \in Seq(1 .. 0) /\ Len(<<>>) = 0 /\ 1 .. 0 = {}
        OBVIOUS
      <3> QED
        BY <3>1 DEF FoundUpTo
    <2> QED
      BY <2>1, <2>2
  <1>4. \A n \in T : n + 1 \in T
    <2> SUFFICES ASSUME NEW n \in T, n + 1 <= Len(Rules)
                 PROVE  FoundUpTo(o, f[n + 1], n + 1)
      OBVIOUS
    <2>1. n + 1 \in 0 .. Len(Rules) /\ n + 1 # 0 /\ (n + 1) - 1 = n /\ n <= Len(Rules)
      BY RulesAssumption
    <2>2. f[n + 1] = IF IsBroken(o, n + 1) THEN Append(f[n], n + 1) ELSE f[n]
      BY <1>1, <2>1 DEF Loop
    <2> QED
      BY <2>1, <2>2, LoopTurn
  <1>5. T = Nat
    <2> HIDE DEF T
    <2>1. T \in SUBSET Nat
      BY DEF T
    <2> QED
      BY <1>3, <1>4, <2>1, SetOfAllNaturals
  <1> QED
    BY <1>2, <1>5, RulesAssumption

\* A validation lists the failing rules with their messages.
LEMMA ListedFacts ==
  ASSUME NEW o, messages \in [DOMAIN Rules -> {"own", "notFound"}]
  PROVE  /\ Reworded(o) \in [DOMAIN Rules -> {"own", "notFound"}]
         /\ Errors(o) \in Seq((DOMAIN Rules) \X {"own", "notFound"})
         /\ Len(Errors(o)) = Len(Failing(o)) /\ Len(Failing(o)) \in 0 .. Len(Rules)
         /\ \A k \in 1 .. Len(Failing(o)) : Errors(o)[k][1] = Failing(o)[k]
         /\ \A k, n \in DOMAIN Errors(o) : Errors(o)[k][1] = Errors(o)[n][1] => k = n
  <1> DEFINE failing == Failing(o)
             reworded == Reworded(o)
  <1>1. /\ Len(failing) \in 0 .. Len(Rules) /\ DOMAIN failing = 1 .. Len(failing)
        /\ \A k \in 1 .. Len(failing) : failing[k] \in DOMAIN Rules
        /\ \A k, n \in 1 .. Len(failing) : k < n => failing[k] < failing[n]
    <2>1. /\ failing \in Seq(1 .. Len(Rules)) /\ Len(failing) <= Len(Rules)
          /\ \A k, n \in 1 .. Len(failing) : k < n => failing[k] < failing[n]
      BY FailingFacts DEF FoundUpTo
    <2> HIDE DEF failing
    <2> QED
      BY <2>1, RulesAssumption
  <1>2. reworded \in [DOMAIN Rules -> {"own", "notFound"}]
    BY DEF Reworded
  <1>3. Errors(o) = [k \in 1 .. Len(failing) |-> <<failing[k], reworded[failing[k]]>>]
    BY <1>1 DEF Errors, Listed
  <1> HIDE DEF failing, reworded
  <1>4. \A k \in 1 .. Len(failing) :
          <<failing[k], reworded[failing[k]]>> \in (DOMAIN Rules) \X {"own", "notFound"}
    BY <1>1, <1>2
  <1>5. Len(failing) \in Nat /\ Errors(o) \in [1 .. Len(failing) -> (DOMAIN Rules) \X {"own", "notFound"}]
    BY <1>1, <1>3, <1>4
  <1>6. Errors(o) \in Seq((DOMAIN Rules) \X {"own", "notFound"}) /\ Len(Errors(o)) = Len(failing)
    BY <1>5, IsASeq
  <1>7. \A k \in 1 .. Len(failing) : Errors(o)[k][1] = failing[k]
    BY <1>3
  <1>8. \A k, n \in 1 .. Len(failing) : failing[k] = failing[n] => k = n
    BY <1>1, RulesAssumption
  <1>9. \A k, n \in DOMAIN Errors(o) : Errors(o)[k][1] = Errors(o)[n][1] => k = n
    BY <1>5, <1>7, <1>8
  <1> QED
    BY <1>1, <1>2, <1>6, <1>7, <1>9 DEF failing, reworded

\* The types of a validated object: whatever is assigned and validated, no two
\* errors are of one rule and no error is of something else than a rule.
THEOREM RulesTypeCorrect == RulesSpec => []RulesTypeOK
  <1>1. RulesInit => RulesTypeOK
    BY RulesAssumption DEF RulesInit, RulesTypeOK
  <1>2. RulesTypeOK /\ [RulesNext]_rulesVars => RulesTypeOK'
    <2> SUFFICES ASSUME RulesTypeOK, [RulesNext]_rulesVars PROVE RulesTypeOK'
      OBVIOUS
    <2>1. ASSUME NEW p \in Properties, NEW v \in May[p], Assign(p, v)
          PROVE  RulesTypeOK'
      BY <2>1 DEF Assign, RulesTypeOK
    <2>2. CASE Validate
      <3>1. Len(Errors(object)) <= Len(Rules)
        BY ListedFacts, RulesAssumption DEF RulesTypeOK
      <3>2. \A k, n \in DOMAIN errors' : errors'[k][1] = errors'[n][1] => k = n
        BY <2>2, ListedFacts DEF Validate, RulesTypeOK
      <3> QED
        BY <2>2, <3>1, <3>2, ListedFacts DEF Validate, RulesTypeOK
    <2>3. CASE UNCHANGED rulesVars
      BY <2>3 DEF rulesVars, RulesTypeOK
    <2> QED
      BY <2>1, <2>2, <2>3 DEF RulesNext
  <1> QED
    BY <1>1, <1>2, PTL DEF RulesSpec

\* The errors are those of the last validation and all of them, in the order
\* of the rules, and a valid object is one that no rule rejects.
THEOREM ErrorsOfTheLastValidation == RulesSpec => ErrorsAreOfThisRun
  <1>1. ASSUME RulesTypeOK, Validate
        PROVE  LET found == {errors'[k][1] : k \in DOMAIN errors'}
                   rejecting == {i \in DOMAIN Rules : Rejects(Rules[i], object)}
               IN /\ found \subseteq rejecting
                  /\ outcome' # "thrown" => /\ found = rejecting
                                            /\ (outcome' = "valid") <=> (found = {})
                  /\ \A k, n \in DOMAIN errors' : k < n => errors'[k][1] < errors'[n][1]
    <2> DEFINE failing == Failing(object)
               found == {errors'[k][1] : k \in DOMAIN errors'}
               rejecting == {i \in DOMAIN Rules : Rejects(Rules[i], object)}
    <2>1. FoundUpTo(object, failing, Len(Rules)) /\ DOMAIN Rules = 1 .. Len(Rules)
      BY FailingFacts, RulesAssumption
    <2>2. errors' = Errors(object) /\ Len(failing) \in Nat /\ Len(errors') = Len(failing)
          /\ errors' \in Seq((DOMAIN Rules) \X {"own", "notFound"})
          /\ \A k \in 1 .. Len(failing) : errors'[k][1] = failing[k]
      BY <1>1, ListedFacts, RulesAssumption DEF Validate, RulesTypeOK
    <2>3. DOMAIN errors' = 1 .. Len(failing)
      BY <2>2
    <2>4. found = {i \in DOMAIN Rules : IsBroken(object, i)}
      <3>1. found = {failing[k] : k \in 1 .. Len(failing)}
        BY <2>2, <2>3
      <3>2. \A k \in 1 .. Len(failing) : failing[k] \in 1 .. Len(Rules)
        BY <2>1 DEF FoundUpTo
      <3> HIDE DEF found, failing
      <3> QED
        BY <2>1, <3>1, <3>2 DEF FoundUpTo
    <2>5. outcome' # "thrown" => Run(object) = DOMAIN Rules
      BY <1>1 DEF Validate
    <2>6. outcome' # "thrown" => ((outcome' = "valid") <=> (failing = <<>>))
      BY <1>1 DEF Validate
    <2>7. (failing = <<>>) <=> (found = {})
      <3>1. (failing = <<>>) <=> (Len(failing) = 0)
        BY <2>1 DEF FoundUpTo
      <3>2. Len(failing) = 0 <=> 1 .. Len(failing) = {}
        BY <2>2
      <3> QED
        BY <2>3, <3>1, <3>2
    <2>8. found \subseteq rejecting
      BY <2>4 DEF IsBroken
    <2>9. Run(object) = DOMAIN Rules => found = rejecting
      BY <2>4 DEF IsBroken
    <2>10. \A k, n \in DOMAIN errors' : k < n => errors'[k][1] < errors'[n][1]
      BY <2>1, <2>2, <2>3 DEF FoundUpTo
    <2> HIDE DEF found, rejecting, failing
    <2>11. /\ found \subseteq rejecting
           /\ outcome' # "thrown" => /\ found = rejecting
                                     /\ (outcome' = "valid") <=> (found = {})
           /\ \A k, n \in DOMAIN errors' : k < n => errors'[k][1] < errors'[n][1]
      BY <2>5, <2>6, <2>7, <2>8, <2>9, <2>10
    <2> QED
      BY <2>11 DEF found, rejecting
  <1> QED
    BY <1>1, RulesTypeCorrect, PTL DEF RulesSpec, ErrorsAreOfThisRun

\* Of a comparison and its negation no object passes both, and one with two
\* comparable values passes one.
THEOREM NegationsAreExclusive == RulesSpec => []NegationsExclude
  <1>1. NegationsExclude
    <2> SUFFICES ASSUME NEW i \in DOMAIN Rules, NEW t \in ValidationDataType,
                        NEW op \in DOMAIN Negation, Rules[i].kind = "Compare"
                 PROVE  LET p == Rules[i].property
                            other == Rules[i].other
                            accepted == {c \in {op, Negation[op]} : Compare(object, p, other, c, t)}
                            comparable == \A q \in {p, other} : /\ Parses(t, object[q])
                                                               /\ Order[t][object[q]] # NaN
                        IN /\ accepted # {op, Negation[op]}
                           /\ comparable => accepted # {}
      BY DEF NegationsExclude
    <2> DEFINE p == Rules[i].property
               other == Rules[i].other
               r == Relation(t, object[p], object[other])
    <2>1. Holding[op] \cap Holding[Negation[op]] = {}
          /\ {"less", "equal", "greater"} \subseteq Holding[op] \cup Holding[Negation[op]]
      BY DEF Negation, Holding
    <2>2. Order[t][object[p]] # NaN /\ Order[t][object[other]] # NaN
          => r \in {"less", "equal", "greater"}
      BY DEF Relation
    <2>3. \A c : Compare(object, p, other, c, t) <=>
                   Parses(t, object[p]) /\ Parses(t, object[other]) /\ r \in Holding[c]
      BY DEF Compare
    <2> HIDE DEF p, other, r
    <2>4. ~ (Compare(object, p, other, op, t) /\ Compare(object, p, other, Negation[op], t))
      BY <2>1, <2>3
    <2>5. (\A q \in {p, other} : Parses(t, object[q]) /\ Order[t][object[q]] # NaN)
          => Compare(object, p, other, op, t) \/ Compare(object, p, other, Negation[op], t)
      BY <2>1, <2>2, <2>3
    <2>6. /\ {c \in {op, Negation[op]} : Compare(object, p, other, c, t)} # {op, Negation[op]}
          /\ (\A q \in {p, other} : Parses(t, object[q]) /\ Order[t][object[q]] # NaN)
             => {c \in {op, Negation[op]} : Compare(object, p, other, c, t)} # {}
      BY <2>4, <2>5
    <2> QED
      BY <2>6 DEF p, other
  <1> QED
    BY <1>1, PTL
=============================================================================

----------------------------- MODULE UnitOfWork -----------------------------
(***************************************************************************)
(* DefaultRoutesService over the routes repository and UnitOfWork: what    *)
(* the calls of the service do to the change tracker of the context and to *)
(* the table, in any sequence, with several units of work at once.         *)
(*                                                                         *)
(* Every call of the service ends in Save, which sends everything pending  *)
(* in the tracker, leftovers of earlier calls included, in one transaction.*)
(***************************************************************************)
EXTENDS Functions

CONSTANTS
  Ids,     \* keys of the table: the bound on its rows
  Values,  \* contents of a row
  Bad,     \* the contents validation refuses
  Hidden,  \* the contents with IsDeleted set
  New,     \* new entities a caller may add
  Content, \* Content[o]: what new entity o holds
  Units,   \* units of work, each used again after it is disposed of
  None     \* no value

ASSUME ValuesAssumption == Bad \subseteq Values /\ Hidden \subseteq Values
ASSUME ContentAssumption == Content \in [New -> Values]
ASSUME NewAssumption == New \cap Ids = {}

VARIABLES
  table,   \* the rows of table Route
  tracked, \* tracked[u][i]: the entity with key i that unit u tracks, or None
  added,   \* added[u]: the entities in state Added
  disposed,\* the units whose request is over
  last,    \* the unit and the route of the last Add, Update or Delete (history)
  failed   \* failed[u]: routes of failed calls, and touched ones (history)

vars == <<table, tracked, added, disposed, last, failed>>

\* A tracked entity: its state, what it holds, and what it held when the
\* tracker last looked.
Entity == [state : {"Unchanged", "Modified"}, value : Values, original : Values]

ASSUME NoneAssumption == None \notin Values /\ None \notin Entity

Unchanged(v) == [state |-> "Unchanged", value |-> v, original |-> v]

Modified(v) == [state |-> "Modified", value |-> v, original |-> v]

Nothing == [i \in Ids |-> None]

\* The routes unit u would send if it saved now.
Dirty(t) == {i \in Ids : t[i] # None /\ t[i].state = "Modified"}

\* What the tracker t holds for them.
Handed(t) == [i \in Ids |-> IF i \in Dirty(t) THEN t[i].value ELSE None]

Init ==
  /\ table \in [Ids -> (Values \ Bad) \cup {None}]
  /\ tracked = [u \in Units |-> Nothing]
  /\ added = [u \in Units |-> {}]
  /\ disposed = {}
  /\ last = <<>>
  /\ failed = [u \in Units |-> {}]
-----------------------------------------------------------------------------
(***************************************************************************)
(* SaveChanges of the context.                                             *)
(***************************************************************************)
\* DetectChanges, which Find, Add, Attach and SaveChanges begin with.
Detected(t) ==
  [i \in Ids |-> IF t[i] # None /\ t[i].value # t[i].original
                 THEN Modified(t[i].value) ELSE t[i]]

\* Mutants of Savable: an UPDATE of no row is no error; nothing is validated.
SavableIgnoringRows(t, new) ==
  /\ \A i \in Dirty(t) : t[i].value \notin Bad
  /\ \A o \in new : Content[o] \notin Bad

SavableUnvalidated(t, new) == \A i \in Dirty(t) : table[i] # None

\* Every pending entity passes validation, and every UPDATE finds its row.
Savable(t, new) ==
  /\ \A i \in Dirty(t) : t[i].value \notin Bad /\ table[i] # None
  /\ \A o \in new : Content[o] \notin Bad

\* The keys an IDENTITY column may come up with.
Fresh(t) == {i \in Ids : table[i] = None /\ t[i] = None}

Stored(t, new, place) ==
  [i \in Ids |-> IF \E o \in new : place[o] = i
                 THEN Content[CHOOSE o \in new : place[o] = i]
                 ELSE IF i \in Dirty(t) THEN t[i].value ELSE table[i]]

\* AcceptAllChanges
Accepted(t, new, place) ==
  [i \in Ids |-> IF \E o \in new : place[o] = i
                 THEN Unchanged(Content[CHOOSE o \in new : place[o] = i])
                 ELSE IF t[i] # None THEN Unchanged(t[i].value) ELSE None]

Holds(u, t, new) ==
  /\ tracked' = [tracked EXCEPT ![u] = t]
  /\ added' = [added EXCEPT ![u] = new]

\* Mutant of Fails: the tracker is emptied when a save fails.
FailsAndForgets(u, r, t, new) ==
  /\ Holds(u, Nothing, {})
  /\ failed' = [failed EXCEPT ![u] = @ \cup {r}]

\* The call throws, and what it has put into the tracker stays.
Fails(u, r, t, new) ==
  /\ Holds(u, t, new)
  /\ failed' = [failed EXCEPT ![u] = @ \cup {r}]

\* UnitOfWork.Save at the end of a call about route r.  It may fail for
\* reasons outside the model, before the commit or after it.
Save(u, r, t, new) ==
  /\ last' = <<u, r>>
  /\ \/ /\ Savable(t, new)
        /\ \E place \in Injection(new, Fresh(t)) :
             /\ table' = Stored(t, new, place)
             /\ \/ /\ Holds(u, Accepted(t, new, place), {})
                   /\ failed' = [failed EXCEPT ![u] = {}]
                \/ Fails(u, r, t, new)
     \/ Fails(u, r, t, new) /\ UNCHANGED table
-----------------------------------------------------------------------------
(***************************************************************************)
(* The calls of DefaultRoutesService.                                      *)
(***************************************************************************)
\* Mutant of GetById: the entity found is marked as modified.
GetByIdModified(u, i) ==
  LET t == Detected(tracked[u])
  IN /\ tracked' = [tracked EXCEPT ![u] =
                      IF t[i] = None /\ table[i] # None
                      THEN [t EXCEPT ![i] = Modified(table[i])] ELSE t]
     /\ UNCHANGED <<table, added, last, failed>>

\* Find answers from the tracker if it can.
GetById(u, i) ==
  LET t == Detected(tracked[u])
  IN /\ tracked' = [tracked EXCEPT ![u] =
                      IF t[i] = None /\ table[i] # None
                      THEN [t EXCEPT ![i] = Unchanged(table[i])] ELSE t]
     /\ UNCHANGED <<table, added, last, failed>>

\* A query tracks the rows that are not tracked yet, and leaves the others as
\* they are in the tracker.
GetAll(u) ==
  /\ tracked' = [tracked EXCEPT ![u] =
                   [i \in Ids |-> IF @[i] = None /\ table[i] \notin Hidden \cup {None}
                                  THEN Unchanged(table[i]) ELSE @[i]]]
  /\ UNCHANGED <<table, added, last, failed>>

\* A caller changes an entity it was given.
Touch(u, i, v) ==
  /\ tracked[u][i] # None
  /\ tracked' = [tracked EXCEPT ![u][i].value = v]
  /\ failed' = [failed EXCEPT ![u] = @ \cup {i}]
  /\ UNCHANGED <<table, added, last>>

Add(u, o) == Save(u, o, Detected(tracked[u]), added[u] \cup {o})

\* Mutant of Update: it does not call Save.
UpdateUnsaved(u, i, v) ==
  LET t == Detected(tracked[u])
  IN /\ t[i] = None
     /\ Holds(u, [t EXCEPT ![i] = Modified(v)], added[u])
     /\ last' = <<u, i>>
     /\ UNCHANGED <<table, failed>>

\* Update and Delete, which are the same, of an entity the tracker does not
\* know.  Attach throws if it tracks another one with the key.
Update(u, i, v) ==
  LET t == Detected(tracked[u])
  IN IF t[i] = None
     THEN Save(u, i, [t EXCEPT ![i] = Modified(v)], added[u])
     ELSE /\ Fails(u, i, t, added[u])
          /\ last' = <<u, i>>
          /\ UNCHANGED table

\* ... and of one that it tracks: the caller was given it by this unit, or
\* tries it again.
UpdateTracked(u, i) ==
  LET t == Detected(tracked[u])
  IN /\ t[i] # None
     /\ Save(u, i, [t EXCEPT ![i] = Modified(t[i].value)], added[u])

Call(u) ==
  \/ \E i \in Ids : \/ GetById(u, i) \/ UpdateTracked(u, i)
                    \/ \E v \in Values : Touch(u, i, v) \/ Update(u, i, v)
  \/ \E o \in New : Add(u, o)
  \/ GetAll(u)

\* The end of the request.
Dispose(u) ==
  /\ Holds(u, Nothing, {})
  /\ failed' = [failed EXCEPT ![u] = {}]
  /\ disposed' = disposed \cup {u}
  /\ UNCHANGED <<table, last>>

\* A request gets a new unit of work.
Create(u) ==
  /\ disposed' = disposed \ {u}
  /\ UNCHANGED <<table, tracked, added, last, failed>>

Next ==
  \/ \E u \in Units \ disposed : Call(u) /\ UNCHANGED disposed
  \/ \E u \in Units \ disposed : Dispose(u)
  \/ \E u \in disposed : Create(u)

Spec == Init /\ [][Next]_vars
-----------------------------------------------------------------------------
(***************************************************************************)
(* Properties.                                                             *)
(***************************************************************************)
\* Types; a row never holds what validation refuses.
TypeOK ==
  /\ table \in [Ids -> (Values \ Bad) \cup {None}]
  /\ tracked \in [Units -> [Ids -> Entity \cup {None}]]
  /\ added \in [Units -> SUBSET New]
  /\ disposed \subseteq Units
  /\ last \in (Units \X (Ids \cup New)) \cup {<<>>}
  /\ failed \in [Units -> SUBSET (Ids \cup New)]

\* What a unit has pending between two calls comes from a call of its own that
\* failed, or from an entity its caller has touched: a unit that has only read
\* and saved successfully has nothing to write.
OnlyFailuresLinger ==
  \A u \in Units : Dirty(Detected(tracked[u])) \cup added[u] \subseteq failed[u]

\* Whatever a unit has read, a call changes the row it is about and, of others,
\* only those of calls that failed before it in the same unit, or touched.
OnlyAskedRowsChange ==
  [][\A i \in Ids : table[i] # None /\ table'[i] # table[i] =>
       i = last'[2] \/ i \in failed[last'[1]]]_vars

\* As long as a unit holds a pending entity whose row does not exist, no call
\* on it writes anything.
LostRowBlocksItsUnit ==
  [][table' # table =>
       \A i \in Dirty(tracked[last'[1]]) : table[i] # None]_vars

\* The abstract table: what is in state Modified or Added has been handed over.
Atomic == INSTANCE AtomicTable WITH
  changes <- [u \in Units |-> Handed(tracked[u])],
  creations <- added

\* Every call writes all that is pending or nothing, and forgets nothing.
WritesAreAtomic == Atomic!Spec
=============================================================================

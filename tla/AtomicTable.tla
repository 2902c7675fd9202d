---------------------------- MODULE AtomicTable ----------------------------
(***************************************************************************)
(* What a unit of work promises: of everything a caller has handed over,   *)
(* a call writes all to the table, at once, or nothing; and nothing that   *)
(* was handed over is forgotten before it is written or the unit disposed. *)
(***************************************************************************)
EXTENDS Functions

CONSTANTS
  Ids,     \* keys of the table
  Values,  \* contents of a row
  New,     \* new entities
  Content, \* Content[o]: what new entity o holds
  Units,   \* units of work
  None     \* no value

VARIABLES
  table,    \* table[i]: the row with key i, or None
  changes,  \* changes[u][i]: what unit u has been handed for row i, or None
  creations,\* creations[u]: the new entities unit u has been handed
  disposed  \* the units that have been disposed of

Changes == [Ids -> Values \cup {None}]

Nothing == [i \in Ids |-> None]

\* The table when the changes ch are written, and the new entities are
\* inserted where place says.
Written(ch, new, place) ==
  [i \in Ids |-> IF \E o \in new : place[o] = i
                 THEN Content[CHOOSE o \in new : place[o] = i]
                 ELSE IF ch[i] # None THEN ch[i] ELSE table[i]]

Init ==
  /\ table \in Changes
  /\ changes = [u \in Units |-> Nothing]
  /\ creations = [u \in Units |-> {}]
  /\ disposed = {}

Keep(u, ch, new) ==
  /\ changes' = [changes EXCEPT ![u] = ch]
  /\ creations' = [creations EXCEPT ![u] = new]

\* A caller changes its mind about a row that has not been written yet.
Change(u, i, v) ==
  /\ changes[u][i] # None
  /\ Keep(u, [changes[u] EXCEPT ![i] = v], creations[u])
  /\ UNCHANGED <<table, disposed>>

\* A call hands over more: it is kept, or all is written; when the commit is
\* not heard of it is written and kept.
Call(u) ==
  /\ UNCHANGED disposed
  /\ \E ch \in Changes, new \in SUBSET New :
      /\ \A i \in Ids : changes[u][i] # None => ch[i] = changes[u][i]
      /\ creations[u] \subseteq new
      /\ \/ Keep(u, ch, new) /\ UNCHANGED table
         \/ /\ Keep(u, ch, new) \/ Keep(u, Nothing, {})
            /\ \E place \in Injection(new, {i \in Ids : table[i] = None}) :
                 table' = Written(ch, new, place)

\* Only a unit that is disposed of may forget, and a new one takes its place.
Forget(u) ==
  /\ Keep(u, Nothing, {})
  /\ disposed' = disposed \cup {u}
  /\ UNCHANGED table

Renew(u) ==
  /\ disposed' = disposed \ {u}
  /\ UNCHANGED <<table, changes, creations>>

Next == \/ \E u \in Units \ disposed :
             \/ Call(u) \/ Forget(u)
             \/ \E i \in Ids, v \in Values : Change(u, i, v)
        \/ \E u \in disposed : Renew(u)

Spec == Init /\ [][Next]_<<table, changes, creations, disposed>>
=============================================================================

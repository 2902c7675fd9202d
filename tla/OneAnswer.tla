----------------------------- MODULE OneAnswer ------------------------------
(***************************************************************************)
(* What a page that calls jQuery.ajax counts on: a request has at most one *)
(* answer, a result or an error, which never changes; and every handler    *)
(* registered for it is called at most once, with that answer.             *)
(***************************************************************************)
CONSTANTS
  Requests,    \* ajax calls of the page
  Handlers,    \* registrations of callback functions
  None         \* no answer yet, not called yet

VARIABLES
  answer,      \* answer[c]: "ok" or "error" once request c is settled
  told         \* told[h]: the request and the answer h was called with

vars == <<answer, told>>

Answers == {"ok", "error"}

TypeOK == /\ answer \in [Requests -> Answers \cup {None}]
          /\ told \in [Handlers -> (Requests \X Answers) \cup {None}]

Init == /\ answer = [c \in Requests |-> None]
        /\ told = [h \in Handlers |-> None]

Settle(c, a) == /\ answer[c] = None
                /\ answer' = [answer EXCEPT ![c] = a]
                /\ UNCHANGED told

Tell(h, c) == /\ answer[c] # None
              /\ told[h] = None
              /\ told' = [told EXCEPT ![h] = <<c, answer[c]>>]
              /\ UNCHANGED answer

Next == \/ \E c \in Requests, a \in Answers : Settle(c, a)
        \/ \E h \in Handlers, c \in Requests : Tell(h, c)

Spec == Init /\ [][Next]_vars
=============================================================================

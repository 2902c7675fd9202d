---------------------------- MODULE AjaxRequest -----------------------------
(***************************************************************************)
(* jQuery.ajax of jQuery 1.7.1, with the callback lists and deferreds it   *)
(* is built on: what stands between the pages of this repository and the   *)
(* network.  The page of products (module ProductList) calls it, and the   *)
(* page of the grid and the Edit form through the plugins' copy.           *)
(*                                                                         *)
(* JavaScript runs one task at a time, but tasks nest: a handler that is   *)
(* called with an answer may register handlers, abort requests and send    *)
(* new ones, and each of these may call handlers before it returns; a      *)
(* handler may throw through all of them.  stack holds the loops over      *)
(* callback lists that are under way, the innermost last.                  *)
(*                                                                         *)
(* Every list here is one of Callbacks("once memory").  Left out, because  *)
(* no page of the repository uses them: status code maps, handlers of      *)
(* global ajax events (an abort from ajaxSend would run done a second      *)
(* time), a beforeSend that throws (active stays raised for a request that *)
(* is never sent), synchronous requests, progress and pipe, the script     *)
(* transport, and removing a handler.                                      *)
(***************************************************************************)
EXTENDS Integers, Sequences, FiniteSets

CONSTANTS
  Requests,    \* ajax calls of the page: the bound on calls
  Handlers,    \* registrations of callback functions: the bound on them
  Timed,       \* the requests sent with a timeout
  None         \* nothing: no handler running, not registered, not called

ASSUME TimedAssumption == Timed \subseteq Requests

Answers == {"done", "fail"}
Lists == Answers \cup {"complete"}
Slots == Requests \X Lists

ASSUME NoneAssumption == /\ None \notin Handlers
                         /\ None \notin {"ok", "error"}
                         /\ None \notin Slots
                         /\ \A P \in SUBSET Slots : P # None

\* What jqXHR.success/done, error/fail, always and complete register with.
Choices == {{"done"}, {"fail"}, Answers, {"complete"}}

VARIABLES
  state,      \* state[c] of the jqXHR: 0 not sent, 1 open, 2 done
  list,       \* list[s]: registered in list s and not called yet
  fired,      \* the lists that have been fired: their memory is set
  firing,     \* the lists whose firing flag is up
  stack,      \* loops under way
  active,     \* jQuery.active
  place,      \* place[h]: where h was registered, or None
  told,       \* told[h]: the list h was called from, or None (history)
  broken      \* <<c, late>>: a handler threw out of a loop of c (history)

vars == <<state, list, fired, firing, stack, active, place, told, broken>>

\* One loop of fire: slot is the list, late says that add started it and not
\* done, running is the handler that is being called.
Frame == [slot : Slots, late : BOOLEAN, running : Handlers \cup {None}]

Loop(s, late) == [slot |-> s, late |-> late, running |-> None]

Depth == Len(stack)
Top == stack[Depth]
Push(f) == Append(stack, f)
Pop == SubSeq(stack, 1, Depth - 1)
-----------------------------------------------------------------------------
Init ==
  /\ state = [c \in Requests |-> 0]
  /\ list = [s \in Slots |-> <<>>]
  /\ fired = {}
  /\ firing = {}
  /\ stack = <<>>
  /\ active = 0
  /\ place = [h \in Handlers |-> None]
  /\ told = [h \in Handlers |-> None]
  /\ broken = {}

\* A loop is between two handlers; otherwise code of the page runs, inside a
\* handler, or may start to run, as a task of its own.
EngineRuns == stack # <<>> /\ Top.running = None
PageRuns == ~EngineRuns

\* Nothing runs: the event loop may start a task.
Idle == stack = <<>>

\* Where the options success, error and complete put their handlers.
Options == UNION {[L -> Handlers] : L \in SUBSET Lists}

Installable(o) ==
  /\ \A l \in DOMAIN o : place[o[l]] = None
  /\ \A l, m \in DOMAIN o : o[l] = o[m] => l = m

Install(c, o) ==
  /\ Installable(o)
  /\ list' = [s \in Slots |->
       IF s[1] = c /\ s[2] \in DOMAIN o THEN Append(list[s], o[s[2]]) ELSE list[s]]
  /\ place' = [h \in Handlers |->
       IF \E l \in DOMAIN o : o[l] = h
       THEN {<<c, l>> : l \in {m \in DOMAIN o : o[m] = h}} ELSE place[h]]

\* ajax() up to send, which returns.
Send(c, o) ==
  /\ PageRuns
  /\ state[c] = 0
  /\ Install(c, o)
  /\ state' = [state EXCEPT ![c] = 1]
  /\ active' = active + 1
  /\ UNCHANGED <<fired, firing, stack, told, broken>>

\* done() of an open request: resolve or reject starts the loop over its list,
\* and the other one is disabled.
Done(c, a) ==
  /\ state' = [state EXCEPT ![c] = 2]
  /\ fired' = fired \cup {<<c, a>>}
  /\ firing' = firing \cup {<<c, a>>}
  /\ stack' = Push(Loop(<<c, a>>, FALSE))

\* Mutant of Open: done does not ask whether it ran before.
EverSent(c) == state[c] # 0

\* The transport of the request still listens, and done would not return.
Open(c) == state[c] = 1

\* Mutant of SendDone: done gives back a count that was never taken.
SendDoneUncounted(c, o, a) ==
  /\ PageRuns
  /\ state[c] = 0
  /\ Install(c, o)
  /\ Done(c, a)
  /\ UNCHANGED <<active, told, broken>>

\* done runs before ajax returns: transport.send calls back at once with what is
\* in the cache, or throws, or beforeSend returns false (o is then what it
\* registered itself, the options are not installed).
SendDone(c, o, a) ==
  /\ PageRuns
  /\ state[c] = 0
  /\ Install(c, o)
  /\ Done(c, a)
  /\ active' = active + 1
  /\ UNCHANGED <<told, broken>>

\* The transport calls back: the server answered, or the connection broke, or
\* the text it sent does not parse.
Respond(c, a) ==
  /\ Idle
  /\ Open(c)
  /\ Done(c, a)
  /\ UNCHANGED <<list, active, place, told, broken>>

\* Mutant of Expire: done clears the timers of all requests.
ExpireUntilFirstDone(c) ==
  /\ Idle
  /\ c \in Timed
  /\ fired = {}
  /\ Open(c)
  /\ Done(c, "fail")
  /\ UNCHANGED <<list, active, place, told, broken>>

\* The timer of the request: abort("timeout").
Expire(c) ==
  /\ Idle
  /\ c \in Timed
  /\ Open(c)
  /\ Done(c, "fail")
  /\ UNCHANGED <<list, active, place, told, broken>>

\* abort() by the page; of a request that is done it does nothing.
Abort(c) ==
  /\ PageRuns
  /\ Open(c)
  /\ Done(c, "fail")
  /\ UNCHANGED <<list, active, place, told, broken>>
-----------------------------------------------------------------------------
(***************************************************************************)
(* Registering and calling handlers.                                       *)
(***************************************************************************)
\* A settled deferred has disabled its other list for good.
Disabled(s) == s[2] \in Answers /\ \E a \in Answers \ {s[2]} : <<s[1], a>> \in fired

\* The lists among L of request c that take handlers.
Live(c, L) == {s \in {c} \X L : ~Disabled(s)}

\* Mutant of Appended: a list that is being fired keeps its length.
AppendedUnlessFiring(h, S) ==
  [s \in Slots |-> IF s \in S \ firing THEN Append(list[s], h) ELSE list[s]]

\* push: a loop under way finds the handler at the end of its list.
Appended(h, S) == [s \in Slots |-> IF s \in S THEN Append(list[s], h) ELSE list[s]]

\* The lists that have a memory and no loop: add calls the handler at once.
Ripe(S) == (S \cap fired) \ firing

\* done, fail, always or complete of a jqXHR the page holds.
Register(h, c, L) ==
  /\ PageRuns
  /\ state[c] # 0
  /\ place[h] = None
  /\ place' = [place EXCEPT ![h] = {c} \X L]
  /\ LET live == Live(c, L)
     IN /\ list' = Appended(h, live)
        /\ IF Ripe(live) = {}
           THEN UNCHANGED <<firing, stack>>
           ELSE \E s \in Ripe(live) : /\ firing' = firing \cup {s}
                                      /\ stack' = Push(Loop(s, TRUE))
  /\ UNCHANGED <<state, fired, active, told, broken>>

\* Mutant of Through: the length of the list is read when the loop starts.
ThroughTooEarly(s) == TRUE

\* The loop has reached the end of the list.
Through(s) == list[s] = <<>>

\* The loop calls the next handler.
Call ==
  LET s == Top.slot
  IN /\ EngineRuns
     /\ list[s] # <<>>
     /\ stack' = [stack EXCEPT ![Depth].running = Head(list[s])]
     /\ told' = [told EXCEPT ![Head(list[s])] = s]
     /\ list' = [list EXCEPT ![s] = Tail(@)]
     /\ UNCHANGED <<state, fired, firing, active, place, broken>>

\* The handler returns.
Return ==
  /\ stack # <<>>
  /\ Top.running # None
  /\ stack' = [stack EXCEPT ![Depth].running = None]
  /\ UNCHANGED <<state, list, fired, firing, active, place, told, broken>>

\* The handler throws, up to a handler below that catches or, with k = 0, to
\* the event loop: the loops in between end where they are, with their firing
\* flags up, and the rest of done is not run.
Throw(k) ==
  /\ stack # <<>>
  /\ Top.running # None
  /\ stack' = SubSeq(stack, 1, k)
  /\ broken' = broken \cup {<<stack[i].slot[1], stack[i].late>> : i \in k + 1 .. Depth}
  /\ UNCHANGED <<state, list, fired, firing, active, place, told>>

\* The loop is through.  A loop that add started returns to the page; that
\* over done or fail goes on to complete; that over complete ends the request.
EndLate ==
  /\ Top.late
  /\ stack' = Pop
  /\ firing' = firing \ {Top.slot}
  /\ UNCHANGED <<fired, active>>

EndAnswer ==
  LET next == <<Top.slot[1], "complete">>
  IN /\ ~Top.late
     /\ Top.slot[2] \in Answers
     /\ stack' = Append(Pop, Loop(next, FALSE))
     /\ firing' = (firing \ {Top.slot}) \cup {next}
     /\ fired' = fired \cup {next}
     /\ UNCHANGED active

EndRequest ==
  /\ ~Top.late
  /\ Top.slot[2] = "complete"
  /\ stack' = Pop
  /\ firing' = firing \ {Top.slot}
  /\ active' = active - 1
  /\ UNCHANGED fired

EndLoop ==
  /\ EngineRuns
  /\ Through(Top.slot)
  /\ EndLate \/ EndAnswer \/ EndRequest
  /\ UNCHANGED <<state, list, place, told, broken>>
-----------------------------------------------------------------------------
\* The engine goes on, or leaves the handler that is running.
Step == Call \/ EndLoop
Leave == Return \/ \E k \in 0 .. Depth - 1 : Throw(k)

Next ==
  \/ \E c \in Requests, o \in Options : Send(c, o) \/ \E a \in Answers : SendDone(c, o, a)
  \/ \E c \in Requests : Expire(c) \/ Abort(c)
  \/ \E c \in Requests, a \in Answers : Respond(c, a)
  \/ \E h \in Handlers, c \in Requests, L \in Choices : Register(h, c, L)
  \/ Step
  \/ Leave

Spec == Init /\ [][Next]_vars

\* The engine runs, handlers come to an end, and timers go off.  Nothing is
\* assumed of the server or of the page.
Fairness == /\ WF_vars(Step)
            /\ WF_vars(Leave)
            /\ \A c \in Requests : WF_vars(Expire(c))

FairSpec == Spec /\ Fairness
-----------------------------------------------------------------------------
(***************************************************************************)
(* Properties.                                                             *)
(***************************************************************************)
\* Every variable holds values of its type; jQuery.active never falls below
\* zero.
TypeOK ==
  /\ state \in [Requests -> 0 .. 2]
  /\ list \in [Slots -> Seq(Handlers)]
  /\ fired \subseteq Slots
  /\ firing \subseteq fired
  /\ stack \in Seq(Frame)
  /\ active \in Nat
  /\ place \in [Handlers -> (SUBSET Slots) \cup {None}]
  /\ told \in [Handlers -> Slots \cup {None}]
  /\ broken \subseteq Requests \X BOOLEAN

\* jQuery.active counts the requests that are open, those done is at work on,
\* and, for ever, those a handler of which threw out of done: one exception in
\* one handler and ajaxStop is never triggered again.
Finishing(c) == \E i \in 1 .. Depth : stack[i].slot[1] = c /\ ~stack[i].late
Counted == {c \in Requests : state[c] = 1 \/ Finishing(c) \/ <<c, FALSE>> \in broken}
ActiveCounts == active = Cardinality(Counted)

\* Once nothing runs, every handler registered for the answer of a request,
\* before or after that answer, in the course of it or from inside another
\* handler, has been called, unless a handler of that request threw.
Broken(c) == \E late \in BOOLEAN : <<c, late>> \in broken
Concerned(h) == place[h] # None /\ place[h] \cap fired # {}
NobodyIsForgotten ==
  \A h \in Handlers :
    Idle /\ Concerned(h) /\ (\A s \in place[h] : ~Broken(s[1])) => told[h] # None

\* A complete handler is called after every handler of the answer that was
\* registered by then; all that may still wait are handlers that were added
\* after the answer and whose own loop is under way, or was cut by a throw.
LateLoop(s) == \E i \in 1 .. Depth : stack[i].slot = s /\ stack[i].late
CompleteComesLast ==
  [][\A h \in Handlers :
       told[h] = None /\ told'[h] # None /\ told'[h][2] = "complete"
       => \A a \in Answers :
            LET s == <<told'[h][1], a>>
            IN s \in fired => list[s] = <<>> \/ LateLoop(s) \/ Broken(s[1])]_vars

\* Every request with a timeout is answered, whatever the server does and
\* whatever throws.
TimedRequestsSettle == \A c \in Timed : state[c] = 1 ~> state[c] = 2

\* The inductive invariant behind these properties.  Requests: what has been
\* fired, is at work or has broken belongs to a request that is done, with one
\* answer, and complete comes after it.
RequestsInOrder ==
  /\ \A s \in fired : state[s[1]] = 2
  /\ \A b \in broken : state[b[1]] = 2
  /\ \A c \in Requests : ~(<<c, "done">> \in fired /\ <<c, "fail">> \in fired)
  /\ \A c \in Requests : <<c, "complete">> \in fired
                         => <<c, "done">> \in fired \/ <<c, "fail">> \in fired

\* Two loops that done of one request started.
SameDone(f, g) == ~f.late /\ ~g.late /\ f.slot[1] = g.slot[1]

\* Loops: one for a list, one of done for a request; only the innermost may be
\* between two handlers; a firing flag without a loop tells of an exception.
LoopsInOrder ==
  /\ \A i \in 1 .. Depth : stack[i].slot \in firing
  /\ \A i \in 1 .. Depth : i # Depth => stack[i].running # None
  /\ \A i, j \in 1 .. Depth : stack[i].slot = stack[j].slot => i = j
  /\ \A i, j \in 1 .. Depth : SameDone(stack[i], stack[j]) => i = j
  /\ \A i \in 1 .. Depth : ~stack[i].late => <<stack[i].slot[1], FALSE>> \notin broken
  /\ \A i \in 1 .. Depth : ~stack[i].late /\ stack[i].slot[2] \in Answers
                            => <<stack[i].slot[1], "complete">> \notin fired
  /\ \A s \in firing : Broken(s[1]) \/ \E i \in 1 .. Depth : stack[i].slot = s

\* Handlers: one that waits is where it was registered, once, and was not
\* called unless its list is disabled; one that was not called waits wherever
\* it may still be called; and a list that was fired is empty or at work.
PlacedTogether(h) ==
  \/ place[h] = None
  \/ \E c \in Requests : \/ place[h] \subseteq {c} \X Answers
                          \/ place[h] \subseteq {<<c, "complete">>}

HandlersInOrder ==
  /\ \A h \in Handlers : PlacedTogether(h)
  /\ \A s \in Slots : \A i \in 1 .. Len(list[s]) :
       /\ place[list[s][i]] # None
       /\ s \in place[list[s][i]]
       /\ told[list[s][i]] # None => Disabled(s)
  /\ \A s \in Slots : \A i, j \in 1 .. Len(list[s]) : list[s][i] = list[s][j] => i = j
  /\ \A h \in Handlers : told[h] # None => /\ told[h] \in fired
                                           /\ place[h] # None
                                           /\ told[h] \in place[h]
  /\ \A h \in Handlers : place[h] # None /\ told[h] = None =>
       \A s \in place[h] : Disabled(s) \/ \E i \in 1 .. Len(list[s]) : list[s][i] = h
  /\ \A s \in fired : list[s] = <<>> \/ s \in firing

IInv == TypeOK /\ RequestsInOrder /\ LoopsInOrder /\ HandlersInOrder

\* The abstract specification: one answer, and each handler called at most
\* once, with it.
Answer(c) == IF <<c, "done">> \in fired THEN "ok"
             ELSE IF <<c, "fail">> \in fired THEN "error" ELSE None
Heard(h) == IF told[h] = None THEN None
            ELSE <<told[h][1], CASE told[h][2] = "done" -> "ok"
                                 [] told[h][2] = "fail" -> "error"
                                 [] OTHER -> Answer(told[h][1])>>
Abstract == INSTANCE OneAnswer WITH answer <- [c \in Requests |-> Answer(c)],
                                    told <- [h \in Handlers |-> Heard(h)]
Promise == Abstract!Spec
=============================================================================

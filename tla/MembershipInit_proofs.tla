----------------------- MODULE MembershipInit_proofs -----------------------
(***************************************************************************)
(* Proofs about MembershipInit, for any number of application domains and  *)
(* requests.                                                               *)
(***************************************************************************)
EXTENDS MembershipInit, Naturals, TLAPS

THEOREM InitInv == Init => IInv
  BY NoneAssumption DEF Init, IInv, TypeOK, HoldersAreInside, InsideFacts, ReadyIsSeeded,
     AdminHasPassword, At, Idle, Phases, Constructing

LEMMA ArriveInv ==
  ASSUME IInv, NEW r \in Requests, NEW d \in Domains, Arrive(r, d)
  PROVE  IInv'
  <1> USE NoneAssumption DEF IInv, At, Goto, tables, Phases, Constructing, Idle
  <1>1. TypeOK'
    BY DEF Arrive, TypeOK, InsideFacts
  <1>2. HoldersAreInside'
    BY DEF Arrive, TypeOK, HoldersAreInside
  <1>3. InsideFacts'
    BY DEF Arrive, TypeOK, InsideFacts, HoldersAreInside, ReadyIsSeeded
  <1>4. ReadyIsSeeded'
    BY DEF Arrive, TypeOK, ReadyIsSeeded, InsideFacts
  <1>5. AdminHasPassword'
    BY DEF Arrive, TypeOK, AdminHasPassword, InsideFacts
  <1> QED
    BY <1>1, <1>2, <1>3, <1>4, <1>5

LEMMA CheckFirstInv ==
  ASSUME IInv, NEW r \in Requests, CheckFirst(r)
  PROVE  IInv'
  <1> USE NoneAssumption DEF IInv, At, Goto, tables, Phases, Constructing, Idle
  <1>1. TypeOK'
    BY DEF CheckFirst, TypeOK, InsideFacts
  <1>2. HoldersAreInside'
    BY DEF CheckFirst, TypeOK, HoldersAreInside
  <1>3. InsideFacts'
    BY DEF CheckFirst, TypeOK, InsideFacts, HoldersAreInside, ReadyIsSeeded
  <1>4. ReadyIsSeeded'
    BY DEF CheckFirst, TypeOK, ReadyIsSeeded, InsideFacts
  <1>5. AdminHasPassword'
    BY DEF CheckFirst, TypeOK, AdminHasPassword, InsideFacts
  <1> QED
    BY <1>1, <1>2, <1>3, <1>4, <1>5

LEMMA LockInv ==
  ASSUME IInv, NEW r \in Requests, Lock(r)
  PROVE  IInv'
  <1> USE NoneAssumption DEF IInv, At, Goto, tables, Phases, Constructing, Idle
  <1>1. TypeOK'
    BY DEF Lock, TypeOK, InsideFacts
  <1>2. HoldersAreInside'
    BY DEF Lock, TypeOK, HoldersAreInside
  <1>3. InsideFacts'
    BY DEF Lock, TypeOK, InsideFacts, HoldersAreInside, ReadyIsSeeded
  <1>4. ReadyIsSeeded'
    BY DEF Lock, TypeOK, ReadyIsSeeded, InsideFacts
  <1>5. AdminHasPassword'
    BY DEF Lock, TypeOK, AdminHasPassword, InsideFacts
  <1> QED
    BY <1>1, <1>2, <1>3, <1>4, <1>5

LEMMA CheckAgainInv ==
  ASSUME IInv, NEW r \in Requests, CheckAgain(r)
  PROVE  IInv'
  <1> USE NoneAssumption DEF IInv, At, Goto, tables, Phases, Constructing, Idle
  <1>1. TypeOK'
    BY DEF CheckAgain, TypeOK, InsideFacts
  <1>2. HoldersAreInside'
    BY DEF CheckAgain, TypeOK, HoldersAreInside
  <1>3. InsideFacts'
    BY DEF CheckAgain, TypeOK, InsideFacts, HoldersAreInside, ReadyIsSeeded
  <1>4. ReadyIsSeeded'
    BY DEF CheckAgain, TypeOK, ReadyIsSeeded, InsideFacts
  <1>5. AdminHasPassword'
    BY DEF CheckAgain, TypeOK, AdminHasPassword, InsideFacts
  <1> QED
    BY <1>1, <1>2, <1>3, <1>4, <1>5

LEMMA ConnectInv ==
  ASSUME IInv, NEW r \in Requests, Connect(r)
  PROVE  IInv'
  <1> USE NoneAssumption DEF IInv, At, Goto, tables, Phases, Constructing, Idle
  <1>1. TypeOK'
    <2>1. /\ initialized' \in [Domains -> BOOLEAN] /\ lock' \in [Domains -> Requests \cup {None}]
          /\ req' \in [Requests -> [domain : Domains \cup {None}, at : Phases]]
          /\ \A q \in Requests : req'[q].domain = None <=> req'[q].at = "idle"
      BY DEF Connect, Throws, TypeOK
    <2>2. role' \in BOOLEAN /\ profile' \in BOOLEAN /\ password' \in BOOLEAN /\ cut' \in BOOLEAN
      BY DEF Connect, TypeOK
    <2>3. connected' \in [Domains -> BOOLEAN]
      BY DEF Connect, TypeOK
    <2>4. password' => profile'
      BY DEF Connect, TypeOK
    <2> QED
      BY <2>1, <2>2, <2>3, <2>4 DEF TypeOK
  <1>2. HoldersAreInside'
    BY DEF Connect, Throws, TypeOK, HoldersAreInside
  <1>3. InsideFacts'
    BY DEF Connect, Throws, TypeOK, InsideFacts, HoldersAreInside, ReadyIsSeeded
  <1>4. ReadyIsSeeded'
    BY DEF Connect, Throws, TypeOK, ReadyIsSeeded, InsideFacts
  <1>5. AdminHasPassword'
    BY DEF Connect, Throws, TypeOK, AdminHasPassword, InsideFacts
  <1> QED
    BY <1>1, <1>2, <1>3, <1>4, <1>5

LEMMA RoleExistsInv ==
  ASSUME IInv, NEW r \in Requests, RoleExists(r)
  PROVE  IInv'
  <1> USE NoneAssumption DEF IInv, At, Goto, tables, Phases, Constructing, Idle
  <1>1. TypeOK'
    BY DEF RoleExists, TypeOK, InsideFacts
  <1>2. HoldersAreInside'
    BY DEF RoleExists, TypeOK, HoldersAreInside
  <1>3. InsideFacts'
    BY DEF RoleExists, TypeOK, InsideFacts, HoldersAreInside, ReadyIsSeeded
  <1>4. ReadyIsSeeded'
    BY DEF RoleExists, TypeOK, ReadyIsSeeded, InsideFacts
  <1>5. AdminHasPassword'
    BY DEF RoleExists, TypeOK, AdminHasPassword, InsideFacts
  <1> QED
    BY <1>1, <1>2, <1>3, <1>4, <1>5

LEMMA CreateRoleInv ==
  ASSUME IInv, NEW r \in Requests, CreateRole(r)
  PROVE  IInv'
  <1> USE NoneAssumption DEF IInv, At, Goto, tables, Phases, Constructing, Idle
  <1>1. TypeOK'
    <2>1. /\ initialized' \in [Domains -> BOOLEAN] /\ lock' \in [Domains -> Requests \cup {None}]
          /\ req' \in [Requests -> [domain : Domains \cup {None}, at : Phases]]
          /\ \A q \in Requests : req'[q].domain = None <=> req'[q].at = "idle"
      BY DEF CreateRole, Throws, TypeOK
    <2>2. role' \in BOOLEAN /\ profile' \in BOOLEAN /\ password' \in BOOLEAN /\ cut' \in BOOLEAN
      BY DEF CreateRole, TypeOK
    <2>3. connected' \in [Domains -> BOOLEAN]
      BY DEF CreateRole, TypeOK
    <2>4. password' => profile'
      BY DEF CreateRole, TypeOK
    <2> QED
      BY <2>1, <2>2, <2>3, <2>4 DEF TypeOK
  <1>2. HoldersAreInside'
    BY DEF CreateRole, Throws, TypeOK, HoldersAreInside
  <1>3. InsideFacts'
    BY DEF CreateRole, Throws, TypeOK, InsideFacts, HoldersAreInside, ReadyIsSeeded
  <1>4. ReadyIsSeeded'
    BY DEF CreateRole, Throws, TypeOK, ReadyIsSeeded, InsideFacts
  <1>5. AdminHasPassword'
    BY DEF CreateRole, Throws, TypeOK, AdminHasPassword, InsideFacts
  <1> QED
    BY <1>1, <1>2, <1>3, <1>4, <1>5

LEMMA GetUserInv ==
  ASSUME IInv, NEW r \in Requests, GetUser(r)
  PROVE  IInv'
  <1> USE NoneAssumption DEF IInv, At, Goto, tables, Phases, Constructing, Idle
  <1>1. TypeOK'
    BY DEF GetUser, TypeOK, InsideFacts
  <1>2. HoldersAreInside'
    BY DEF GetUser, TypeOK, HoldersAreInside
  <1>3. InsideFacts'
    BY DEF GetUser, TypeOK, InsideFacts, HoldersAreInside, ReadyIsSeeded
  <1>4. ReadyIsSeeded'
    BY DEF GetUser, TypeOK, ReadyIsSeeded, InsideFacts
  <1>5. AdminHasPassword'
    BY DEF GetUser, TypeOK, AdminHasPassword, InsideFacts
  <1> QED
    BY <1>1, <1>2, <1>3, <1>4, <1>5

LEMMA InsertProfileInv ==
  ASSUME IInv, NEW r \in Requests, InsertProfile(r)
  PROVE  IInv'
  <1> USE NoneAssumption DEF IInv, At, Goto, tables, Phases, Constructing, Idle
  <1>1. TypeOK'
    <2>1. /\ initialized' \in [Domains -> BOOLEAN] /\ lock' \in [Domains -> Requests \cup {None}]
          /\ req' \in [Requests -> [domain : Domains \cup {None}, at : Phases]]
          /\ \A q \in Requests : req'[q].domain = None <=> req'[q].at = "idle"
      BY DEF InsertProfile, Throws, TypeOK
    <2>2. role' \in BOOLEAN /\ profile' \in BOOLEAN /\ password' \in BOOLEAN /\ cut' \in BOOLEAN
      BY DEF InsertProfile, TypeOK
    <2>3. connected' \in [Domains -> BOOLEAN]
      BY DEF InsertProfile, TypeOK
    <2>4. password' => profile'
      BY DEF InsertProfile, TypeOK
    <2> QED
      BY <2>1, <2>2, <2>3, <2>4 DEF TypeOK
  <1>2. HoldersAreInside'
    BY DEF InsertProfile, Throws, TypeOK, HoldersAreInside
  <1>3. InsideFacts'
    BY DEF InsertProfile, Throws, TypeOK, InsideFacts, HoldersAreInside, ReadyIsSeeded
  <1>4. ReadyIsSeeded'
    BY DEF InsertProfile, Throws, TypeOK, ReadyIsSeeded, InsideFacts
  <1>5. AdminHasPassword'
    <2>1. CASE profile
      <3>1. UNCHANGED <<profile, password, cut>> /\ Throws(r)
        BY <2>1 DEF InsertProfile
      <3>2. \A q \in Requests : req[q].at = "insertPassword" => req'[q].at = "insertPassword"
        BY <3>1 DEF InsertProfile, Throws, TypeOK
      <3> QED
        BY <3>1, <3>2 DEF AdminHasPassword
    <2>2. CASE ~ profile
      BY <2>2 DEF InsertProfile, TypeOK, AdminHasPassword
    <2> QED
      BY <2>1, <2>2
  <1> QED
    BY <1>1, <1>2, <1>3, <1>4, <1>5

LEMMA InsertPasswordInv ==
  ASSUME IInv, NEW r \in Requests, InsertPassword(r)
  PROVE  IInv'
  <1> USE NoneAssumption DEF IInv, At, Goto, tables, Phases, Constructing, Idle
  <1>1. TypeOK'
    BY DEF InsertPassword, TypeOK, InsideFacts
  <1>2. HoldersAreInside'
    BY DEF InsertPassword, TypeOK, HoldersAreInside
  <1>3. InsideFacts'
    BY DEF InsertPassword, TypeOK, InsideFacts, HoldersAreInside, ReadyIsSeeded
  <1>4. ReadyIsSeeded'
    BY DEF InsertPassword, TypeOK, ReadyIsSeeded, InsideFacts
  <1>5. AdminHasPassword'
    BY DEF InsertPassword, TypeOK, AdminHasPassword, InsideFacts
  <1> QED
    BY <1>1, <1>2, <1>3, <1>4, <1>5

LEMMA FailInv ==
  ASSUME IInv, NEW r \in Requests, Fail(r)
  PROVE  IInv'
  <1> USE NoneAssumption DEF IInv, At, Goto, tables, Phases, Constructing, Idle
  <1>1. TypeOK'
    BY DEF Fail, Throws, TypeOK, InsideFacts
  <1>2. HoldersAreInside'
    BY DEF Fail, Throws, TypeOK, HoldersAreInside
  <1>3. InsideFacts'
    BY DEF Fail, Throws, TypeOK, InsideFacts, HoldersAreInside, ReadyIsSeeded
  <1>4. ReadyIsSeeded'
    BY DEF Fail, Throws, TypeOK, ReadyIsSeeded, InsideFacts
  <1>5. AdminHasPassword'
    BY DEF Fail, Throws, TypeOK, AdminHasPassword, InsideFacts
  <1> QED
    BY <1>1, <1>2, <1>3, <1>4, <1>5

LEMMA FinishInv ==
  ASSUME IInv, NEW r \in Requests, Finish(r)
  PROVE  IInv'
  <1> USE NoneAssumption DEF IInv, At, Goto, tables, Phases, Constructing, Idle
  <1>1. TypeOK'
    BY DEF Finish, TypeOK, InsideFacts
  <1>2. HoldersAreInside'
    BY DEF Finish, TypeOK, HoldersAreInside
  <1>3. InsideFacts'
    BY DEF Finish, TypeOK, InsideFacts, HoldersAreInside, ReadyIsSeeded
  <1>4. ReadyIsSeeded'
    BY DEF Finish, TypeOK, ReadyIsSeeded, InsideFacts
  <1>5. AdminHasPassword'
    BY DEF Finish, TypeOK, AdminHasPassword, InsideFacts
  <1> QED
    BY <1>1, <1>2, <1>3, <1>4, <1>5

LEMMA AnswerInv ==
  ASSUME IInv, NEW r \in Requests, Answer(r)
  PROVE  IInv'
  <1> USE NoneAssumption DEF IInv, At, Goto, tables, Phases, Constructing, Idle
  <1>1. TypeOK'
    BY DEF Answer, TypeOK, InsideFacts
  <1>2. HoldersAreInside'
    BY DEF Answer, TypeOK, HoldersAreInside
  <1>3. InsideFacts'
    BY DEF Answer, TypeOK, InsideFacts, HoldersAreInside, ReadyIsSeeded
  <1>4. ReadyIsSeeded'
    BY DEF Answer, TypeOK, ReadyIsSeeded, InsideFacts
  <1>5. AdminHasPassword'
    BY DEF Answer, TypeOK, AdminHasPassword, InsideFacts
  <1> QED
    BY <1>1, <1>2, <1>3, <1>4, <1>5

LEMMA RecycleInv ==
  ASSUME IInv, NEW d \in Domains, Recycle(d)
  PROVE  IInv'
  <1> USE NoneAssumption DEF IInv, At, Goto, tables, Phases, Constructing, Idle
  <1>1. TypeOK'
    BY DEF Recycle, TypeOK, InsideFacts
  <1>2. HoldersAreInside'
    BY DEF Recycle, TypeOK, HoldersAreInside
  <1>3. InsideFacts'
    BY DEF Recycle, TypeOK, InsideFacts, HoldersAreInside, ReadyIsSeeded
  <1>4. ReadyIsSeeded'
    BY DEF Recycle, TypeOK, ReadyIsSeeded, InsideFacts
  <1>5. AdminHasPassword'
    BY DEF Recycle, TypeOK, AdminHasPassword, InsideFacts
  <1> QED
    BY <1>1, <1>2, <1>3, <1>4, <1>5

\* Every step preserves the invariant.
THEOREM NextInv == IInv /\ [Next]_vars => IInv'
  <1> SUFFICES ASSUME IInv, [Next]_vars PROVE IInv'
    OBVIOUS
  <1>1. ASSUME NEW r \in Requests, Step(r) PROVE IInv'
    BY <1>1, CheckFirstInv, LockInv, CheckAgainInv, ConnectInv, RoleExistsInv, CreateRoleInv,
       GetUserInv, InsertProfileInv, InsertPasswordInv, FinishInv, AnswerInv DEF Step
  <1>2. CASE UNCHANGED vars
    BY <1>2 DEF vars, IInv, TypeOK, HoldersAreInside, InsideFacts, ReadyIsSeeded,
       AdminHasPassword, At
  <1> QED
    BY <1>1, <1>2, FailInv, ArriveInv, RecycleInv DEF Next

THEOREM Invariance == Spec => []IInv
  BY InitInv, NextInv, PTL DEF Spec

\* Types, for every value of the constants.
THEOREM TypeCorrect == Spec => []TypeOK
  <1>1. IInv => TypeOK
    BY DEF IInv
  <1> QED
    BY <1>1, Invariance, PTL

\* The double-checked lock keeps the constructor from running again.
THEOREM Once == Spec => []InitializedOnce
  <1>1. IInv => InitializedOnce
    BY DEF IInv, InsideFacts, InitializedOnce, At, Constructing
  <1> QED
    BY <1>1, Invariance, PTL

\* No action of AccountController runs before the administrator exists.
THEOREM Seeded == Spec => []ReadyIsSeeded
  <1>1. IInv => ReadyIsSeeded
    BY DEF IInv
  <1> QED
    BY <1>1, Invariance, PTL

\* Only a death between two statements costs the administrator the password.
THEOREM PasswordUnlessCut == Spec => []AdminHasPassword
  <1>1. IInv => AdminHasPassword
    BY DEF IInv
  <1> QED
    BY <1>1, Invariance, PTL

\* A broken domain stays broken.
THEOREM StaysBroken == Spec => BrokenTillRecycled
  <1>1. IInv /\ [Next]_vars =>
          [\A d \in Domains : Broken(d) /\ connected'[d] => Broken(d)']_vars
    <2> SUFFICES ASSUME IInv, Next, NEW d \in Domains, Broken(d), connected'[d]
                 PROVE  Broken(d)'
      BY DEF BrokenTillRecycled
    <2> USE NoneAssumption DEF IInv, TypeOK, InsideFacts, ReadyIsSeeded, Broken, At, Goto,
         Phases, Constructing, Idle
    <2>1. ASSUME NEW r \in Requests, Step(r) PROVE Broken(d)'
      <3>1. CASE CheckFirst(r) \/ Lock(r) \/ CheckAgain(r)
        BY <3>1 DEF CheckFirst, Lock, CheckAgain
      <3>2. CASE Connect(r)
        BY <3>2 DEF Connect, Throws
      <3>3. CASE RoleExists(r) \/ CreateRole(r) \/ GetUser(r)
        BY <3>3 DEF RoleExists, CreateRole, GetUser, Throws
      <3>4. CASE InsertProfile(r) \/ InsertPassword(r)
        BY <3>4 DEF InsertProfile, InsertPassword, Throws
      <3>5. CASE Finish(r) \/ Answer(r)
        BY <3>5 DEF Finish, Answer
      <3> QED
        BY <2>1, <3>1, <3>2, <3>3, <3>4, <3>5 DEF Step
    <2>2. ASSUME NEW r \in Requests, Fail(r) PROVE Broken(d)'
      BY <2>2 DEF Fail, Throws
    <2>3. ASSUME NEW r \in Requests, NEW e \in Domains, Arrive(r, e) PROVE Broken(d)'
      BY <2>3 DEF Arrive
    <2>4. ASSUME NEW e \in Domains, Recycle(e) PROVE Broken(d)'
      BY <2>4 DEF Recycle
    <2> QED
      BY <2>1, <2>2, <2>3, <2>4 DEF Next
  <1> QED
    BY <1>1, Invariance, PTL DEF Spec, BrokenTillRecycled
-----------------------------------------------------------------------------
(***************************************************************************)
(* Why every request is answered: what can be proved of it without         *)
(* fairness.  A request goes through its phases in one direction, in the   *)
(* domain it came to, and who waits for the lock of a domain waits for a   *)
(* request of that domain that is past the lock and waits for nobody.      *)
(***************************************************************************)
\* How far a request has come.
Progress == [phase \in Phases |->
  CASE phase = "idle" -> 0
    [] phase = "arrived" -> 1
    [] phase = "waiting" -> 2
    [] phase = "locked" -> 3
    [] phase = "connect" -> 4
    [] phase = "roleExists" -> 5
    [] phase = "createRole" -> 6
    [] phase = "getUser" -> 7
    [] phase = "insertProfile" -> 8
    [] phase = "insertPassword" -> 9
    [] phase = "constructed" -> 10
    [] OTHER -> 11]

\* A request leaves its domain only by its answer or by the end of the domain,
\* and never comes back to a phase: after eleven steps at most it is answered,
\* and none runs a statement of the constructor twice.
RequestsGoForward ==
  [][\A r \in Requests : ~ At(r, "idle") /\ ~ At(r, "idle")' /\ req'[r] # req[r] =>
       /\ req'[r].domain = req[r].domain
       /\ Progress[req'[r].at] > Progress[req[r].at]]_vars

THEOREM NoPhaseTwice == Spec => RequestsGoForward
  <1> DEFINE Forward(r) == /\ req'[r].domain = req[r].domain
                           /\ Progress[req'[r].at] > Progress[req[r].at]
  <1>1. ASSUME IInv, Next, NEW r \in Requests, ~ At(r, "idle"), ~ At(r, "idle")', req'[r] # req[r]
        PROVE  Forward(r)
    <2> USE DEF IInv, TypeOK, At, Goto, Phases, Constructing
    <2>1. ASSUME NEW q \in Requests, Step(q) PROVE Forward(r)
      <3>1. CASE CheckFirst(q) \/ Lock(q) \/ CheckAgain(q)
        BY <1>1, <3>1 DEF CheckFirst, Lock, CheckAgain, Progress
      <3>2. CASE Connect(q)
        BY <1>1, <3>2 DEF Connect, Throws, Progress
      <3>3. CASE RoleExists(q) \/ CreateRole(q) \/ GetUser(q)
        BY <1>1, <3>3 DEF RoleExists, CreateRole, GetUser, Throws, Progress
      <3>4. CASE InsertProfile(q) \/ InsertPassword(q)
        BY <1>1, <3>4 DEF InsertProfile, InsertPassword, Throws, Progress
      <3>5. CASE Finish(q) \/ Answer(q)
        BY <1>1, <3>5 DEF Finish, Answer, Progress, Idle
      <3> QED
        BY <2>1, <3>1, <3>2, <3>3, <3>4, <3>5 DEF Step
    <2>2. ASSUME NEW q \in Requests, Fail(q) PROVE Forward(r)
      BY <1>1, <2>2 DEF Fail, Throws, Progress
    <2>3. ASSUME NEW q \in Requests, NEW d \in Domains, Arrive(q, d) PROVE Forward(r)
      BY <1>1, <2>3 DEF Arrive
    <2>4. ASSUME NEW d \in Domains, Recycle(d) PROVE Forward(r)
      BY <1>1, <2>4 DEF Recycle, Idle
    <2> QED
      BY <1>1, <2>1, <2>2, <2>3, <2>4 DEF Next
  <1>2. IInv /\ [Next]_vars =>
          [\A r \in Requests : ~ At(r, "idle") /\ ~ At(r, "idle")' /\ req'[r] # req[r] =>
             /\ req'[r].domain = req[r].domain
             /\ Progress[req'[r].at] > Progress[req[r].at]]_vars
    BY <1>1
  <1> QED
    BY <1>2, Invariance, PTL DEF Spec, RequestsGoForward

\* The lock of a domain never blocks for good by itself: whoever waits for it
\* finds it free, or held by a request of the same domain that has passed it.
THEOREM LockIsInGoodHands ==
  Spec => [](\A r \in Requests : At(r, "waiting") /\ lock[req[r].domain] # None =>
               \E q \in Requests \ {r} :
                 /\ lock[req[r].domain] = q
                 /\ req[q].domain = req[r].domain
                 /\ req[q].at \in Constructing \cup {"locked"})
  <1>1. IInv => \A r \in Requests : At(r, "waiting") /\ lock[req[r].domain] # None =>
               \E q \in Requests \ {r} :
                 /\ lock[req[r].domain] = q
                 /\ req[q].domain = req[r].domain
                 /\ req[q].at \in Constructing \cup {"locked"}
    BY DEF IInv, TypeOK, HoldersAreInside, At, Constructing
  <1> QED
    BY <1>1, Invariance, PTL
=============================================================================

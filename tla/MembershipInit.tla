--------------------------- MODULE MembershipInit ---------------------------
(***************************************************************************)
(* InitializeSimpleMembershipAttribute: the first request of each          *)
(* application domain that reaches AccountController initialises           *)
(* SimpleMembership, under the lock of LazyInitializer, and creates the    *)
(* role and the user of the administrator where they are missing.          *)
(* Application domains overlap (recycling, web gardens) and share only the *)
(* database; each may end at any moment.                                   *)
(***************************************************************************)
CONSTANTS
  Domains,  \* application domains, each started again after its end
  Requests, \* requests to AccountController, reused when answered
  None      \* no request, no domain

ASSUME NoneAssumption == None \notin Requests /\ None \notin Domains

VARIABLES
  role,        \* the role Admin exists
  profile,     \* the UserProfile of the user admin exists
  password,    \* its webpages_Membership exists
  initialized, \* initialized[d]: _isInitialized
  connected,   \* connected[d]: WebSecurity has been initialised
  lock,        \* lock[d]: who holds _initializerLock, or None
  req,         \* req[r]: the domain request r is in, and what it does next
  cut          \* somebody died between the profile and the password (history)

tables == <<role, profile, password, cut>>
vars == <<role, profile, password, cut, initialized, connected, lock, req>>

\* The statements of the constructor, from the first to the last.
Constructing == {"connect", "roleExists", "createRole", "getUser",
                 "insertProfile", "insertPassword", "constructed"}

Phases == {"idle", "arrived", "waiting", "locked", "error", "action"} \cup Constructing

Idle == [domain |-> None, at |-> "idle"]

At(r, phase) == req[r].at = phase

Goto(r, phase) == req' = [req EXCEPT ![r].at = phase]

Init ==
  /\ role \in BOOLEAN /\ profile \in BOOLEAN
  /\ password \in BOOLEAN /\ (password => profile)
  /\ cut = (profile /\ ~ password)
  /\ initialized = [d \in Domains |-> FALSE]
  /\ connected = [d \in Domains |-> FALSE]
  /\ lock = [d \in Domains |-> None]
  /\ req = [r \in Requests |-> Idle]
-----------------------------------------------------------------------------
(***************************************************************************)
(* OnActionExecuting: EnsureInitialized checks, locks and checks again.    *)
(***************************************************************************)
Arrive(r, d) ==
  /\ At(r, "idle")
  /\ req' = [req EXCEPT ![r] = [domain |-> d, at |-> "arrived"]]
  /\ UNCHANGED <<tables, initialized, connected, lock>>

\* The first check, without the lock: the fast path, or to the lock.
CheckFirst(r) ==
  /\ At(r, "arrived")
  /\ Goto(r, IF initialized[req[r].domain] THEN "action" ELSE "waiting")
  /\ UNCHANGED <<tables, initialized, connected, lock>>

Lock(r) ==
  /\ At(r, "waiting") /\ lock[req[r].domain] = None
  /\ lock' = [lock EXCEPT ![req[r].domain] = r]
  /\ Goto(r, "locked")
  /\ UNCHANGED <<tables, initialized, connected>>

\* Mutant of CheckAgain: the second check is missing.
CheckOnce(r) ==
  /\ At(r, "locked")
  /\ Goto(r, "connect")
  /\ UNCHANGED <<tables, initialized, connected, lock>>

CheckAgain(r) ==
  /\ At(r, "locked")
  /\ Goto(r, IF initialized[req[r].domain] THEN "constructed" ELSE "connect")
  /\ UNCHANGED <<tables, initialized, connected, lock>>
-----------------------------------------------------------------------------
(***************************************************************************)
(* The constructor of SimpleMembershipInitializer.                         *)
(***************************************************************************)
\* Mutant of Throws: the exception is swallowed.
ThrowsNothing(r) ==
  /\ lock' = [lock EXCEPT ![req[r].domain] = None]
  /\ initialized' = [initialized EXCEPT ![req[r].domain] = TRUE]
  /\ Goto(r, "action")

\* Mutant of Throws: the lock is kept.
ThrowsLocked(r) == Goto(r, "error") /\ UNCHANGED <<lock, initialized>>

\* An exception: the lock is released, nothing is initialised.
Throws(r) ==
  /\ lock' = [lock EXCEPT ![req[r].domain] = None]
  /\ Goto(r, "error")
  /\ UNCHANGED initialized

\* Mutant of Connect: it may be called again.
ConnectAgain(r) ==
  /\ At(r, "connect")
  /\ connected' = [connected EXCEPT ![req[r].domain] = TRUE]
  /\ \/ Goto(r, "roleExists") /\ UNCHANGED <<lock, initialized>>
     \/ Throws(r)
  /\ UNCHANGED tables

\* InitializeDatabaseConnection, which may be called only once; it may also
\* throw when it has initialised one of its two providers.
Connect(r) ==
  LET d == req[r].domain
  IN /\ At(r, "connect")
     /\ IF connected[d] THEN Throws(r) /\ UNCHANGED connected
        ELSE /\ connected' = [connected EXCEPT ![d] = TRUE]
             /\ \/ Goto(r, "roleExists") /\ UNCHANGED <<lock, initialized>>
                \/ Throws(r)
     /\ UNCHANGED tables

RoleExists(r) ==
  /\ At(r, "roleExists")
  /\ Goto(r, IF role THEN "getUser" ELSE "createRole")
  /\ UNCHANGED <<tables, initialized, connected, lock>>

\* CreateRole refuses a role that exists.
CreateRole(r) ==
  /\ At(r, "createRole")
  /\ IF role THEN Throws(r) /\ UNCHANGED role
     ELSE role' = TRUE /\ Goto(r, "getUser") /\ UNCHANGED <<initialized, lock>>
  /\ UNCHANGED <<profile, password, cut, connected>>

\* Mutant of GetUser: it looks for the password.
GetAccount(r) ==
  /\ At(r, "getUser")
  /\ Goto(r, IF password THEN "constructed" ELSE "insertPassword")
  /\ UNCHANGED <<tables, initialized, connected, lock>>

\* GetUser only looks for the profile.
GetUser(r) ==
  /\ At(r, "getUser")
  /\ Goto(r, IF profile THEN "constructed" ELSE "insertProfile")
  /\ UNCHANGED <<tables, initialized, connected, lock>>

\* Mutant of InsertProfile: CreateUser instead of CreateUserAndAccount.
InsertProfileOnly(r) ==
  /\ At(r, "insertProfile")
  /\ IF profile THEN Throws(r) /\ UNCHANGED profile
     ELSE profile' = TRUE /\ Goto(r, "constructed") /\ UNCHANGED <<initialized, lock>>
  /\ UNCHANGED <<role, password, cut, connected>>

\* The two statements of CreateUserAndAccount; the first refuses a name that
\* exists.
InsertProfile(r) ==
  /\ At(r, "insertProfile")
  /\ IF profile THEN Throws(r) /\ UNCHANGED profile
     ELSE profile' = TRUE /\ Goto(r, "insertPassword") /\ UNCHANGED <<initialized, lock>>
  /\ UNCHANGED <<role, password, cut, connected>>

InsertPassword(r) ==
  /\ At(r, "insertPassword")
  /\ password' = TRUE
  /\ Goto(r, "constructed")
  /\ UNCHANGED <<role, profile, cut, initialized, connected, lock>>

\* A statement fails, or Exists of the context does.
Fail(r) ==
  /\ req[r].at \in Constructing \ {"constructed"}
  /\ Throws(r)
  /\ cut' = (cut \/ At(r, "insertPassword"))
  /\ UNCHANGED <<role, profile, password, connected>>

\* The flag is set, the lock released, and the action runs.
Finish(r) ==
  /\ At(r, "constructed")
  /\ initialized' = [initialized EXCEPT ![req[r].domain] = TRUE]
  /\ lock' = [lock EXCEPT ![req[r].domain] = None]
  /\ Goto(r, "action")
  /\ UNCHANGED <<tables, connected>>

Answer(r) ==
  /\ req[r].at \in {"action", "error"}
  /\ req' = [req EXCEPT ![r] = Idle]
  /\ UNCHANGED <<tables, initialized, connected, lock>>

\* The end of an application domain: the next start begins anew.
Recycle(d) ==
  /\ initialized' = [initialized EXCEPT ![d] = FALSE]
  /\ connected' = [connected EXCEPT ![d] = FALSE]
  /\ lock' = [lock EXCEPT ![d] = None]
  /\ req' = [r \in Requests |-> IF req[r].domain = d THEN Idle ELSE req[r]]
  /\ cut' = (cut \/ \E r \in Requests : req[r].domain = d /\ At(r, "insertPassword"))
  /\ UNCHANGED <<role, profile, password>>

\* What a request does by itself.
Step(r) ==
  \/ CheckFirst(r) \/ Lock(r) \/ CheckAgain(r)
  \/ Connect(r) \/ RoleExists(r) \/ CreateRole(r) \/ GetUser(r)
  \/ InsertProfile(r) \/ InsertPassword(r)
  \/ Finish(r) \/ Answer(r)

Next ==
  \/ \E r \in Requests : Step(r) \/ Fail(r) \/ \E d \in Domains : Arrive(r, d)
  \/ \E d \in Domains : Recycle(d)

Spec == Init /\ [][Next]_vars

\* Threads go on, and the lock is granted in the order of asking.
FairSpec == Spec /\ \A r \in Requests : SF_vars(Step(r))
-----------------------------------------------------------------------------
(***************************************************************************)
(* Properties.                                                             *)
(***************************************************************************)
\* Types; a password belongs to a profile, a request to a domain.
TypeOK ==
  /\ role \in BOOLEAN /\ profile \in BOOLEAN /\ password \in BOOLEAN /\ cut \in BOOLEAN
  /\ initialized \in [Domains -> BOOLEAN]
  /\ connected \in [Domains -> BOOLEAN]
  /\ lock \in [Domains -> Requests \cup {None}]
  /\ req \in [Requests -> [domain : Domains \cup {None}, at : Phases]]
  /\ \A r \in Requests : req[r].domain = None <=> At(r, "idle")
  /\ password => profile

\* Who is inside the constructor or about to enter it holds the lock of its
\* domain, and the lock is held by nobody else.
HoldersAreInside ==
  \A r \in Requests, d \in Domains :
    lock[d] = r <=> req[r].domain = d /\ req[r].at \in Constructing \cup {"locked"}

\* What a request inside the constructor relies on.
InsideFacts ==
  \A r \in Requests :
    /\ req[r].at \in Constructing \ {"connect", "constructed"} =>
         connected[req[r].domain] /\ ~ initialized[req[r].domain]
    /\ At(r, "connect") => ~ initialized[req[r].domain]
    /\ req[r].at \in {"getUser", "insertProfile", "insertPassword", "constructed"} => role
    /\ req[r].at \in {"insertPassword", "constructed"} => profile
    /\ At(r, "insertPassword") =>
         ~ password /\ \A other \in Requests : At(other, "insertPassword") => other = r
    /\ At(r, "constructed") => connected[req[r].domain]

\* Membership is initialised only once per start of the application: as soon
\* as it is, no request of that domain is between the statements of the
\* constructor, even if it had come to the lock before.
InitializedOnce ==
  \A d \in Domains, r \in Requests :
    initialized[d] /\ req[r].domain = d => req[r].at \notin Constructing \ {"constructed"}

\* The actions of AccountController only run when the role and the user of the
\* administrator exist, whichever domain created them, or failed to.
ReadyIsSeeded ==
  \A d \in Domains : initialized[d] => connected[d] /\ role /\ profile

\* An administrator without a password is being created, or was being created
\* by somebody who died between the two statements.
AdminHasPassword ==
  profile /\ ~ password => cut \/ \E r \in Requests : At(r, "insertPassword")

\* The inductive invariant.
IInv == TypeOK /\ HoldersAreInside /\ InsideFacts /\ ReadyIsSeeded /\ AdminHasPassword

\* A constructor has connected and thrown: no request is past Connect.
Broken(d) ==
  /\ connected[d] /\ ~ initialized[d]
  /\ \A r \in Requests : req[r].domain = d => req[r].at \notin Constructing \ {"connect"}

\* A domain whose constructor has thrown once it had connected is never
\* initialised, whatever its requests try: only its end mends it.
BrokenTillRecycled ==
  [][\A d \in Domains : Broken(d) /\ connected'[d] => Broken(d)']_vars

\* Every request is answered, however long the initialisation keeps failing.
EveryRequestIsAnswered ==
  \A r \in Requests : ~ At(r, "idle") ~> At(r, "idle")
=============================================================================

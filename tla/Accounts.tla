------------------------------ MODULE Accounts ------------------------------
(***************************************************************************)
(* User accounts: the requests of AccountController over the three tables  *)
(* of SimpleMembership (UserProfile, webpages_Membership and               *)
(* webpages_OAuthMembership) and the browsers' name-based cookies.         *)
(*                                                                         *)
(* A request runs one database statement per step, each committed by       *)
(* itself, and requests interleave at every step.  Only Disassociate opens *)
(* a transaction: its reads keep their locks until it commits.  Passwords, *)
(* model validation and pages without effects are left out.                *)
(***************************************************************************)
EXTENDS Naturals

CONSTANTS
  Users,     \* user names
  Logins,    \* accounts at the external provider: (provider, providerUserId)
  Browsers,  \* browsers, each with one authentication cookie
  Requests,  \* request slots: the bound on requests under way at once
  None       \* no user, no request

VARIABLES
  profiles,  \* UserProfile: the names taken
  local,     \* webpages_Membership: the users with a password
  owner,     \* webpages_OAuthMembership: the user of each login, or None
  cookie,    \* the user each browser is signed in as, or None
  confirming,\* <<browser, login>>: the ExternalLoginConfirmation pages opened
  req,       \* the request in each slot, or None
  hurt       \* users an accident may have cost their credentials (history)

vars == <<profiles, local, owner, cookie, confirming, req, hurt>>

Operations == {"Register", "Callback", "Confirmation", "Disassociate", "SetPassword"}
Phases == {"newProfile", "newAccount", "signIn", "lookup", "linkLookup", "link",
           "signInExternal", "ownerCheck", "begin", "delete", "hasLocal"}

\* user is User.Identity.Name, or the name to register; found is what the last
\* lookup of the request found.
Request == [op : Operations, phase : Phases, browser : Browsers,
            user : Users \cup {None}, login : Logins \cup {None}, found : BOOLEAN]

ASSUME NoneAssumption == None \notin Users /\ None \notin Logins /\ None \notin Request
-----------------------------------------------------------------------------
Init ==
  /\ profiles = {} /\ local = {}
  /\ owner = [l \in Logins |-> None]
  /\ cookie = [b \in Browsers |-> None]
  /\ confirming = {}
  /\ req = [k \in Requests |-> None]
  /\ hurt = {}

\* A way to sign in as u.
Credentialed(u) == u \in local \/ \E l \in Logins : owner[l] = u

\* Mutant of SeveralLogins: Count > 0.
AnyLogin(u) == \E l \in Logins : owner[l] = u

\* GetAccountsFromUserName(u).Count > 1
SeveralLogins(u) == \E l, m \in Logins : l # m /\ owner[l] = u /\ owner[m] = u

In(k, phase) == req[k] # None /\ req[k].phase = phase

Goto(k, phase) == req' = [req EXCEPT ![k].phase = phase]

Found(k, phase, found) == req' = [req EXCEPT ![k].phase = phase, ![k].found = found]

End(k) == req' = [req EXCEPT ![k] = None]

\* k has inserted a UserProfile row and not yet a credential for it.
Registering(k) == /\ req[k] # None
                  /\ req[k].op \in {"Register", "Confirmation"}
                  /\ req[k].phase \in {"newAccount", "linkLookup", "link"}
-----------------------------------------------------------------------------
(***************************************************************************)
(* The browser sends a request.                                            *)
(***************************************************************************)
Send(k, op, phase, b, u, l) ==
  /\ req[k] = None
  /\ req' = [req EXCEPT ![k] = [op |-> op, phase |-> phase, browser |-> b,
                                user |-> u, login |-> l, found |-> FALSE]]
  /\ UNCHANGED <<profiles, local, owner, cookie, confirming, hurt>>

\* POST Register
PostRegister(k, b, u) == Send(k, "Register", "newProfile", b, u, None)

\* GET ExternalLoginCallback after the provider has vouched for login l.
GetCallback(k, b, l) == Send(k, "Callback", "lookup", b, cookie[b], l)

\* POST ExternalLoginConfirmation from a page that asks for a name; a browser
\* that has signed in meanwhile is sent away.
PostConfirmation(k, b, l, u) ==
  /\ <<b, l>> \in confirming
  /\ cookie[b] = None
  /\ Send(k, "Confirmation", "newProfile", b, u, l)

\* POST Disassociate
PostDisassociate(k, b, l) ==
  /\ cookie[b] # None
  /\ Send(k, "Disassociate", "ownerCheck", b, cookie[b], l)

\* POST Manage.  For a user with a password it changes the password, which
\* touches none of the state here.
PostSetPassword(k, b) ==
  /\ cookie[b] # None
  /\ Send(k, "SetPassword", "hasLocal", b, cookie[b], None)

\* POST Login
Login(b, u) ==
  /\ u \in local
  /\ cookie' = [cookie EXCEPT ![b] = u]
  /\ UNCHANGED <<profiles, local, owner, confirming, req, hurt>>

\* POST LogOff
LogOff(b) ==
  /\ cookie[b] # None
  /\ cookie' = [cookie EXCEPT ![b] = None]
  /\ UNCHANGED <<profiles, local, owner, confirming, req, hurt>>
-----------------------------------------------------------------------------
(***************************************************************************)
(* The locks of the transaction of Disassociate, held by a request between *)
(* its reads and its delete (phase "delete").  A user without a password   *)
(* makes it scan webpages_OAuthMembership, which locks the whole table.    *)
(***************************************************************************)
\* Mutant of LoginsFree: the transaction runs at READ COMMITTED.
LoginsAlwaysFree(k) == TRUE

\* No transaction of another request keeps k from writing webpages_OAuthMembership.
LoginsFree(k) == \A j \in Requests \ {k} : In(j, "delete") => req[j].found

\* ... from inserting user u into webpages_Membership.
LocalFree(k, u) == \A j \in Requests \ {k} : In(j, "delete") => req[j].user # u
-----------------------------------------------------------------------------
(***************************************************************************)
(* The steps of a request.                                                 *)
(***************************************************************************)
\* Mutants of InsertProfile: SaveChanges is forgotten; a name that is taken is
\* not refused.
InsertNoProfile(k) ==
  /\ In(k, "newProfile")
  /\ IF req[k].user \in profiles THEN End(k)
     ELSE Goto(k, IF req[k].op = "Register" THEN "newAccount" ELSE "linkLookup")
  /\ UNCHANGED <<profiles, local, owner, cookie, confirming, hurt>>
InsertAnyProfile(k) ==
  /\ In(k, "newProfile")
  /\ profiles' = profiles \cup {req[k].user}
  /\ Goto(k, IF req[k].op = "Register" THEN "newAccount" ELSE "linkLookup")
  /\ UNCHANGED <<local, owner, cookie, confirming, hurt>>

\* Register and ExternalLoginConfirmation insert the name, unless it is taken;
\* the UNIQUE column settles a race between their checks.
InsertProfile(k) ==
  /\ In(k, "newProfile")
  /\ IF req[k].user \in profiles
     THEN End(k) /\ UNCHANGED profiles
     ELSE /\ profiles' = profiles \cup {req[k].user}
          /\ Goto(k, IF req[k].op = "Register" THEN "newAccount" ELSE "linkLookup")
  /\ UNCHANGED <<local, owner, cookie, confirming, hurt>>

\* CreateAccount for a new user (Register) or for a user without a password
\* (Manage); it fails for a user who has one by now.
InsertAccount(k) ==
  /\ In(k, "newAccount")
  /\ LocalFree(k, req[k].user)
  /\ local' = local \cup {req[k].user}
  /\ IF req[k].op = "Register" /\ req[k].user \notin local
     THEN Goto(k, "signIn") ELSE End(k)
  /\ UNCHANGED <<profiles, owner, cookie, confirming, hurt>>

\* Register signs the new user in.
SignIn(k) ==
  /\ In(k, "signIn")
  /\ req[k].user \in local
  /\ cookie' = [cookie EXCEPT ![req[k].browser] = req[k].user]
  /\ End(k)
  /\ UNCHANGED <<profiles, local, owner, confirming, hurt>>

\* ExternalLoginCallback: a known login signs its user in, an unknown one is
\* linked to the user signed in, or gets a page that asks for a name.
Callback(k) ==
  /\ In(k, "lookup")
  /\ \/ /\ owner[req[k].login] # None
        /\ cookie' = [cookie EXCEPT ![req[k].browser] = owner[req[k].login]]
        /\ End(k)
        /\ UNCHANGED confirming
     \/ /\ owner[req[k].login] = None
        /\ req[k].user # None
        /\ Goto(k, "linkLookup")
        /\ UNCHANGED <<cookie, confirming>>
     \/ /\ owner[req[k].login] = None
        /\ req[k].user = None
        /\ confirming' = confirming \cup {<<req[k].browser, req[k].login>>}
        /\ End(k)
        /\ UNCHANGED cookie
  /\ UNCHANGED <<profiles, local, owner, hurt>>

\* CreateOrUpdateAccount looks whether the login has a user ...
LinkLookup(k) ==
  /\ In(k, "linkLookup")
  /\ Found(k, "link", owner[req[k].login] # None)
  /\ UNCHANGED <<profiles, local, owner, cookie, confirming, hurt>>

\* ... and inserts or updates the row, which moves the login to the new user;
\* it throws if the row has come or gone in between.
Link(k) ==
  LET l == req[k].login
      u == req[k].user
  IN /\ In(k, "link")
     /\ LoginsFree(k)
     /\ IF req[k].found <=> owner[l] # None
        THEN /\ owner' = [owner EXCEPT ![l] = u]
             /\ hurt' = IF owner[l] \in {None, u} THEN hurt ELSE hurt \cup {owner[l]}
             /\ IF req[k].op = "Confirmation" THEN Goto(k, "signInExternal") ELSE End(k)
        ELSE /\ hurt' = IF req[k].op = "Confirmation" THEN hurt \cup {u} ELSE hurt
             /\ End(k)
             /\ UNCHANGED owner
     /\ UNCHANGED <<profiles, local, cookie, confirming>>

\* ExternalLoginConfirmation signs in the user the login has now.
SignInExternal(k) ==
  /\ In(k, "signInExternal")
  /\ cookie' = IF owner[req[k].login] = None THEN cookie
               ELSE [cookie EXCEPT ![req[k].browser] = owner[req[k].login]]
  /\ End(k)
  /\ UNCHANGED <<profiles, local, owner, confirming, hurt>>

\* Disassociate: is the user the owner?  Asked before the transaction.
OwnerCheck(k) ==
  /\ In(k, "ownerCheck")
  /\ IF owner[req[k].login] = req[k].user THEN Goto(k, "begin") ELSE End(k)
  /\ UNCHANGED <<profiles, local, owner, cookie, confirming, hurt>>

\* The reads of the transaction; found says that the user has a password, so
\* that the logins are not counted.
Begin(k) ==
  /\ In(k, "begin")
  /\ IF req[k].user \in local \/ SeveralLogins(req[k].user)
     THEN Found(k, "delete", req[k].user \in local)
     ELSE End(k)
  /\ UNCHANGED <<profiles, local, owner, cookie, confirming, hurt>>

\* Mutant of Delete: it runs on a connection outside the transaction, and waits
\* for the locks of its own request too.
DeleteOutside(k) ==
  /\ In(k, "delete")
  /\ \A j \in Requests : In(j, "delete") => req[j].found
  /\ owner' = [owner EXCEPT ![req[k].login] = None]
  /\ End(k)
  /\ UNCHANGED <<profiles, local, cookie, confirming, hurt>>

\* DeleteAccount and the commit.
Delete(k) ==
  LET l == req[k].login
  IN /\ In(k, "delete")
     /\ LoginsFree(k)
     /\ owner' = [owner EXCEPT ![l] = None]
     /\ hurt' = IF owner[l] \in {None, req[k].user} THEN hurt ELSE hurt \cup {owner[l]}
     /\ End(k)
     /\ UNCHANGED <<profiles, local, cookie, confirming>>

\* Manage asks whether the user has a password.
HasLocal(k) ==
  /\ In(k, "hasLocal")
  /\ IF req[k].user \in local THEN End(k) ELSE Goto(k, "newAccount")
  /\ UNCHANGED <<profiles, local, owner, cookie, confirming, hurt>>

\* The request dies: a database error, or the end of the worker process.
Fail(k) ==
  /\ req[k] # None
  /\ hurt' = IF Registering(k) THEN hurt \cup {req[k].user} ELSE hurt
  /\ End(k)
  /\ UNCHANGED <<profiles, local, owner, cookie, confirming>>

\* Two transactions that have both scanned the logins wait for each other:
\* SQL Server rolls one of them back.
DeadlockVictim(k) ==
  /\ In(k, "delete") /\ ~req[k].found
  /\ ~LoginsFree(k)
  /\ End(k)
  /\ UNCHANGED <<profiles, local, owner, cookie, confirming, hurt>>

Work(k) == \/ InsertProfile(k) \/ InsertAccount(k) \/ SignIn(k)
           \/ Callback(k) \/ LinkLookup(k) \/ Link(k) \/ SignInExternal(k)
           \/ OwnerCheck(k) \/ Begin(k) \/ Delete(k) \/ HasLocal(k)

Next ==
  \/ \E k \in Requests : Work(k) \/ DeadlockVictim(k) \/ Fail(k)
  \/ \E k \in Requests, b \in Browsers, u \in Users : PostRegister(k, b, u)
  \/ \E k \in Requests, b \in Browsers, l \in Logins :
       \/ GetCallback(k, b, l)
       \/ PostDisassociate(k, b, l)
       \/ \E u \in Users : PostConfirmation(k, b, l, u)
  \/ \E k \in Requests, b \in Browsers : PostSetPassword(k, b)
  \/ \E b \in Browsers : LogOff(b) \/ \E u \in Users : Login(b, u)

Spec == Init /\ [][Next]_vars

\* A request thread runs on; the database serves a queue of lock requests in
\* order, hence strong fairness, and detects deadlocks.  Nothing is assumed
\* of failures and of the users.
Fairness == \A k \in Requests : SF_vars(Work(k)) /\ WF_vars(DeadlockVictim(k))

FairSpec == Spec /\ Fairness
-----------------------------------------------------------------------------
(***************************************************************************)
(* Properties.                                                             *)
(***************************************************************************)
\* The tables and the cookies hold values of their types, and refer to users
\* whose profile exists.
TypeOK ==
  /\ profiles \subseteq Users /\ local \subseteq profiles
  /\ owner \in [Logins -> profiles \cup {None}]
  /\ cookie \in [Browsers -> profiles \cup {None}]
  /\ confirming \subseteq Browsers \X Logins
  /\ req \in [Requests -> Request \cup {None}]
  /\ hurt \subseteq Users

\* A registration never adopts a user who exists: as long as a new profile has
\* no credential of its own, nobody has one for it or is signed in as it.
RegistrationNeverAdopts ==
  \A k \in Requests : Registering(k) =>
    /\ ~Credentialed(req[k].user)
    /\ \A b \in Browsers : cookie[b] # req[k].user

\* However requests interleave, a user without any way to sign in is one whose
\* registration is under way, or the victim of an accident: a registration
\* that died, a login that was moved to another user, or a removal by a
\* request that had checked its owner too early.
StrandedOnlyByAccident ==
  \A u \in profiles :
    \/ Credentialed(u)
    \/ u \in hurt
    \/ \E k \in Requests : Registering(k) /\ req[k].user = u

\* The inductive invariant behind these.  The further parts: which operation
\* is in which phase and for whom, that a name under registration is used by
\* no other request but one that will find it taken, and that what a
\* transaction has read stays true until it deletes.
RequestsFit ==
  \A k \in Requests : req[k] # None =>
    /\ req[k].phase = "newProfile" => req[k].op \in {"Register", "Confirmation"}
    /\ req[k].phase = "newAccount" => req[k].op \in {"Register", "SetPassword"}
    /\ req[k].phase \in {"linkLookup", "link"} => req[k].op \in {"Callback", "Confirmation"}
    /\ req[k].phase = "signInExternal" => req[k].op = "Confirmation"
    /\ req[k].phase = "signIn" => req[k].op = "Register"
    /\ req[k].phase = "lookup" => req[k].op = "Callback"
    /\ req[k].phase \in {"ownerCheck", "begin", "delete"} => req[k].op = "Disassociate"
    /\ req[k].phase = "hasLocal" => req[k].op = "SetPassword"
    /\ req[k].op \in {"Callback", "Confirmation", "Disassociate"} => req[k].login \in Logins
    /\ req[k].phase = "newProfile" => req[k].user \in Users
    /\ req[k].phase = "lookup" => req[k].user \in profiles \cup {None}
    /\ req[k].phase \notin {"newProfile", "lookup"} => req[k].user \in profiles

NamesUsedOnce ==
  \A j, k \in Requests :
    ( /\ j # k /\ Registering(k)
      /\ req[j] # None /\ req[j].user = req[k].user )
    => req[j].phase = "newProfile"

ReadsStand ==
  \A k \in Requests : In(k, "delete") =>
    IF req[k].found THEN req[k].user \in local ELSE SeveralLogins(req[k].user)

IInv == /\ TypeOK
        /\ RequestsFit
        /\ NamesUsedOnce
        /\ RegistrationNeverAdopts
        /\ ReadsStand
        /\ StrandedOnlyByAccident

\* AccountController.cs:115: the transaction keeps a user, in however many
\* tabs, from deleting the last credential.
OwnRemovalKeepsCredential ==
  [][\A k \in Requests, l \in Logins, u \in Users :
       ( /\ In(k, "delete") /\ req[k].user = u /\ req'[k] = None
         /\ owner[l] = u /\ owner'[l] = None )
       => Credentialed(u)']_vars

\* AccountController.cs:112: a login is removed only by the request of the
\* user who owns it.
OnlyOwnerDisassociates ==
  [][\A l \in Logins : owner[l] # None /\ owner'[l] = None =>
       \E k \in Requests : /\ In(k, "delete") /\ req'[k] = None
                           /\ req[k].user = owner[l]]_vars

\* Every request comes to an end, also when transactions wait for each other.
EveryRequestEnds == \A k \in Requests : req[k] # None ~> req[k] = None
=============================================================================

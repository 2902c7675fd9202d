-------------------------- MODULE Accounts_proofs --------------------------
(***************************************************************************)
(* Proofs about Accounts, for any number of users, external logins,        *)
(* browsers and requests under way.                                        *)
(***************************************************************************)
EXTENDS Accounts, TLAPS

\* What one step does to the request table.
Others(k) == \A j \in Requests \ {k} : req'[j] = req[j]

Moved(k, phase) ==
  /\ req'[k] # None
  /\ req'[k].phase = phase
  /\ req'[k].op = req[k].op /\ req'[k].user = req[k].user
  /\ req'[k].login = req[k].login

ReqType == req \in [Requests -> Request \cup {None}]

\* Moving a request to a phase changes nothing else of it.
LEMMA GotoEffect ==
  ASSUME NEW k \in Requests, NEW phase \in Phases, ReqType, req[k] # None, Goto(k, phase)
  PROVE  ReqType' /\ Others(k) /\ Moved(k, phase) /\ req'[k].found = req[k].found
  <1>1. req'[k] = [req[k] EXCEPT !.phase = phase]
    BY DEF Goto, ReqType
  <1>2. req[k] \in Request
    BY DEF ReqType
  <1>3. req'[k] \in Request
    BY <1>1, <1>2 DEF Request
  <1>4. Others(k) /\ ReqType'
    BY <1>3 DEF Goto, ReqType, Others
  <1> QED
    BY <1>1, <1>2, <1>3, <1>4, NoneAssumption DEF Moved, Request

\* ... and noting what a lookup found, only that.
LEMMA FoundEffect ==
  ASSUME NEW k \in Requests, NEW phase \in Phases, NEW found \in BOOLEAN,
         ReqType, req[k] # None, Found(k, phase, found)
  PROVE  ReqType' /\ Others(k) /\ Moved(k, phase) /\ req'[k].found = found
  <1>1. req'[k] = [req[k] EXCEPT !.phase = phase, !.found = found]
    BY DEF Found, ReqType
  <1>2. req[k] \in Request
    BY DEF ReqType
  <1>3. req'[k] \in Request
    BY <1>1, <1>2 DEF Request
  <1>4. Others(k) /\ ReqType'
    BY <1>3 DEF Found, ReqType, Others
  <1> QED
    BY <1>1, <1>2, <1>3, <1>4, NoneAssumption DEF Moved, Request

LEMMA EndEffect ==
  ASSUME NEW k \in Requests, ReqType, End(k)
  PROVE  ReqType' /\ Others(k) /\ req'[k] = None
  BY DEF End, ReqType, Others

\* Sending fills an empty slot.
LEMMA SendEffect ==
  ASSUME NEW k \in Requests, NEW op \in Operations, NEW phase \in Phases,
         NEW b \in Browsers, NEW u \in Users \cup {None}, NEW l \in Logins \cup {None},
         ReqType, Send(k, op, phase, b, u, l)
  PROVE  /\ ReqType' /\ Others(k) /\ req[k] = None /\ req'[k] # None
         /\ req'[k].op = op /\ req'[k].phase = phase
         /\ req'[k].user = u /\ req'[k].login = l
         /\ UNCHANGED <<profiles, local, owner, cookie, confirming, hurt>>
  <1>1. req'[k] = [op |-> op, phase |-> phase, browser |-> b,
                   user |-> u, login |-> l, found |-> FALSE]
    BY DEF Send, ReqType
  <1>2. req'[k] \in Request
    BY <1>1 DEF Request
  <1> QED
    BY <1>1, <1>2, NoneAssumption DEF Send, ReqType, Others
-----------------------------------------------------------------------------
(***************************************************************************)
(* A step that leaves the credentials alone keeps the invariant if it      *)
(* keeps the types, fits its request into the scheme, and neither uses a   *)
(* name that is being registered nor signs a browser in as it.             *)
(***************************************************************************)
LEMMA QuietStep ==
  ASSUME IInv, NEW k \in Requests, Others(k), TypeOK', RequestsFit',
         UNCHANGED <<profiles, local, owner, hurt>>,
         Registering(k)' <=> Registering(k),
         Registering(k) => req'[k].user = req[k].user,
         In(k, "delete")' => /\ req'[k].user = req[k].user
                             /\ IF req'[k].found THEN req[k].user \in local
                                ELSE SeveralLogins(req[k].user),
         \A j \in Requests \ {k} :
           Registering(j) =>
             /\ req'[k] # None /\ req'[k].user = req[j].user => req'[k].phase = "newProfile"
             /\ \A b \in Browsers : cookie'[b] # req[j].user,
         Registering(k) => cookie' = cookie
  PROVE  IInv'
  <1> USE DEF IInv
  <1>1. \A j \in Requests : Registering(j)' => Registering(j) /\ req'[j].user = req[j].user
    BY DEF Others, Registering
  <1>2. \A u : Credentialed(u)' <=> Credentialed(u)
    BY DEF Credentialed
  <1>3. NamesUsedOnce'
    BY <1>1 DEF NamesUsedOnce, Others, Registering
  <1>4. RegistrationNeverAdopts'
    BY <1>1, <1>2 DEF RegistrationNeverAdopts
  <1>5. ReadsStand'
    BY DEF ReadsStand, Others, In, SeveralLogins
  <1>6. StrandedOnlyByAccident'
    BY <1>1, <1>2 DEF StrandedOnlyByAccident, Registering, Others
  <1> QED
    BY <1>3, <1>4, <1>5, <1>6

\* A user who has a credential, or a request beyond "newProfile", is not one
\* under registration by another request.
LEMMA InUse ==
  ASSUME IInv, NEW j \in Requests, Registering(j)
  PROVE  /\ req[j].user \notin local
         /\ \A l \in Logins : owner[l] # req[j].user
         /\ \A b \in Browsers : cookie[b] # req[j].user
         /\ \A k \in Requests \ {j} :
              req[k] # None /\ req[k].phase # "newProfile" => req[k].user # req[j].user
         /\ req[j].user \in profiles
  <1>1. req[j].phase \notin {"newProfile", "lookup"} /\ req[j] # None
    BY DEF Registering
  <1> QED
    BY <1>1 DEF IInv, RegistrationNeverAdopts, Credentialed, NamesUsedOnce, RequestsFit

\* The browser's requests.
LEMMA SendInv ==
  ASSUME IInv, NEW k \in Requests, NEW b \in Browsers,
         \/ \E u \in Users : PostRegister(k, b, u)
         \/ \E l \in Logins : \/ GetCallback(k, b, l)
                             \/ PostDisassociate(k, b, l)
                             \/ \E u \in Users : PostConfirmation(k, b, l, u)
         \/ PostSetPassword(k, b)
  PROVE  IInv'
  <1> USE DEF IInv
  <1>0. cookie[b] \in profiles \cup {None} /\ profiles \subseteq Users
    BY DEF TypeOK
  <1> DEFINE Sent(op, phase, v, m) ==
       /\ Send(k, op, phase, b, v, m)
       /\ \/ op = "Register" /\ phase = "newProfile" /\ v \in Users
          \/ op = "Callback" /\ phase = "lookup" /\ v = cookie[b] /\ m \in Logins
          \/ op = "Confirmation" /\ phase = "newProfile" /\ v \in Users /\ m \in Logins
          \/ op = "Disassociate" /\ phase = "ownerCheck" /\ v = cookie[b] /\ v # None /\ m \in Logins
          \/ op = "SetPassword" /\ phase = "hasLocal" /\ v = cookie[b] /\ v # None
  <1> DEFINE SomeSent == \E op \in Operations, phase \in Phases, v \in Users \cup {None},
                            m \in Logins \cup {None} : Sent(op, phase, v, m)
  <1>s. SomeSent
    <2>1. ASSUME NEW u \in Users, PostRegister(k, b, u) PROVE SomeSent
      BY <2>1 DEF PostRegister, Operations, Phases
    <2>2. ASSUME NEW l \in Logins, GetCallback(k, b, l) PROVE SomeSent
      BY <1>0, <2>2 DEF GetCallback, Operations, Phases
    <2>3. ASSUME NEW l \in Logins, NEW u \in Users, PostConfirmation(k, b, l, u) PROVE SomeSent
      BY <2>3 DEF PostConfirmation, Operations, Phases
    <2>4. ASSUME NEW l \in Logins, PostDisassociate(k, b, l) PROVE SomeSent
      BY <1>0, <2>4 DEF PostDisassociate, Operations, Phases
    <2>5. CASE PostSetPassword(k, b)
      BY <1>0, <2>5 DEF PostSetPassword, Operations, Phases
    <2> QED
      BY <2>1, <2>2, <2>3, <2>4, <2>5
  <1>1. PICK op \in Operations, phase \in Phases, v \in Users \cup {None},
              m \in Logins \cup {None} : Sent(op, phase, v, m)
    BY <1>s
  <1>2. /\ ReqType' /\ Others(k) /\ req[k] = None /\ req'[k] # None
        /\ req'[k].op = op /\ req'[k].phase = phase
        /\ req'[k].user = v /\ req'[k].login = m
        /\ UNCHANGED <<profiles, local, owner, cookie, confirming, hurt>>
    BY <1>1, SendEffect DEF TypeOK, ReqType
  <1>3. TypeOK'
    BY <1>2 DEF TypeOK, ReqType
  <1>4. RequestsFit'
    BY <1>0, <1>1, <1>2 DEF RequestsFit, Others
  <1>5. ~Registering(k) /\ ~Registering(k)' /\ ~In(k, "delete")'
    BY <1>1, <1>2 DEF Registering, In
  <1>6. \A j \in Requests \ {k} : Registering(j) =>
          /\ req'[k].user = req[j].user => req'[k].phase = "newProfile"
          /\ \A c \in Browsers : cookie'[c] # req[j].user
    <2> SUFFICES ASSUME NEW j \in Requests \ {k}, Registering(j)
                 PROVE  /\ req'[k].user = req[j].user => req'[k].phase = "newProfile"
                        /\ \A c \in Browsers : cookie'[c] # req[j].user
      OBVIOUS
    <2> QED
      BY <1>1, <1>2, InUse
  <1> QED
    BY <1>2, <1>3, <1>4, <1>5, <1>6, QuietStep

\* Signing in with a password, and signing off.
LEMMA CookieInv ==
  ASSUME IInv, NEW b \in Browsers, (\E u \in Users : Login(b, u)) \/ LogOff(b)
  PROVE  IInv'
  <1> USE DEF IInv
  <1>1. /\ UNCHANGED <<profiles, local, owner, confirming, req, hurt>>
        /\ \E v \in local \cup {None} : cookie' = [cookie EXCEPT ![b] = v]
    BY DEF Login, LogOff
  <1>2. TypeOK'
    BY <1>1 DEF TypeOK
  <1>3. RegistrationNeverAdopts'
    <2> SUFFICES ASSUME NEW k \in Requests, Registering(k)
                 PROVE  ~Credentialed(req[k].user) /\ \A c \in Browsers : cookie'[c] # req[k].user
      BY <1>1 DEF RegistrationNeverAdopts, Registering, Credentialed
    <2>1. req[k].user # None
      BY InUse, NoneAssumption DEF TypeOK
    <2> QED
      BY <1>1, <2>1, InUse DEF RegistrationNeverAdopts, TypeOK
  <1> QED
    BY <1>1, <1>2, <1>3 DEF RequestsFit, NamesUsedOnce, Registering, ReadsStand, In,
         SeveralLogins, StrandedOnlyByAccident, Credentialed
-----------------------------------------------------------------------------
\* Steps that only move a request on or end it.
LEMMA WalkInv ==
  ASSUME IInv, NEW k \in Requests,
         \/ LinkLookup(k) \/ OwnerCheck(k) \/ Begin(k) \/ HasLocal(k) \/ DeadlockVictim(k)
  PROVE  IInv'
  <1> USE DEF IInv
  <1>1. UNCHANGED <<profiles, local, owner, cookie, confirming, hurt>> /\ req[k] # None
    BY DEF LinkLookup, OwnerCheck, Begin, HasLocal, DeadlockVictim, In
  <1>2. /\ ReqType' /\ Others(k)
        /\ \/ req'[k] = None /\ ~Registering(k)
           \/ /\ Moved(k, "link") /\ req[k].phase = "linkLookup"
           \/ /\ Moved(k, "begin") /\ req[k].phase = "ownerCheck"
           \/ /\ Moved(k, "newAccount") /\ req[k].phase = "hasLocal"
           \/ /\ Moved(k, "delete") /\ req[k].phase = "begin"
              /\ IF req'[k].found THEN req[k].user \in local
                 ELSE SeveralLogins(req[k].user)
    <2> USE DEF TypeOK, ReqType
    <2>1. CASE LinkLookup(k)
      BY <2>1, FoundEffect DEF LinkLookup, In, Phases
    <2>2. CASE OwnerCheck(k)
      BY <2>2, GotoEffect, EndEffect DEF OwnerCheck, In, Phases, Registering
    <2>3. CASE Begin(k)
      <3>1. CASE req[k].user \in local \/ SeveralLogins(req[k].user)
        <4>1. (req[k].user \in local) \in BOOLEAN
          OBVIOUS
        <4>2. Found(k, "delete", req[k].user \in local) /\ In(k, "begin")
          BY <2>3, <3>1 DEF Begin
        <4>3. ReqType' /\ Others(k) /\ Moved(k, "delete") /\ req'[k].found = (req[k].user \in local)
          BY <4>1, <4>2, FoundEffect DEF In, Phases
        <4> QED
          BY <3>1, <4>2, <4>3 DEF In
      <3>2. CASE ~(req[k].user \in local \/ SeveralLogins(req[k].user))
        BY <2>3, <3>2, EndEffect DEF Begin, In, Registering
      <3> QED
        BY <3>1, <3>2
    <2>4. CASE HasLocal(k)
      BY <2>4, GotoEffect, EndEffect DEF HasLocal, In, Phases, Registering
    <2>5. CASE DeadlockVictim(k)
      BY <2>5, EndEffect DEF DeadlockVictim, In, Registering
    <2> QED
      BY <2>1, <2>2, <2>3, <2>4, <2>5
  <1>3. TypeOK'
    BY <1>1, <1>2 DEF TypeOK, ReqType
  <1>4. RequestsFit'
    BY <1>1, <1>2 DEF RequestsFit, Others, Moved
  <1>5. /\ Registering(k)' <=> Registering(k)
        /\ Registering(k) => req'[k].user = req[k].user
    BY <1>1, <1>2 DEF Registering, Moved, RequestsFit
  <1>6. In(k, "delete")' => /\ req'[k].user = req[k].user
                            /\ IF req'[k].found THEN req[k].user \in local
                               ELSE SeveralLogins(req[k].user)
    BY <1>2 DEF In, Moved
  <1>7. \A j \in Requests \ {k} : Registering(j) =>
          /\ req'[k] # None /\ req'[k].user = req[j].user => req'[k].phase = "newProfile"
          /\ \A b \in Browsers : cookie'[b] # req[j].user
    <2> SUFFICES ASSUME NEW j \in Requests \ {k}, Registering(j)
                 PROVE  /\ req'[k] # None => req'[k].user # req[j].user
                        /\ \A b \in Browsers : cookie'[b] # req[j].user
      OBVIOUS
    <2> QED
      BY <1>1, <1>2, InUse DEF Moved
  <1> QED
    BY <1>1, <1>2, <1>3, <1>4, <1>5, <1>6, <1>7, QuietStep

\* The last steps of Register and ExternalLoginConfirmation, and a callback:
\* a browser is signed in as a user with credentials.
LEMMA SignInInv ==
  ASSUME IInv, NEW k \in Requests, SignIn(k) \/ SignInExternal(k) \/ Callback(k)
  PROVE  IInv'
  <1> USE DEF IInv
  <1>1. /\ UNCHANGED <<profiles, local, owner, hurt>> /\ req[k] # None
        /\ req[k].phase \in {"signIn", "signInExternal", "lookup"}
        /\ confirming' \subseteq Browsers \X Logins
    <2>1. CASE SignIn(k) \/ SignInExternal(k)
      BY <2>1 DEF SignIn, SignInExternal, In, TypeOK
    <2>2. CASE Callback(k)
      <3>1. req[k] \in Request /\ req[k].login \in Logins
        BY <2>2 DEF Callback, In, TypeOK, RequestsFit
      <3> QED
        BY <2>2, <3>1 DEF Callback, In, TypeOK, Request
    <2> QED
      BY <2>1, <2>2
  <1>2. /\ ReqType' /\ Others(k)
        /\ \/ req'[k] = None
           \/ Moved(k, "linkLookup") /\ req[k].phase = "lookup" /\ req[k].user # None
    BY <1>1, GotoEffect, EndEffect
    DEF SignIn, SignInExternal, Callback, In, Phases, TypeOK, ReqType
  <1>3. \/ \E b \in Browsers, v \in profiles :
             /\ v \in local \/ \E l \in Logins : owner[l] = v
             /\ cookie' = [cookie EXCEPT ![b] = v]
        \/ cookie' = cookie
    <2>1. req[k].browser \in Browsers
      BY <1>1 DEF TypeOK, Request
    <2>2. CASE SignIn(k)
      BY <2>1, <2>2 DEF SignIn, TypeOK
    <2>3. CASE SignInExternal(k) \/ Callback(k)
      <3>1. req[k].login \in Logins
        BY <2>3 DEF SignInExternal, Callback, In, RequestsFit
      <3> QED
        BY <2>1, <2>3, <3>1 DEF SignInExternal, Callback, TypeOK
    <2> QED
      BY <2>2, <2>3
  <1>4. TypeOK'
    <2>1. cookie' \in [Browsers -> profiles \cup {None}]
      BY <1>3 DEF TypeOK
    <2> QED
      BY <1>1, <1>2, <2>1 DEF TypeOK, ReqType
  <1>5. RequestsFit'
    BY <1>1, <1>2 DEF RequestsFit, Others, Moved
  <1>6. ~Registering(k) /\ ~Registering(k)' /\ ~In(k, "delete")'
    BY <1>1, <1>2 DEF Registering, In, Moved, RequestsFit
  <1>7. \A j \in Requests \ {k} : Registering(j) =>
          /\ req'[k] # None /\ req'[k].user = req[j].user => req'[k].phase = "newProfile"
          /\ \A b \in Browsers : cookie'[b] # req[j].user
    <2> SUFFICES ASSUME NEW j \in Requests \ {k}, Registering(j)
                 PROVE  /\ req'[k] # None => req'[k].user # req[j].user
                        /\ \A b \in Browsers : cookie'[b] # req[j].user
      OBVIOUS
    <2>1. req'[k] # None => req'[k].user # req[j].user
      BY <1>1, <1>2, InUse DEF Moved
    <2>2. \A b \in Browsers : cookie'[b] # req[j].user
      BY <1>3, InUse DEF TypeOK
    <2> QED
      BY <2>1, <2>2
  <1> QED
    BY <1>1, <1>2, <1>4, <1>5, <1>6, <1>7, QuietStep
-----------------------------------------------------------------------------
\* A profile is inserted under a name nobody uses.
LEMMA InsertProfileInv ==
  ASSUME IInv, NEW k \in Requests, InsertProfile(k)
  PROVE  IInv'
  <1> USE DEF IInv
  <1> DEFINE u == req[k].user
  <1>1. /\ UNCHANGED <<local, owner, cookie, confirming, hurt>> /\ req[k] # None
        /\ req[k].phase = "newProfile" /\ req[k].op \in {"Register", "Confirmation"}
        /\ u \in Users
    BY DEF InsertProfile, In, RequestsFit
  <1>2. CASE u \in profiles
    <2>1. ReqType' /\ Others(k) /\ req'[k] = None /\ profiles' = profiles
      BY <1>2, EndEffect DEF InsertProfile, TypeOK, ReqType
    <2>2. TypeOK' /\ RequestsFit'
      BY <1>1, <2>1 DEF TypeOK, ReqType, RequestsFit, Others
    <2>3. ~Registering(k) /\ ~Registering(k)' /\ ~In(k, "delete")'
      BY <1>1, <2>1 DEF Registering, In
    <2>4. \A j \in Requests \ {k} : Registering(j) =>
            \A b \in Browsers : cookie'[b] # req[j].user
      BY <1>1, InUse
    <2> QED
      BY <1>1, <2>1, <2>2, <2>3, <2>4, QuietStep
  <1>3. CASE u \notin profiles
    <2> DEFINE next == IF req[k].op = "Register" THEN "newAccount" ELSE "linkLookup"
    <2>1. /\ ReqType' /\ Others(k) /\ Moved(k, next) /\ profiles' = profiles \cup {u}
      BY <1>1, <1>3, GotoEffect DEF InsertProfile, TypeOK, ReqType, Phases
    <2>2. \A j \in Requests \ {k} : Registering(j) => req[j].user # u
      BY <1>3, InUse
    <2>3. \A j \in Requests : req[j] # None /\ req[j].user = u => req[j].phase = "newProfile"
      BY <1>1, <1>3, NoneAssumption DEF RequestsFit, TypeOK
    <2>4. TypeOK'
      BY <1>1, <2>1 DEF TypeOK, ReqType
    <2>5. RequestsFit'
      BY <1>1, <2>1 DEF RequestsFit, Others, Moved
    <2>6. \A j \in Requests \ {k} : Registering(j)' <=> Registering(j)
      BY <2>1 DEF Registering, Others
    <2>7. NamesUsedOnce'
      BY <2>1, <2>2, <2>3, <2>6 DEF NamesUsedOnce, Others, Moved
    <2>8. RegistrationNeverAdopts'
      <3>1. ~Credentialed(u) /\ \A b \in Browsers : cookie[b] # u
        BY <1>1, <1>3, NoneAssumption DEF Credentialed, TypeOK
      <3>2. ASSUME NEW j \in Requests, Registering(j)'
            PROVE  /\ req'[j].user \notin local' /\ \A m \in Logins : owner'[m] # req'[j].user
                   /\ \A b \in Browsers : cookie'[b] # req'[j].user
        <4>1. CASE j = k
          BY <1>1, <2>1, <3>1, <4>1 DEF Credentialed, Moved
        <4>2. CASE j # k
          <5>1. Registering(j) /\ req'[j] = req[j]
            BY <2>1, <2>6, <3>2, <4>2 DEF Others
          <5> QED
            BY <1>1, <5>1, InUse
        <4> QED
          BY <4>1, <4>2
      <3> QED
        BY <3>2 DEF RegistrationNeverAdopts, Credentialed
    <2>9. ReadsStand'
      BY <1>1, <2>1 DEF ReadsStand, Others, In, SeveralLogins, Moved
    <2>10. StrandedOnlyByAccident'
      <3>1. Registering(k)' /\ req'[k].user = u
        BY <1>1, <2>1 DEF Registering, Moved
      <3>2. ~Registering(k)
        BY <1>1 DEF Registering
      <3> QED
        BY <1>1, <2>1, <2>6, <3>1, <3>2 DEF StrandedOnlyByAccident, Credentialed, Others
    <2> QED
      BY <2>4, <2>5, <2>7, <2>8, <2>9, <2>10
  <1> QED
    BY <1>2, <1>3

\* A password is a credential.
LEMMA InsertAccountInv ==
  ASSUME IInv, NEW k \in Requests, InsertAccount(k)
  PROVE  IInv'
  <1> USE DEF IInv
  <1> DEFINE u == req[k].user
  <1>1. /\ UNCHANGED <<profiles, owner, cookie, confirming, hurt>> /\ req[k] # None
        /\ req[k].phase = "newAccount" /\ req[k].op \in {"Register", "SetPassword"}
        /\ u \in profiles /\ local' = local \cup {u}
    BY DEF InsertAccount, In, RequestsFit
  <1>2. /\ ReqType' /\ Others(k)
        /\ \/ Moved(k, "signIn") /\ req[k].op = "Register"
           \/ req'[k] = None
    BY <1>1, GotoEffect, EndEffect DEF InsertAccount, TypeOK, ReqType, Phases
  <1>3. \A j \in Requests \ {k} : Registering(j) => req[j].user # u
    BY <1>1, InUse
  <1>4. \A j \in Requests : Registering(j)' <=> j # k /\ Registering(j)
    BY <1>2 DEF Registering, Others, Moved
  <1>5. TypeOK'
    BY <1>1, <1>2 DEF TypeOK, ReqType
  <1>6. RequestsFit'
    BY <1>1, <1>2 DEF RequestsFit, Others, Moved
  <1>7. NamesUsedOnce'
    BY <1>2, <1>3, <1>4 DEF NamesUsedOnce, Others, Moved
  <1>8. RegistrationNeverAdopts'
    BY <1>1, <1>2, <1>3, <1>4 DEF RegistrationNeverAdopts, Credentialed, Others
  <1>9. ReadsStand'
    BY <1>1, <1>2 DEF ReadsStand, Others, In, SeveralLogins, Moved
  <1>10. StrandedOnlyByAccident'
    BY <1>1, <1>2, <1>4 DEF StrandedOnlyByAccident, Credentialed, Others
  <1> QED
    BY <1>5, <1>6, <1>7, <1>8, <1>9, <1>10

\* A login gets a user, its former one has an accident; or the request throws.
LEMMA LinkInv ==
  ASSUME IInv, NEW k \in Requests, Link(k)
  PROVE  IInv'
  <1> USE DEF IInv
  <1> DEFINE u == req[k].user
             l == req[k].login
  <1>1. /\ UNCHANGED <<profiles, local, cookie, confirming>> /\ req[k] # None
        /\ req[k].phase = "link" /\ req[k].op \in {"Callback", "Confirmation"}
        /\ u \in profiles /\ l \in Logins /\ u # None
    BY NoneAssumption DEF Link, In, RequestsFit, TypeOK
  <1>2. \A j \in Requests \ {k} : Registering(j) => req[j].user # u
    BY <1>1, InUse
  <1>3. CASE req[k].found <=> owner[l] # None
    <2>1. /\ owner' = [owner EXCEPT ![l] = u]
          /\ hurt' = IF owner[l] \in {None, u} THEN hurt ELSE hurt \cup {owner[l]}
      BY <1>3 DEF Link
    <2>2. /\ ReqType' /\ Others(k)
          /\ \/ Moved(k, "signInExternal") /\ req[k].op = "Confirmation"
             \/ req'[k] = None
      BY <1>1, <1>3, GotoEffect, EndEffect DEF Link, TypeOK, ReqType, Phases
    <2>3. owner'[l] = u /\ \A m \in Logins \ {l} : owner'[m] = owner[m]
      BY <1>1, <2>1 DEF TypeOK
    <2>4. \A j \in Requests : Registering(j)' <=> j # k /\ Registering(j)
      BY <2>2 DEF Registering, Others, Moved
    <2>5. TypeOK'
      <3>1. owner[l] \in profiles \cup {None}
        BY <1>1 DEF TypeOK
      <3>2. hurt' \subseteq Users
        BY <2>1, <3>1 DEF TypeOK
      <3> QED
        BY <1>1, <2>1, <2>2, <3>2 DEF TypeOK, ReqType
    <2>6. RequestsFit'
      BY <1>1, <2>2 DEF RequestsFit, Others, Moved
    <2>7. NamesUsedOnce'
      BY <1>2, <2>2, <2>4 DEF NamesUsedOnce, Others, Moved
    <2>8. RegistrationNeverAdopts'
      <3>1. ASSUME NEW j \in Requests, Registering(j)'
            PROVE  /\ req'[j].user \notin local' /\ \A m \in Logins : owner'[m] # req'[j].user
                   /\ \A b \in Browsers : cookie'[b] # req'[j].user
        <4>1. j # k /\ Registering(j) /\ req'[j] = req[j]
          BY <2>2, <2>4, <3>1 DEF Others
        <4> QED
          BY <1>1, <1>2, <2>3, <4>1, InUse
      <3> QED
        BY <3>1 DEF RegistrationNeverAdopts, Credentialed
    <2>9. ReadsStand'
      <3>1. ASSUME NEW j \in Requests, In(j, "delete")'
            PROVE  j # k /\ req'[j] = req[j] /\ In(j, "delete") /\ req[j].found
        <4>1. j # k
          BY <2>2, <3>1 DEF In, Moved
        <4> QED
          BY <2>2, <3>1, <4>1 DEF In, Others, Link, LoginsFree
      <3> QED
        BY <1>1, <3>1 DEF ReadsStand
    <2>10. StrandedOnlyByAccident'
      <3> SUFFICES ASSUME NEW v \in profiles
                   PROVE  \/ Credentialed(v)' \/ v \in hurt'
                          \/ \E j \in Requests : Registering(j)' /\ req'[j].user = v
        BY <1>1 DEF StrandedOnlyByAccident
      <3>1. CASE v = u
        BY <1>1, <2>3, <3>1 DEF Credentialed
      <3>2. CASE v # u /\ owner[l] = v
        BY <2>1, <3>2, NoneAssumption DEF TypeOK
      <3>3. CASE v # u /\ owner[l] # v
        <4>1. Credentialed(v) => Credentialed(v)'
          BY <1>1, <2>3, <3>3 DEF Credentialed
        <4>2. hurt \subseteq hurt'
          BY <2>1
        <4> QED
          BY <2>2, <2>4, <3>3, <4>1, <4>2 DEF StrandedOnlyByAccident, Others
      <3> QED
        BY <3>1, <3>2, <3>3
    <2> QED
      BY <2>5, <2>6, <2>7, <2>8, <2>9, <2>10
  <1>4. CASE ~(req[k].found <=> owner[l] # None)
    <2>1. /\ UNCHANGED owner
          /\ hurt' = IF req[k].op = "Confirmation" THEN hurt \cup {u} ELSE hurt
          /\ ReqType' /\ Others(k) /\ req'[k] = None
      BY <1>4, EndEffect DEF Link, TypeOK, ReqType
    <2>2. \A j \in Requests : Registering(j)' <=> j # k /\ Registering(j)
      BY <2>1 DEF Registering, Others
    <2>3. TypeOK' /\ RequestsFit'
      BY <1>1, <2>1 DEF TypeOK, ReqType, RequestsFit, Others
    <2>4. NamesUsedOnce' /\ ReadsStand'
      BY <1>1, <2>1, <2>2 DEF NamesUsedOnce, ReadsStand, Others, In, SeveralLogins
    <2>5. RegistrationNeverAdopts'
      BY <1>1, <2>1, <2>2 DEF RegistrationNeverAdopts, Credentialed, Others
    <2>6. StrandedOnlyByAccident'
      <3>1. Registering(k) => u \in hurt'
        BY <1>1, <2>1 DEF Registering
      <3>2. hurt \subseteq hurt'
        BY <2>1
      <3> QED
        BY <1>1, <2>1, <2>2, <3>1, <3>2 DEF StrandedOnlyByAccident, Credentialed, Others
    <2> QED
      BY <2>3, <2>4, <2>5, <2>6
  <1> QED
    BY <1>3, <1>4

\* A login is removed: its owner keeps another credential if the owner is who
\* asked, and is a victim otherwise.
LEMMA DeleteInv ==
  ASSUME IInv, NEW k \in Requests, Delete(k)
  PROVE  IInv'
  <1> USE DEF IInv
  <1> DEFINE u == req[k].user
             l == req[k].login
  <1>1. /\ UNCHANGED <<profiles, local, cookie, confirming>> /\ req[k] # None
        /\ req[k].phase = "delete" /\ req[k].op = "Disassociate"
        /\ u \in profiles /\ l \in Logins /\ u # None
        /\ owner' = [owner EXCEPT ![l] = None]
        /\ hurt' = IF owner[l] \in {None, u} THEN hurt ELSE hurt \cup {owner[l]}
    BY NoneAssumption DEF Delete, In, RequestsFit, TypeOK
  <1>2. ReqType' /\ Others(k) /\ req'[k] = None
    BY EndEffect DEF Delete, TypeOK, ReqType
  <1>3. owner'[l] = None /\ \A m \in Logins \ {l} : owner'[m] = owner[m]
    BY <1>1 DEF TypeOK
  <1>4. \A j \in Requests : Registering(j)' <=> Registering(j)
    BY <1>1, <1>2 DEF Registering, Others
  <1>5. TypeOK'
    <2>1. owner[l] \in profiles \cup {None}
      BY <1>1 DEF TypeOK
    <2>2. hurt' \subseteq Users
      BY <1>1, <2>1 DEF TypeOK
    <2> QED
      BY <1>1, <1>2, <2>2 DEF TypeOK, ReqType
  <1>6. RequestsFit' /\ NamesUsedOnce'
    BY <1>1, <1>2, <1>4 DEF RequestsFit, NamesUsedOnce, Others, Registering
  <1>7. RegistrationNeverAdopts'
    <2>1. ASSUME NEW j \in Requests, Registering(j)'
          PROVE  /\ req'[j].user \notin local' /\ \A m \in Logins : owner'[m] # req'[j].user
                 /\ \A b \in Browsers : cookie'[b] # req'[j].user
      <3>1. j # k /\ Registering(j) /\ req'[j] = req[j] /\ req[j].user # None
        BY <1>2, <1>4, <2>1, InUse, NoneAssumption DEF Others, Registering, TypeOK
      <3> QED
        BY <1>1, <1>3, <3>1, InUse
    <2> QED
      BY <2>1 DEF RegistrationNeverAdopts, Credentialed
  <1>8. ReadsStand'
    <2>1. ASSUME NEW j \in Requests, In(j, "delete")'
          PROVE  req'[j] = req[j] /\ In(j, "delete") /\ req[j].found
      BY <1>2, <2>1 DEF In, Others, Delete, LoginsFree
    <2> QED
      BY <1>1, <2>1 DEF ReadsStand
  <1>9. StrandedOnlyByAccident'
    <2> SUFFICES ASSUME NEW v \in profiles
                 PROVE  \/ Credentialed(v)' \/ v \in hurt'
                        \/ \E j \in Requests : Registering(j)' /\ req'[j].user = v
      BY <1>1 DEF StrandedOnlyByAccident
    <2>1. CASE owner[l] # v
      <3>1. (Credentialed(v) => Credentialed(v)') /\ hurt \subseteq hurt'
        BY <1>1, <1>3, <2>1 DEF Credentialed
      <3>2. \A j \in Requests : Registering(j) => req'[j] = req[j]
        BY <1>1, <1>2 DEF Registering, Others
      <3> QED
        BY <1>4, <3>1, <3>2 DEF StrandedOnlyByAccident
    <2>2. CASE owner[l] = v /\ v # u
      BY <1>1, <2>2, NoneAssumption DEF TypeOK
    <2>3. CASE owner[l] = v /\ v = u
      <3>1. v \in local \/ \E m \in Logins \ {l} : owner[m] = v
        BY <1>1, <2>3 DEF ReadsStand, In, SeveralLogins
      <3> QED
        BY <1>1, <1>3, <3>1 DEF Credentialed
    <2> QED
      BY <2>1, <2>2, <2>3
  <1> QED
    BY <1>5, <1>6, <1>7, <1>8, <1>9

\* A registration that dies leaves a victim.
LEMMA FailInv ==
  ASSUME IInv, NEW k \in Requests, Fail(k)
  PROVE  IInv'
  <1> USE DEF IInv
  <1>1. /\ UNCHANGED <<profiles, local, owner, cookie, confirming>> /\ req[k] # None
        /\ hurt' = IF Registering(k) THEN hurt \cup {req[k].user} ELSE hurt
        /\ ReqType' /\ Others(k) /\ req'[k] = None
    BY EndEffect DEF Fail, TypeOK, ReqType
  <1>2. \A j \in Requests : Registering(j)' <=> j # k /\ Registering(j)
    BY <1>1 DEF Registering, Others
  <1>3. TypeOK' /\ RequestsFit'
    BY <1>1, InUse DEF TypeOK, ReqType, RequestsFit, Others
  <1>4. NamesUsedOnce' /\ ReadsStand'
    BY <1>1, <1>2 DEF NamesUsedOnce, ReadsStand, Others, In, SeveralLogins
  <1>5. RegistrationNeverAdopts'
    BY <1>1, <1>2 DEF RegistrationNeverAdopts, Credentialed, Others
  <1>6. StrandedOnlyByAccident'
    BY <1>1, <1>2 DEF StrandedOnlyByAccident, Credentialed, Others
  <1> QED
    BY <1>3, <1>4, <1>5, <1>6
-----------------------------------------------------------------------------
THEOREM InitInv == Init => IInv
  BY DEF Init, IInv, TypeOK, RequestsFit, NamesUsedOnce, RegistrationNeverAdopts,
         Registering, ReadsStand, In, StrandedOnlyByAccident

THEOREM NextInv == IInv /\ [Next]_vars => IInv'
  <1> SUFFICES ASSUME IInv, [Next]_vars PROVE IInv'
    OBVIOUS
  <1>1. ASSUME NEW k \in Requests, Work(k) \/ DeadlockVictim(k) \/ Fail(k) PROVE IInv'
    BY <1>1, WalkInv, SignInInv, InsertProfileInv, InsertAccountInv, LinkInv, DeleteInv, FailInv
    DEF Work
  <1>2. ASSUME NEW k \in Requests, NEW b \in Browsers,
               \/ \E u \in Users : PostRegister(k, b, u)
               \/ \E l \in Logins : \/ GetCallback(k, b, l)
                                   \/ PostDisassociate(k, b, l)
                                   \/ \E u \in Users : PostConfirmation(k, b, l, u)
               \/ PostSetPassword(k, b)
        PROVE  IInv'
    BY <1>2, SendInv
  <1>3. ASSUME NEW b \in Browsers, NEW u \in Users, Login(b, u) PROVE IInv'
    BY <1>3, CookieInv
  <1>4. ASSUME NEW b \in Browsers, LogOff(b) PROVE IInv'
    BY <1>4, CookieInv
  <1>5. CASE UNCHANGED vars
    BY <1>5 DEF vars, IInv, TypeOK, RequestsFit, NamesUsedOnce, RegistrationNeverAdopts,
                Registering, Credentialed, ReadsStand, In, SeveralLogins, StrandedOnlyByAccident
  <1> QED
    BY <1>1, <1>2, <1>3, <1>4, <1>5 DEF Next

THEOREM Invariance == Spec => []IInv
  BY InitInv, NextInv, PTL DEF Spec

\* Tables and cookies only refer to users who have a profile.
THEOREM TypeCorrect == Spec => []TypeOK
  <1>1. IInv => TypeOK
    BY DEF IInv
  <1> QED
    BY <1>1, Invariance, PTL

\* Register and ExternalLoginConfirmation never take over a user who exists.
THEOREM NeverAdopts == Spec => []RegistrationNeverAdopts
  <1>1. IInv => RegistrationNeverAdopts
    BY DEF IInv
  <1> QED
    BY <1>1, Invariance, PTL

\* Only accidents leave a user without a way to sign in.
THEOREM Stranded == Spec => []StrandedOnlyByAccident
  <1>1. IInv => StrandedOnlyByAccident
    BY DEF IInv
  <1> QED
    BY <1>1, Invariance, PTL

\* The transaction of Disassociate does what its comment says.
THEOREM OwnRemoval == Spec => OwnRemovalKeepsCredential
  <1> DEFINE Kept(k, l, u) ==
        ( /\ In(k, "delete") /\ req[k].user = u /\ req'[k] = None
          /\ owner[l] = u /\ owner'[l] = None )
        => Credentialed(u)'
  <1>1. ASSUME IInv, [Next]_vars, NEW k \in Requests, NEW l \in Logins, NEW u \in Users
        PROVE  Kept(k, l, u)
    <2> SUFFICES ASSUME In(k, "delete"), req[k].user = u, req'[k] = None,
                        owner[l] = u, owner'[l] = None
                 PROVE  Credentialed(u)'
      OBVIOUS
    <2> USE <1>1
    <2>1. u # None
      BY NoneAssumption
    <2>2. PICK j \in Requests : Link(j) \/ Delete(j)
      <3>1. owner' # owner
        BY <2>1
      <3> QED
        BY <3>1 DEF Next, vars, Work, InsertProfile, InsertAccount, SignIn, Callback,
             LinkLookup, SignInExternal, OwnerCheck, Begin, HasLocal, DeadlockVictim, Fail,
             PostRegister, GetCallback, PostDisassociate, PostConfirmation, PostSetPassword,
             Send, Login, LogOff
    <2>3. j = k
      <3>1. ReqType' /\ Others(j)
        BY <2>2, GotoEffect, EndEffect DEF Link, Delete, In, Phases, IInv, TypeOK, ReqType
      <3> QED
        BY <3>1 DEF Others, In
    <2>4. Delete(k)
      BY <2>2, <2>3 DEF Link, In
    <2>5. u \in local \/ \E m \in Logins \ {l} : owner[m] = u
      BY DEF IInv, ReadsStand, SeveralLogins, In
    <2>6. req[k].login = l
      BY <2>1, <2>4 DEF Delete, IInv, TypeOK
    <2> QED
      BY <2>4, <2>5, <2>6 DEF Delete, Credentialed, IInv, TypeOK
  <1>2. IInv /\ [Next]_vars =>
          [\A k \in Requests, l \in Logins, u \in Users : Kept(k, l, u)]_vars
    BY <1>1
  <1> QED
    BY <1>2, Invariance, PTL DEF Spec, OwnRemovalKeepsCredential
-----------------------------------------------------------------------------
(***************************************************************************)
(* Why every request comes to an end: what can be proved of it without     *)
(* fairness.  A request goes through its phases in one direction, as the   *)
(* user it was sent for, and whenever one waits for a lock, somebody who   *)
(* holds one can go on or be rolled back.                                  *)
(***************************************************************************)
\* The steps left, at most, to a request in a phase.
Left(phase) ==
  IF phase \in {"newProfile", "lookup", "hasLocal", "ownerCheck"} THEN 4
  ELSE IF phase \in {"linkLookup", "newAccount", "begin"} THEN 3
  ELSE IF phase = "link" THEN 2 ELSE 1

Advances(k) ==
  /\ Left(req'[k].phase) < Left(req[k].phase)
  /\ req'[k].op = req[k].op /\ req'[k].user = req[k].user
  /\ req'[k].login = req[k].login

\* k waits for a lock of another request's transaction.
Waits(k) == \/ In(k, "newAccount") /\ ~LocalFree(k, req[k].user)
            \/ (In(k, "link") \/ In(k, "delete")) /\ ~LoginsFree(k)

\* The guards of k's next step hold.
CanGoOn(k) == ~Waits(k) /\ (In(k, "signIn") => req[k].user \in local)

\* ... or the database may roll k back.
CanBeVictim(k) == In(k, "delete") /\ ~req[k].found /\ ~LoginsFree(k)

\* Who is about to be signed in has a password.
SignInsHavePasswords == \A k \in Requests : In(k, "signIn") => req[k].user \in local

\* What a step does to the requests: it sends one, ends one, or moves one.
LEMMA StepMoves ==
  ASSUME IInv, [Next]_vars, NEW k \in Requests, req[k] # None, req'[k] # None
  PROVE  /\ req'[k] = req[k] \/ Advances(k)
         /\ In(k, "signIn")' => In(k, "signIn") \/ req[k].user \in local'
         /\ local \subseteq local'
  <1> USE DEF IInv
  <1>1. ASSUME NEW j \in Requests, Work(j)
        PROVE  /\ req'[k] = req[k] \/ Advances(k)
               /\ In(k, "signIn")' => In(k, "signIn") \/ req[k].user \in local'
               /\ local \subseteq local'
    <2> DEFINE Good == /\ req'[k] = req[k] \/ Advances(k)
                       /\ In(k, "signIn")' => In(k, "signIn") \/ req[k].user \in local'
                       /\ local \subseteq local'
    <2>1. CASE InsertProfile(j)
      BY <2>1, GotoEffect, EndEffect
      DEF InsertProfile, In, TypeOK, ReqType, Others, Moved, Advances, Left, Phases
    <2>2. CASE InsertAccount(j)
      BY <2>2, GotoEffect, EndEffect
      DEF InsertAccount, In, TypeOK, ReqType, Others, Moved, Advances, Left, Phases
    <2>3. CASE Callback(j)
      BY <2>3, GotoEffect, EndEffect
      DEF Callback, In, TypeOK, ReqType, Others, Moved, Advances, Left, Phases
    <2>4. CASE LinkLookup(j)
      <3>1. (owner[req[j].login] # None) \in BOOLEAN
        OBVIOUS
      <3>2. /\ In(j, "linkLookup") /\ local' = local
            /\ Found(j, "link", owner[req[j].login] # None)
        BY <2>4 DEF LinkLookup
      <3>3. Others(j) /\ Moved(j, "link")
        BY <3>1, <3>2, FoundEffect DEF In, TypeOK, ReqType, Phases
      <3> QED
        BY <3>2, <3>3 DEF In, Others, Moved, Advances, Left
    <2>5. CASE Link(j)
      BY <2>5, GotoEffect, EndEffect
      DEF Link, In, TypeOK, ReqType, Others, Moved, Advances, Left, Phases
    <2>6. CASE OwnerCheck(j)
      BY <2>6, GotoEffect, EndEffect
      DEF OwnerCheck, In, TypeOK, ReqType, Others, Moved, Advances, Left, Phases
    <2>7. CASE Begin(j)
      <3>1. (req[j].user \in local) \in BOOLEAN
        OBVIOUS
      <3>2. /\ In(j, "begin") /\ local' = local
            /\ Found(j, "delete", req[j].user \in local) \/ End(j)
        BY <2>7 DEF Begin
      <3>3. Others(j) /\ (Moved(j, "delete") \/ req'[j] = None)
        BY <3>1, <3>2, FoundEffect, EndEffect DEF In, TypeOK, ReqType, Phases
      <3> QED
        BY <3>2, <3>3 DEF In, Others, Moved, Advances, Left
    <2>8. CASE HasLocal(j)
      BY <2>8, GotoEffect, EndEffect
      DEF HasLocal, In, TypeOK, ReqType, Others, Moved, Advances, Left, Phases
    <2>9. CASE SignIn(j) \/ SignInExternal(j) \/ Delete(j)
      BY <2>9, EndEffect DEF SignIn, SignInExternal, Delete, In, TypeOK, ReqType, Others
    <2> QED
      BY <1>1, <2>1, <2>2, <2>3, <2>4, <2>5, <2>6, <2>7, <2>8, <2>9 DEF Work
  <1>2. ASSUME NEW j \in Requests, DeadlockVictim(j) \/ Fail(j)
        PROVE  req'[k] = req[k] /\ local' = local
    BY <1>2, EndEffect DEF DeadlockVictim, Fail, TypeOK, ReqType, Others
  <1>3. ASSUME NEW j \in Requests, NEW op, NEW phase, NEW b, NEW u, NEW l,
               Send(j, op, phase, b, u, l)
        PROVE  req'[k] = req[k] /\ local' = local
    BY <1>3 DEF Send, TypeOK
  <1>4. ASSUME NEW b \in Browsers, LogOff(b) \/ \E u \in Users : Login(b, u)
        PROVE  req'[k] = req[k] /\ local' = local
    BY <1>4 DEF LogOff, Login
  <1>5. CASE UNCHANGED vars
    BY <1>5 DEF vars, In
  <1> QED
    BY <1>1, <1>2, <1>3, <1>4, <1>5
    DEF Next, In, PostRegister, GetCallback, PostDisassociate, PostConfirmation, PostSetPassword

\* A request that appears was sent, and starts in one of four phases.
LEMMA StepSends ==
  ASSUME IInv, [Next]_vars, NEW k \in Requests, req[k] = None, req'[k] # None
  PROVE  req'[k].phase \in {"newProfile", "lookup", "ownerCheck", "hasLocal"}
  <1>1. ASSUME NEW j \in Requests, Work(j) \/ DeadlockVictim(j) \/ Fail(j)
        PROVE  req'[k] = None
    <2>1. j # k
      BY <1>1 DEF Work, DeadlockVictim, Fail, In, InsertProfile, InsertAccount, SignIn, Callback,
                  LinkLookup, Link, SignInExternal, OwnerCheck, Begin, Delete, HasLocal
    <2>2. \E v : req' = [req EXCEPT ![j] = v]
      BY <1>1 DEF Work, DeadlockVictim, Fail, InsertProfile, InsertAccount, SignIn, Callback,
                  LinkLookup, Link, SignInExternal, OwnerCheck, Begin, Delete, HasLocal,
                  Goto, Found, End
    <2> QED
      BY <2>1, <2>2 DEF IInv, TypeOK
  <1>2. ASSUME NEW j \in Requests, NEW op, NEW phase, NEW b, NEW u, NEW l,
               Send(j, op, phase, b, u, l)
        PROVE  req'[k] = None \/ req'[k].phase = phase
    BY <1>2 DEF Send, IInv, TypeOK
  <1>3. ASSUME NEW b \in Browsers, LogOff(b) \/ \E u \in Users : Login(b, u)
        PROVE  req'[k] = None
    BY <1>3 DEF LogOff, Login
  <1>4. CASE UNCHANGED vars
    BY <1>4 DEF vars
  <1> QED
    BY <1>1, <1>2, <1>3, <1>4
    DEF Next, PostRegister, GetCallback, PostDisassociate, PostConfirmation, PostSetPassword

\* No request goes back to a phase it has left, and none changes the user it
\* acts for: after four steps at most it has ended.
THEOREM RequestsOnlyAdvance ==
  Spec => [][\A k \in Requests : req[k] # None /\ req'[k] # None /\ req'[k] # req[k]
                                 => Advances(k)]_vars
  <1>1. IInv /\ [Next]_vars =>
          [\A k \in Requests : req[k] # None /\ req'[k] # None /\ req'[k] # req[k]
                               => Advances(k)]_vars
    BY StepMoves
  <1> QED
    BY <1>1, Invariance, PTL DEF Spec

\* Whoever waits, waits for a request in "delete" that can go on or be rolled
\* back.
SomebodyGoesOn ==
  \A k \in Requests : req[k] # None =>
    \/ CanGoOn(k)
    \/ \E j \in Requests : In(j, "delete") /\ (CanGoOn(j) \/ CanBeVictim(j))

\* At any time, if requests are under way, one of them finds its guards true
\* or can be rolled back: the locks of Disassociate never stop everybody.
THEOREM LocksNeverStopEverybody == Spec => []SomebodyGoesOn
  <1>1. Init => SignInsHavePasswords
    BY DEF Init, SignInsHavePasswords, In
  <1>2. IInv /\ SignInsHavePasswords /\ [Next]_vars => SignInsHavePasswords'
    <2> SUFFICES ASSUME IInv, SignInsHavePasswords, [Next]_vars,
                        NEW k \in Requests, In(k, "signIn")'
                 PROVE  req'[k].user \in local'
      BY DEF SignInsHavePasswords
    <2>1. CASE req[k] = None
      BY <2>1, StepSends DEF In
    <2>2. CASE req[k] # None
      BY <2>2, StepMoves DEF In, SignInsHavePasswords, Advances
    <2> QED
      BY <2>1, <2>2
  <1>3. SignInsHavePasswords => SomebodyGoesOn
    <2> SUFFICES ASSUME SignInsHavePasswords, NEW k \in Requests, Waits(k)
                 PROVE  \E j \in Requests : In(j, "delete") /\ (CanGoOn(j) \/ CanBeVictim(j))
      BY DEF SomebodyGoesOn, CanGoOn, SignInsHavePasswords
    <2>1. PICK j \in Requests : In(j, "delete")
      BY DEF Waits, LocalFree, LoginsFree
    <2>2. CASE LoginsFree(j)
      BY <2>1, <2>2 DEF CanGoOn, Waits, In
    <2>3. CASE ~LoginsFree(j)
      <3>1. PICK i \in Requests : In(i, "delete") /\ ~req[i].found
        BY <2>3 DEF LoginsFree
      <3> QED
        BY <3>1 DEF CanGoOn, CanBeVictim, Waits, In
    <2> QED
      BY <2>2, <2>3
  <1> QED
    BY <1>1, <1>2, <1>3, Invariance, PTL DEF Spec
=============================================================================

---------------------------- MODULE SessionProofs ----------------------------
(***************************************************************************)
(* As long as one account is used between two launches, the currentUser of *)
(* a settled app is the user who is signed in, and the document that is    *)
(* fetched for the tabs exists unless the end of the app cut a sign-up off *)
(* - for any number of accounts and steps.                                 *)
(*                                                                         *)
(* Both are too weak to be preserved.  OneAccount says whose calls,        *)
(* listeners and currentUser there can be while one account is used;       *)
(* Arriving, what is still under way when the tabs show somebody else;     *)
(* Profiles, that a registered account without a document was cut off or   *)
(* is being written; and SignUps, that a sign-up shares its account with   *)
(* no sign-in, listener or read.                                           *)
(***************************************************************************)
EXTENDS Session, TLAPS

Has(op, a) == Call(op, a) \in calls

\* A step writes one version at most, and listeners report versions there were.
VersionsBounded == \A a \in Accounts : /\ version[a] <= steps + 1
                                       /\ heard[a] = Unheard \/ heard[a] <= version[a]

OneAccount ==
  ~switched => /\ \A k \in calls : k.account = last
               /\ listening \subseteq {last}
               /\ me.account \in {Nobody, last}
               /\ screen = "tabs" => auth = last

\* The tabs belong to somebody, whose document is in currentUser, being read, or
\* about to be reported by a listener.
Arriving ==
  /\ screen = "tabs" => auth # Nobody
  /\ screen = "tabs" /\ ~switched /\ ~unread =>
       \/ me.account = auth
       \/ Has("fetch", auth)
       \/ auth \in listening /\ heard[auth] # version[auth]

\* Firebase knows whoever signs in, is created, listened to or read.
Registered ==
  \A a \in Accounts : Has("signIn", a) \/ Has("created", a) \/ Has("fetch", a) \/ a \in listening
                      => a \in registered

Profiles ==
  /\ \A a \in registered : version[a] = 0 => a \in cutOff \/ Has("created", a)
  /\ ~switched => \A a \in Accounts : Has("fetch", a) \/ a \in listening =>
                                        version[a] # 0 \/ a \in cutOff

SignUps ==
  ~switched => \A a \in Accounts :
    /\ Has("create", a) => a \notin registered
    /\ Has("created", a) => ~Has("signIn", a) /\ ~Has("fetch", a) /\ a \notin listening

\* What every step preserves.
IInv == TypeOK /\ VersionsBounded /\ OneAccount /\ Arriving /\ Registered /\ Profiles /\ SignUps

\* A call is its operation and its account.
LEMMA Calls ==
  ASSUME TypeOK
  PROVE  \A k \in calls : /\ k = Call(k.op, k.account) /\ k.account \in Accounts
                          /\ k.op \in {"signIn", "create", "created", "fetch"}
BY DEF TypeOK, Call

LEMMA CallsDiffer ==
  \A o, p, a, b : Call(o, a) = Call(p, b) <=> o = p /\ a = b
BY DEF Call

\* The calls after one has been issued or answered.
LEMMA Issued ==
  ASSUME TypeOK, NEW op \in {"signIn", "create", "created", "fetch"}, NEW a \in Accounts,
         calls' = calls \cup {Call(op, a)}
  PROVE  /\ calls' \in SUBSET [op : {"signIn", "create", "created", "fetch"}, account : Accounts]
         /\ \A o, b : Has(o, b)' <=> Has(o, b) \/ (o = op /\ b = a)
         /\ \A k \in calls' : k \in calls \/ k.account = a
BY CallsDiffer DEF TypeOK, Call, Has

LEMMA Taken ==
  ASSUME TypeOK, NEW k \in calls, calls' = calls \ {k}
  PROVE  /\ calls' \in SUBSET [op : {"signIn", "create", "created", "fetch"}, account : Accounts]
         /\ \A o, b : Has(o, b)' <=> Has(o, b) /\ ~(o = k.op /\ b = k.account)
         /\ \A j \in calls' : j \in calls
BY Calls, CallsDiffer DEF TypeOK, Has

LEMMA Continued ==
  ASSUME TypeOK, NEW k \in calls, NEW op \in {"signIn", "create", "created", "fetch"},
         calls' = (calls \ {k}) \cup {Call(op, k.account)}
  PROVE  /\ calls' \in SUBSET [op : {"signIn", "create", "created", "fetch"}, account : Accounts]
         /\ \A o, b : Has(o, b)' <=> \/ Has(o, b) /\ ~(o = k.op /\ b = k.account)
                                     \/ o = op /\ b = k.account
         /\ \A j \in calls' : j \in calls \/ j.account = k.account
BY Calls, CallsDiffer DEF TypeOK, Call, Has

LEMMA InitHolds == Init => IInv
<1> SUFFICES ASSUME Init PROVE IInv
  OBVIOUS
<1>1. TypeOK
  <2>1. 0 \in Versions /\ 1 \in Versions
    BY SessionAssumption DEF Versions
  <2>2. version \in [Accounts -> Versions]
    BY <2>1 DEF Init
  <2>3. heard \in [Accounts -> Versions \cup {Unheard}]
    BY DEF Init
  <2>4. me \in [account : Accounts \cup {Nobody}, version : Versions]
    BY <2>1 DEF Init, NoUser
  <2>5. steps \in 0..MaxSteps
    BY SessionAssumption DEF Init
  <2>6. switched \in BOOLEAN
    BY DEF Init
  <2> QED
    BY <2>2, <2>3, <2>4, <2>5, <2>6 DEF Init, TypeOK
<1>2. VersionsBounded
  BY DEF Init, VersionsBounded
<1>3. OneAccount /\ Arriving /\ Registered /\ Profiles /\ SignUps
  BY DEF Init, OneAccount, Arriving, Registered, Profiles, SignUps, Has, NoUser
<1> QED
  BY <1>1, <1>2, <1>3 DEF IInv

\* Versions are numbers, and Unheard is none of them.
LEMMA Numbers ==
  ASSUME TypeOK
  PROVE  /\ \A a \in Accounts : version[a] \in Nat /\ version[a] # Unheard
         /\ \A a \in Accounts : heard[a] = Unheard \/ heard[a] \in Nat
         /\ steps \in Nat /\ MaxSteps \in Nat /\ steps <= MaxSteps
BY SessionAssumption DEF TypeOK, Versions, Unheard

LEMMA StepTyped ==
  ASSUME TypeOK, Step
  PROVE  steps' \in 0..MaxSteps /\ steps' = steps + 1 /\ steps \in Nat
BY SessionAssumption DEF TypeOK, Step

\* Whoever uses the login page: nothing of another account is left, or switched is set.
LEMMA UsedAlone ==
  ASSUME IInv, NEW a \in Accounts, Used(a), UNCHANGED <<me, listening>>
  PROVE  /\ last' = a /\ switched' \in BOOLEAN /\ cutOff' = cutOff /\ unread' = unread
         /\ ~switched' => /\ ~switched
                          /\ \A k \in calls : k.account = a
                          /\ listening \subseteq {a}
                          /\ me.account \in {Nobody, a}
                          /\ \A b \in Accounts : ~Has("create", b) /\ ~Has("created", b)
<1>1. last' = a /\ switched' \in BOOLEAN /\ cutOff' = cutOff /\ unread' = unread
  BY DEF Used
<1>2. ASSUME ~switched'
      PROVE  ~switched /\ last \in {a, Nobody} /\ SigningUp = {}
  BY <1>2 DEF Used
<1>3. ASSUME ~switched'
      PROVE  /\ \A k \in calls : k.account = a
             /\ listening \subseteq {a}
             /\ me.account \in {Nobody, a}
  <2>1. Nobody \notin Accounts /\ listening \subseteq Accounts
    BY SessionAssumption DEF IInv, TypeOK
  <2>2. \A k \in calls : k.account \in Accounts
    BY Calls DEF IInv
  <2> QED
    BY <1>2, <1>3, <2>1, <2>2 DEF IInv, OneAccount
<1>4. ASSUME SigningUp = {}, NEW b \in Accounts
      PROVE  ~Has("create", b) /\ ~Has("created", b)
  <2>1. Call("create", b).op = "create" /\ Call("created", b).op = "created"
    BY DEF Call
  <2> QED
    BY <1>4, <2>1 DEF SigningUp, Has
<1> QED
  BY <1>1, <1>2, <1>3, <1>4

LEMMA PressesKeep ==
  ASSUME IInv, NEW a \in Accounts, loginButtonPressed(a) \/ signUpButtonPressed(a)
  PROVE  IInv'
<1> DEFINE op == IF a \in registered THEN "signIn" ELSE "create"
<1>1. /\ screen = "login" /\ Step /\ Used(a)
      /\ calls' = calls \cup {Call(op, a)}
      /\ UNCHANGED <<registered, version, auth, screen, me, listening, heard>>
  BY DEF loginButtonPressed, signUpButtonPressed
<1>2. /\ op \in {"signIn", "create"}
      /\ op = "signIn" => a \in registered
      /\ op = "create" => a \notin registered
  OBVIOUS
<1> HIDE DEF op
<1>3. /\ calls' \in SUBSET [op : {"signIn", "create", "created", "fetch"}, account : Accounts]
      /\ \A o, b : Has(o, b)' <=> Has(o, b) \/ (o = op /\ b = a)
      /\ \A k \in calls' : k \in calls \/ k.account = a
  BY <1>1, <1>2, Issued DEF IInv
<1>4. /\ last' = a /\ switched' \in BOOLEAN /\ cutOff' = cutOff /\ unread' = unread
      /\ ~switched' => /\ ~switched
                       /\ \A k \in calls : k.account = a
                       /\ listening \subseteq {a}
                       /\ me.account \in {Nobody, a}
                       /\ \A b \in Accounts : ~Has("create", b) /\ ~Has("created", b)
  BY <1>1, UsedAlone
<1>5. steps' \in 0..MaxSteps /\ steps' = steps + 1 /\ steps \in Nat
  BY <1>1, StepTyped DEF IInv
<1>6. TypeOK'
  BY <1>1, <1>3, <1>4, <1>5 DEF IInv, TypeOK
<1>7. VersionsBounded'
  BY <1>1, <1>5, Numbers DEF IInv, VersionsBounded
<1>8. OneAccount'
  BY <1>1, <1>3, <1>4 DEF OneAccount
<1>9. Arriving'
  BY <1>1 DEF Arriving
<1>10. Registered'
  BY <1>1, <1>2, <1>3 DEF IInv, Registered
<1>11. Profiles'
  BY <1>1, <1>2, <1>3, <1>4 DEF IInv, Profiles
<1>12. SignUps'
  BY <1>1, <1>2, <1>3, <1>4 DEF IInv, SignUps
<1> QED
  BY <1>6, <1>7, <1>8, <1>9, <1>10, <1>11, <1>12 DEF IInv

\* A sign-in ends at the tabs with a listener that has not reported yet.
LEMMA SignedInKeeps ==
  ASSUME IInv, NEW k \in calls, SignedIn(k)
  PROVE  IInv'
<1> DEFINE a == k.account
<1>1. /\ k.op = "signIn" /\ auth' = a /\ screen' = "tabs" /\ listening' = listening \cup {a}
      /\ heard' = [heard EXCEPT ![a] = Unheard] /\ calls' = calls \ {k}
      /\ UNCHANGED <<registered, version, me, last, switched, cutOff, unread, steps>>
  BY DEF SignedIn, Enter, Listens, past
<1>2. /\ calls' \in SUBSET [op : {"signIn", "create", "created", "fetch"}, account : Accounts]
      /\ \A o, b : Has(o, b)' <=> Has(o, b) /\ ~(o = k.op /\ b = k.account)
      /\ \A j \in calls' : j \in calls
  BY <1>1, Taken DEF IInv
<1>3. a \in Accounts /\ Has("signIn", a)
  BY <1>1, Calls DEF IInv, Has
<1>4. a \in registered
  BY <1>3 DEF IInv, Registered
<1>5. heard'[a] = Unheard /\ version[a] # Unheard /\ heard' \in [Accounts -> Versions \cup {Unheard}]
  BY <1>1, <1>3, SessionAssumption DEF IInv, TypeOK, Versions, Unheard
<1>6. ~switched => a = last
  BY DEF IInv, OneAccount
<1> HIDE DEF a
<1>7. TypeOK'
  BY <1>1, <1>2, <1>3, <1>5 DEF IInv, TypeOK
<1>8. VersionsBounded'
  BY <1>1, <1>3 DEF IInv, TypeOK, VersionsBounded
<1>9. OneAccount'
  BY <1>1, <1>2, <1>6 DEF IInv, OneAccount
<1>10. Arriving'
  BY <1>1, <1>3, <1>5, SessionAssumption DEF Arriving
<1>11. Registered'
  BY <1>1, <1>2, <1>4 DEF IInv, Registered
<1>12. Profiles'
  <2>1. \A b \in registered : version[b] = 0 => b \in cutOff \/ Has("created", b)'
    BY <1>1, <1>2 DEF IInv, Profiles
  <2>2. ~switched => version[a] # 0 \/ a \in cutOff
    BY <1>3, <1>4 DEF IInv, Profiles, SignUps
  <2> QED
    BY <1>1, <1>2, <2>1, <2>2 DEF IInv, Profiles
<1>13. SignUps'
  BY <1>1, <1>2, <1>3 DEF IInv, SignUps
<1> QED
  BY <1>7, <1>8, <1>9, <1>10, <1>11, <1>12, <1>13 DEF IInv

\* A call that is refused leaves nothing behind.
LEMMA SignInFailedKeeps ==
  ASSUME IInv, NEW k \in calls, SignInFailed(k)
  PROVE  IInv'
<1>1. /\ k.op \in {"signIn", "create"} /\ calls' = calls \ {k}
      /\ UNCHANGED <<registered, version, auth, screen, me, listening, heard,
                     last, switched, cutOff, unread, steps>>
  BY DEF SignInFailed, past
<1>2. /\ calls' \in SUBSET [op : {"signIn", "create", "created", "fetch"}, account : Accounts]
      /\ \A o, b : Has(o, b)' <=> Has(o, b) /\ ~(o = k.op /\ b = k.account)
      /\ \A j \in calls' : j \in calls
  BY <1>1, Taken DEF IInv
<1>3. TypeOK' /\ VersionsBounded'
  BY <1>1, <1>2 DEF IInv, TypeOK, VersionsBounded
<1>4. OneAccount'
  BY <1>1, <1>2 DEF IInv, OneAccount
<1>5. Arriving'
  BY <1>1, <1>2 DEF IInv, Arriving
<1>6. Registered'
  BY <1>1, <1>2 DEF IInv, Registered
<1>7. Profiles'
  BY <1>1, <1>2 DEF IInv, Profiles
<1>8. SignUps'
  BY <1>1, <1>2 DEF IInv, SignUps
<1> QED
  BY <1>3, <1>4, <1>5, <1>6, <1>7, <1>8 DEF IInv

\* An account is registered while its creation is answered: nobody used it before.
LEMMA AccountCreatedKeeps ==
  ASSUME IInv, NEW k \in calls, AccountCreated(k)
  PROVE  IInv'
<1> DEFINE a == k.account
<1>1. /\ k.op = "create" /\ registered' = registered \cup {a}
      /\ calls' = (calls \ {k}) \cup {Call("created", a)}
      /\ UNCHANGED <<version, auth, screen, me, listening, heard, last, switched, cutOff, unread, steps>>
  BY DEF AccountCreated, past
<1>2. /\ calls' \in SUBSET [op : {"signIn", "create", "created", "fetch"}, account : Accounts]
      /\ \A o, b : Has(o, b)' <=> \/ Has(o, b) /\ ~(o = k.op /\ b = a)
                                  \/ o = "created" /\ b = a
      /\ \A j \in calls' : j \in calls \/ j.account = a
  BY <1>1, Continued DEF IInv
<1>3. a \in Accounts /\ Has("create", a) /\ (~switched => a = last)
  BY <1>1, Calls DEF IInv, Has, OneAccount
<1>4. ~switched => /\ a \notin registered
                   /\ ~Has("signIn", a) /\ ~Has("fetch", a) /\ a \notin listening
  BY <1>3 DEF IInv, SignUps, Registered
<1> HIDE DEF a
<1>5. TypeOK'
  BY <1>1, <1>2, <1>3 DEF IInv, TypeOK
<1>6. VersionsBounded'
  BY <1>1 DEF IInv, VersionsBounded
<1>7. OneAccount'
  BY <1>1, <1>2, <1>3 DEF IInv, OneAccount
<1>8. Arriving'
  BY <1>1, <1>2 DEF IInv, Arriving
<1>9. Registered'
  BY <1>1, <1>2, <1>3 DEF IInv, Registered
<1>10. Profiles'
  BY <1>1, <1>2, <1>3 DEF IInv, Profiles
<1>11. SignUps'
  BY <1>1, <1>2, <1>3, <1>4 DEF IInv, SignUps
<1> QED
  BY <1>5, <1>6, <1>7, <1>8, <1>9, <1>10, <1>11 DEF IInv

\* The document is written, the tabs are shown and the document is read.
LEMMA SignUpDoneKeeps ==
  ASSUME IInv, NEW k \in calls, SignUpDone(k)
  PROVE  IInv'
<1> DEFINE a == k.account
<1>1. /\ k.op = "created" /\ auth' = a /\ screen' = "tabs" /\ listening' = listening \cup {a}
      /\ heard' = [heard EXCEPT ![a] = Unheard] /\ version' = [version EXCEPT ![a] = 1]
      /\ calls' = (calls \ {k}) \cup {Call("fetch", a)}
      /\ UNCHANGED <<registered, me, last, switched, cutOff, unread, steps>>
  BY DEF SignUpDone, addUserToFirestore, Enter, Listens, past
<1>2. /\ calls' \in SUBSET [op : {"signIn", "create", "created", "fetch"}, account : Accounts]
      /\ \A o, b : Has(o, b)' <=> \/ Has(o, b) /\ ~(o = k.op /\ b = a)
                                  \/ o = "fetch" /\ b = a
      /\ \A j \in calls' : j \in calls \/ j.account = a
  BY <1>1, Continued DEF IInv
<1>3. a \in Accounts /\ Has("created", a) /\ a \in registered /\ (~switched => a = last)
  BY <1>1, Calls DEF IInv, Has, OneAccount, Registered
<1> HIDE DEF a
<1>4. /\ version' \in [Accounts -> Versions] /\ version'[a] = 1
      /\ \A b \in Accounts \ {a} : version'[b] = version[b] /\ heard'[b] = heard[b]
      /\ heard' \in [Accounts -> Versions \cup {Unheard}] /\ heard'[a] = Unheard
  BY <1>1, <1>3, SessionAssumption DEF IInv, TypeOK, Versions
<1>5. TypeOK'
  BY <1>1, <1>2, <1>3, <1>4 DEF IInv, TypeOK
<1>6. VersionsBounded'
  <2>1. 1 <= steps + 1
    BY Numbers DEF IInv
  <2> QED
    BY <1>1, <1>3, <1>4, <2>1 DEF IInv, VersionsBounded, Unheard
<1>7. OneAccount'
  BY <1>1, <1>2, <1>3 DEF IInv, OneAccount
<1>8. Arriving'
  BY <1>1, <1>2, <1>3, SessionAssumption DEF Arriving
<1>9. Registered'
  BY <1>1, <1>2, <1>3 DEF IInv, Registered
<1>10. Profiles'
  <2>1. ASSUME NEW b \in registered, version'[b] = 0
        PROVE  b \in cutOff \/ Has("created", b)'
    BY <1>1, <1>2, <1>4, <2>1 DEF IInv, TypeOK, Profiles
  <2>2. ASSUME ~switched, NEW b \in Accounts, Has("fetch", b)' \/ b \in listening'
        PROVE  version'[b] # 0 \/ b \in cutOff
    BY <1>1, <1>2, <1>4, <2>2 DEF IInv, Profiles
  <2> QED
    BY <1>1, <2>1, <2>2 DEF Profiles
<1>11. SignUps'
  BY <1>1, <1>2, <1>3 DEF IInv, SignUps
<1> QED
  BY <1>5, <1>6, <1>7, <1>8, <1>9, <1>10, <1>11 DEF IInv

\* What a listener reports is read at once.
LEMMA ListenerFiredKeeps ==
  ASSUME IInv, NEW a \in Accounts, ListenerFired(a)
  PROVE  IInv'
<1>1. /\ a \in listening /\ heard' = [heard EXCEPT ![a] = version[a]]
      /\ calls' = calls \cup {Call("fetch", a)}
      /\ UNCHANGED <<registered, version, auth, screen, me, listening, last, switched, cutOff, unread, steps>>
  BY DEF ListenerFired, past
<1>2. /\ calls' \in SUBSET [op : {"signIn", "create", "created", "fetch"}, account : Accounts]
      /\ \A o, b : Has(o, b)' <=> Has(o, b) \/ (o = "fetch" /\ b = a)
      /\ \A k \in calls' : k \in calls \/ k.account = a
  BY <1>1, Issued DEF IInv
<1>3. a \in registered /\ (~switched => a = last)
  BY <1>1 DEF IInv, Registered, OneAccount
<1>4. /\ heard' \in [Accounts -> Versions \cup {Unheard}] /\ heard'[a] = version[a]
      /\ \A b : b # a /\ b \in Accounts => heard'[b] = heard[b]
  BY <1>1 DEF IInv, TypeOK
<1>5. TypeOK'
  BY <1>1, <1>2, <1>4 DEF IInv, TypeOK
<1>6. VersionsBounded'
  BY <1>1, <1>4, Numbers DEF IInv, VersionsBounded, Unheard
<1>7. OneAccount'
  BY <1>1, <1>2, <1>3 DEF IInv, OneAccount
<1>8. Arriving'
  <2>1. auth \in Accounts \/ auth = Nobody
    BY DEF IInv, TypeOK
  <2> QED
    BY <1>1, <1>2, <1>4, <2>1 DEF IInv, Arriving
<1>9. Registered'
  BY <1>1, <1>2, <1>3 DEF IInv, Registered
<1>10. Profiles'
  BY <1>1, <1>2 DEF IInv, Profiles
<1>11. SignUps'
  BY <1>1, <1>2 DEF IInv, SignUps
<1> QED
  BY <1>5, <1>6, <1>7, <1>8, <1>9, <1>10, <1>11 DEF IInv

\* A read that is answered is of the account in use.
LEMMA UserFetchedKeeps ==
  ASSUME IInv, NEW k \in calls, UserFetched(k)
  PROVE  IInv'
<1>1. /\ k.op = "fetch" /\ me' = [account |-> k.account, version |-> version[k.account]]
      /\ calls' = calls \ {k}
      /\ unread' = FALSE
      /\ UNCHANGED <<registered, version, auth, screen, listening, heard,
                     last, switched, cutOff, steps>>
  BY DEF UserFetched, Fetched, past
<1>2. /\ calls' \in SUBSET [op : {"signIn", "create", "created", "fetch"}, account : Accounts]
      /\ \A o, b : Has(o, b)' <=> Has(o, b) /\ ~(o = k.op /\ b = k.account)
      /\ \A j \in calls' : j \in calls
  BY <1>1, Taken DEF IInv
<1>3. k.account \in Accounts /\ me'.account = k.account /\ (~switched => k.account = last)
  BY <1>1, Calls DEF IInv, OneAccount
<1>4. TypeOK'
  <2>1. me' \in [account : Accounts \cup {Nobody}, version : Versions]
    BY <1>1, <1>3 DEF IInv, TypeOK
  <2> QED
    BY <1>1, <1>2, <2>1 DEF IInv, TypeOK
<1>5. VersionsBounded'
  BY <1>1 DEF IInv, VersionsBounded
<1>6. OneAccount'
  BY <1>1, <1>2, <1>3 DEF IInv, OneAccount
<1>7. Arriving'
  BY <1>1, <1>3 DEF IInv, Arriving, OneAccount
<1>8. Registered'
  BY <1>1, <1>2 DEF IInv, Registered
<1>9. Profiles'
  BY <1>1, <1>2 DEF IInv, Profiles
<1>10. SignUps'
  BY <1>1, <1>2 DEF IInv, SignUps
<1> QED
  BY <1>4, <1>5, <1>6, <1>7, <1>8, <1>9, <1>10 DEF IInv

LEMMA LogOutKeeps ==
  ASSUME IInv, logOutButtonPressed
  PROVE  IInv'
<1>1. /\ auth' = Nobody /\ screen' = "login" /\ Step
      /\ UNCHANGED <<registered, version, me, listening, heard, calls, last, switched, cutOff, unread>>
  BY DEF logOutButtonPressed, past
<1>2. steps' \in 0..MaxSteps /\ steps' = steps + 1 /\ steps \in Nat
  BY <1>1, StepTyped DEF IInv
<1>3. TypeOK'
  BY <1>1, <1>2 DEF IInv, TypeOK
<1>4. VersionsBounded'
  BY <1>1, <1>2, Numbers DEF IInv, VersionsBounded
<1>5. OneAccount' /\ Arriving'
  BY <1>1 DEF IInv, OneAccount, Arriving
<1>6. Registered' /\ Profiles' /\ SignUps'
  BY <1>1 DEF IInv, Registered, Profiles, SignUps, Has
<1> QED
  BY <1>3, <1>4, <1>5, <1>6 DEF IInv

\* The end of the process: a sign-up it cuts off leaves an account without a document.
LEMMA EndedKeeps ==
  ASSUME IInv, Ended, UNCHANGED steps \/ Step
  PROVE  IInv'
<1>1. /\ auth' = Nobody /\ screen' = "login" /\ me' = NoUser
      /\ listening' = {} /\ heard' = [a \in Accounts |-> Unheard]
      /\ calls' = {} /\ last' = Nobody /\ switched' = FALSE /\ unread' = FALSE
      /\ cutOff' = cutOff \cup SigningUp /\ UNCHANGED <<registered, version>>
  BY DEF Ended
<1>2. steps' \in 0..MaxSteps /\ steps <= steps' /\ steps' \in Nat
  BY StepTyped, Numbers DEF IInv, TypeOK
<1>3. SigningUp \subseteq Accounts /\ \A a : Has("created", a) => a \in SigningUp
  <2>1. \A a : Call("created", a).op = "created" /\ Call("created", a).account = a
    BY DEF Call
  <2> QED
    BY Calls, <2>1 DEF IInv, SigningUp, Has
<1>4. TypeOK'
  <2>1. heard' \in [Accounts -> Versions \cup {Unheard}]
    BY <1>1
  <2>2. me' \in [account : Accounts \cup {Nobody}, version : Versions]
    BY <1>1, SessionAssumption DEF NoUser, Versions
  <2>3. switched' \in BOOLEAN /\ unread' \in BOOLEAN
    BY <1>1
  <2> QED
    BY <1>1, <1>2, <1>3, <2>1, <2>2, <2>3 DEF IInv, TypeOK
<1>5. VersionsBounded'
  BY <1>1, <1>2, Numbers DEF IInv, VersionsBounded, Unheard
<1>6. OneAccount' /\ Arriving'
  BY <1>1 DEF OneAccount, Arriving, NoUser
<1>7. \A o, b : ~Has(o, b)'
  BY <1>1 DEF Has
<1>8. Registered' /\ SignUps'
  BY <1>1, <1>7 DEF Registered, SignUps
<1>9. Profiles'
  BY <1>1, <1>3, <1>7 DEF IInv, Profiles
<1> QED
  BY <1>4, <1>5, <1>6, <1>8, <1>9 DEF IInv

\* A read that failed: nobody's document is left, and it is noted.
LEMMA ReadFailedKeeps ==
  ASSUME IInv, NEW k \in calls, ReadFailed(k)
  PROVE  IInv'
<1>1. CASE Ended
  BY <1>1, EndedKeeps DEF ReadFailed
<1>2. CASE ~Ended
  <2>1. /\ k.op = "fetch" /\ me' = NoUser /\ unread' = TRUE /\ calls' = calls \ {k}
        /\ UNCHANGED <<registered, version, auth, screen, listening, heard,
                       last, switched, cutOff, steps>>
    BY <1>2 DEF ReadFailed
  <2>2. /\ calls' \in SUBSET [op : {"signIn", "create", "created", "fetch"}, account : Accounts]
        /\ \A o, b : Has(o, b)' <=> Has(o, b) /\ ~(o = k.op /\ b = k.account)
        /\ \A j \in calls' : j \in calls
    BY <2>1, Taken DEF IInv
  <2>3. TypeOK'
    <3>1. me' \in [account : Accounts \cup {Nobody}, version : Versions]
      BY <2>1, SessionAssumption DEF NoUser, Versions
    <3>2. unread' \in BOOLEAN
      BY <2>1
    <3> QED
      BY <2>1, <2>2, <3>1, <3>2 DEF IInv, TypeOK
  <2>4. VersionsBounded'
    BY <2>1 DEF IInv, VersionsBounded
  <2>5. OneAccount'
    BY <2>1, <2>2 DEF IInv, OneAccount, NoUser
  <2>6. Arriving'
    BY <2>1 DEF IInv, Arriving
  <2>7. Registered'
    BY <2>1, <2>2 DEF IInv, Registered
  <2>8. Profiles'
    BY <2>1, <2>2 DEF IInv, Profiles
  <2>9. SignUps'
    BY <2>1, <2>2 DEF IInv, SignUps
  <2> QED
    BY <2>3, <2>4, <2>5, <2>6, <2>7, <2>8, <2>9 DEF IInv
<1> QED
  BY <1>1, <1>2

\* A version nobody has heard of: the listener has something to report.
LEMMA OthersWriteKeeps ==
  ASSUME IInv, NEW a \in Accounts, OthersWrite(a)
  PROVE  IInv'
<1>1. /\ version[a] # 0 /\ Step /\ version' = [version EXCEPT ![a] = version[a] + 1]
      /\ UNCHANGED <<registered, auth, screen, me, listening, heard, calls, last, switched, cutOff, unread>>
  BY DEF OthersWrite, past
<1>2. steps' \in 0..MaxSteps /\ steps' = steps + 1 /\ steps \in Nat
  BY <1>1, StepTyped DEF IInv
<1>3. /\ \A b \in Accounts \ {a} : version'[b] = version[b]
      /\ version'[a] = version[a] + 1 /\ version[a] \in Nat
  BY <1>1, Numbers DEF IInv, TypeOK
<1>4. VersionsBounded'
  BY <1>1, <1>2, <1>3, Numbers DEF IInv, VersionsBounded, Unheard
<1>5. TypeOK'
  <2>1. version[a] + 1 \in Versions
    BY <1>1, <1>2, <1>3, Numbers DEF IInv, VersionsBounded, Versions
  <2>2. version' \in [Accounts -> Versions]
    BY <1>1, <2>1 DEF IInv, TypeOK
  <2> QED
    BY <1>1, <1>2, <2>2 DEF IInv, TypeOK
<1>6. OneAccount'
  BY <1>1 DEF IInv, OneAccount
<1>7. Arriving'
  <2>1. heard[a] # version'[a]
    <3>1. version'[a] <= steps + 2 /\ steps < MaxSteps /\ version'[a] \in Nat
      <4>1. version[a] <= steps + 1
        BY DEF IInv, VersionsBounded
      <4>2. steps < MaxSteps
        BY <1>1 DEF Step
      <4> QED
        BY <1>2, <1>3, <4>1, <4>2
    <3>2. MaxSteps \in Nat /\ steps \in Nat /\ (heard[a] = Unheard \/ heard[a] <= version[a])
      BY Numbers DEF IInv, VersionsBounded
    <3>3. CASE heard[a] = Unheard
      BY <3>1, <3>2, <3>3 DEF Unheard
    <3>4. CASE heard[a] \in Nat /\ heard[a] <= version[a]
      BY <1>3, <3>4
    <3> QED
      BY <3>2, <3>3, <3>4, Numbers DEF IInv
  <2>2. auth \in Accounts \/ auth = Nobody
    BY DEF IInv, TypeOK
  <2> QED
    BY <1>1, <1>3, <2>1, <2>2 DEF IInv, Arriving, Has
<1>8. Registered' /\ SignUps'
  BY <1>1 DEF IInv, Registered, SignUps, Has
<1>9. Profiles'
  <2>1. \A b \in Accounts : version'[b] = 0 <=> version[b] = 0
    BY <1>1, <1>3
  <2>2. registered \subseteq Accounts
    BY DEF IInv, TypeOK
  <2> QED
    BY <1>1, <2>1, <2>2 DEF IInv, Profiles, Has
<1> QED
  BY <1>4, <1>5, <1>6, <1>7, <1>8, <1>9 DEF IInv

LEMMA ListenerEndedKeeps ==
  ASSUME IInv, NEW a \in Accounts, ListenerEnded(a)
  PROVE  IInv'
<1>1. /\ auth = Nobody /\ listening' = listening \ {a}
      /\ UNCHANGED <<registered, version, auth, screen, me, heard, calls,
                     last, switched, cutOff, unread, steps>>
  BY DEF ListenerEnded, past
<1>2. TypeOK' /\ VersionsBounded'
  BY <1>1 DEF IInv, TypeOK, VersionsBounded
<1>3. OneAccount'
  BY <1>1 DEF IInv, OneAccount
<1>4. Arriving'
  BY <1>1 DEF IInv, Arriving
<1>5. Registered' /\ Profiles' /\ SignUps'
  BY <1>1 DEF IInv, Registered, Profiles, SignUps, Has
<1> QED
  BY <1>2, <1>3, <1>4, <1>5 DEF IInv

LEMMA NextKeeps == IInv /\ [Next]_vars => IInv'
<1> SUFFICES ASSUME IInv, [Next]_vars PROVE IInv'
  OBVIOUS
<1>1. CASE logOutButtonPressed
  BY <1>1, LogOutKeeps
<1>2. CASE Killed
  BY <1>2, EndedKeeps DEF Killed
<1>3. ASSUME NEW a \in Accounts,
             \/ loginButtonPressed(a) \/ signUpButtonPressed(a)
             \/ OthersWrite(a) \/ ListenerFired(a) \/ ListenerEnded(a)
      PROVE  IInv'
  BY <1>3, PressesKeep, OthersWriteKeeps, ListenerFiredKeeps, ListenerEndedKeeps
<1>4. ASSUME NEW k \in calls, SignInFailed(k) \/ ReadFailed(k)
      PROVE  IInv'
  BY <1>4, SignInFailedKeeps, ReadFailedKeeps
<1>5. ASSUME NEW k \in calls, Callback(k)
      PROVE  IInv'
  <2>1. CASE SignedIn(k)
    BY <2>1, SignedInKeeps
  <2>2. CASE AccountCreated(k)
    BY <2>2, AccountCreatedKeeps
  <2>3. CASE SignUpDone(k)
    BY <2>3, SignUpDoneKeeps
  <2>4. CASE UserFetched(k)
    BY <2>4, UserFetchedKeeps
  <2>5. CASE NilProfile(k)
    BY <2>5, EndedKeeps DEF NilProfile
  <2> QED
    BY <1>5, <2>1, <2>2, <2>3, <2>4, <2>5 DEF Callback
<1>6. CASE UNCHANGED vars
  <2>1. UNCHANGED <<registered, version, auth, screen, me, listening, heard, calls,
                    last, switched, cutOff, unread, steps>>
    BY <1>6 DEF vars, past
  <2>2. TypeOK' /\ VersionsBounded' /\ OneAccount'
    BY <2>1 DEF IInv, TypeOK, VersionsBounded, OneAccount
  <2>3. Arriving' /\ Registered' /\ Profiles' /\ SignUps'
    BY <2>1 DEF IInv, Arriving, Registered, Profiles, SignUps, Has
  <2> QED
    BY <2>2, <2>3 DEF IInv
<1> QED
  BY <1>1, <1>2, <1>3, <1>4, <1>5, <1>6 DEF Next

LEMMA Implied == IInv => SessionInv /\ CurrentUserIsSignedIn
<1> SUFFICES ASSUME IInv PROVE SessionInv /\ CurrentUserIsSignedIn
  OBVIOUS
<1>1. ASSUME NEW k \in calls, k.op = "fetch", ~switched
      PROVE  version[k.account] # 0 \/ k.account \in cutOff
  <2>1. k.account \in Accounts /\ Has("fetch", k.account)
    BY <1>1, Calls DEF IInv, Has
  <2> QED
    BY <1>1, <2>1 DEF IInv, Profiles
<1>2. ASSUME Settled, screen = "tabs", ~switched, ~unread
      PROVE  me.account = auth
  BY <1>2 DEF IInv, Arriving, Settled, Has
<1> QED
  BY <1>1, <1>2 DEF IInv, SessionInv, ProfileExists, CurrentUserIsSignedIn

LEMMA IInvariant == Spec => []IInv
<1>1. Init => IInv
  BY InitHolds
<1>2. IInv /\ [Next]_vars => IInv'
  BY NextKeeps
<1> QED
  BY <1>1, <1>2, PTL DEF Spec

\* The document a callback force-unwraps (TabBarViewController:25) exists whenever it
\* is read, as long as one account is used between two launches and no sign-up of it
\* was cut off; and every state is well typed.
THEOREM ProfilesAlwaysExist == Spec => []SessionInv
<1>1. IInv => SessionInv
  BY Implied
<1> QED
  BY <1>1, IInvariant, PTL

\* Once every callback has run and every listener has reported, currentUser is the
\* user Firebase Auth has signed in (LoginViewController:62), however sign-ins, log-outs,
\* launches and writes of other users interleave - with one account between two launches,
\* and unless the read that answered last has failed.
THEOREM CurrentUserAlwaysSignedIn == Spec => []CurrentUserIsSignedIn
<1>1. IInv => CurrentUserIsSignedIn
  BY Implied
<1> QED
  BY <1>1, IInvariant, PTL
=============================================================================

------------------------------- MODULE Session ------------------------------
(***************************************************************************)
(* Who is signed in on a device and whom the global currentUser describes  *)
(* (LoginViewController, SignUpViewController, TabBarViewController, the   *)
(* log out button of SettingsViewController).  Snapshot listeners are      *)
(* added at every sign-in and never removed; each change they see fetches  *)
(* the document they listen to into currentUser; the login page and the    *)
(* tabs listen to the same document and do the same with it.               *)
(*                                                                         *)
(* Firebase Auth and Firestore are external: a callback may run at any     *)
(* time after the call, a read answers with the present document, and the  *)
(* server may end the listeners of a device nobody is signed in on.        *)
(***************************************************************************)
EXTENDS Naturals, FiniteSets

CONSTANTS Accounts,
          Nobody,
          MaxSteps    \* bound on what users do, on this device and elsewhere

ASSUME SessionAssumption == /\ Nobody \notin Accounts
                            /\ MaxSteps \in Nat

VARIABLES registered,  \* accounts Firebase Auth knows
          version,     \* of the document users/{uid}; 0: there is none
          auth,        \* Auth.auth().currentUser
          screen,      \* the login page or the tabs
          me,          \* currentUser: whose document, and which version of it
          listening,   \* accounts whose document this process listens to
          heard,       \* the version each listener reported last
          calls,       \* Auth calls and reads whose callback has not run
          last,        \* history: the account last signed in since the launch,
          switched,    \* whether a second one was used since, or one while it
                       \* was being created,
          cutOff,      \* accounts whose sign-up the end of the app cut off,
          unread,      \* whether the read that answered last has failed
          steps

past == <<last, switched, cutOff, unread>>
vars == <<registered, version, auth, screen, me, listening, heard, calls, past, steps>>

Versions == 0..(MaxSteps + 1)
Unheard == MaxSteps + 2
NoUser == [account |-> Nobody, version |-> 0]

TypeOK ==
  /\ registered \in SUBSET Accounts
  /\ version \in [Accounts -> Versions]
  /\ auth \in Accounts \cup {Nobody} /\ last \in Accounts \cup {Nobody}
  /\ screen \in {"login", "tabs"}
  /\ me \in [account : Accounts \cup {Nobody}, version : Versions]
  /\ listening \in SUBSET Accounts
  /\ heard \in [Accounts -> Versions \cup {Unheard}]
  /\ calls \in SUBSET [op : {"signIn", "create", "created", "fetch"}, account : Accounts]
  /\ switched \in BOOLEAN /\ unread \in BOOLEAN /\ cutOff \in SUBSET Accounts
  /\ steps \in 0..MaxSteps

Step == steps < MaxSteps /\ steps' = steps + 1

Call(op, a) == [op |-> op, account |-> a]

\* Some accounts are registered and have a profile.
Init == /\ registered \in SUBSET Accounts
        /\ version = [a \in Accounts |-> IF a \in registered THEN 1 ELSE 0]
        /\ auth = Nobody /\ screen = "login" /\ me = NoUser
        /\ listening = {} /\ heard = [a \in Accounts |-> Unheard]
        /\ calls = {} /\ steps = 0
        /\ last = Nobody /\ switched = FALSE /\ cutOff = {} /\ unread = FALSE

-----------------------------------------------------------------------------
SigningUp == {k.account : k \in {c \in calls : c.op \in {"create", "created"}}}

\* The login page is used, for the first time since the launch or again.
Used(a) == /\ last' = a
           /\ switched' = (switched \/ last \notin {a, Nobody} \/ SigningUp # {})
           /\ UNCHANGED <<cutOff, unread>>

loginButtonPressed(a) ==
  /\ screen = "login" /\ a \in registered
  /\ Step
  /\ Used(a)
  /\ calls' = calls \cup {Call("signIn", a)}
  /\ UNCHANGED <<registered, version, auth, screen, me, listening, heard>>

\* The username is free (module Accounts): createUser.
signUpButtonPressed(a) ==
  /\ screen = "login" /\ a \notin registered
  /\ Step
  /\ Used(a)
  /\ calls' = calls \cup {Call("create", a)}
  /\ UNCHANGED <<registered, version, auth, screen, me, listening, heard>>

\* Mutant: the tabs are shown and nothing listens.
ListensNowhere(a) == listening

Listens(a) == listening \cup {a}

\* The tabs are shown; a listener reports the document as it is.
Enter(a) == /\ auth' = a
            /\ screen' = "tabs"
            /\ listening' = Listens(a)
            /\ heard' = [heard EXCEPT ![a] = Unheard]

SignedIn(k) ==
  /\ k.op = "signIn"
  /\ Enter(k.account)
  /\ calls' = calls \ {k}
  /\ UNCHANGED <<registered, version, me, past, steps>>

SignInFailed(k) ==
  /\ k.op \in {"signIn", "create"}
  /\ calls' = calls \ {k}
  /\ UNCHANGED <<registered, version, auth, screen, me, listening, heard, past, steps>>

\* Firebase has the account; its answer is on the way.
AccountCreated(k) ==
  /\ k.op = "create"
  /\ registered' = registered \cup {k.account}
  /\ calls' = (calls \ {k}) \cup {Call("created", k.account)}
  /\ UNCHANGED <<version, auth, screen, me, listening, heard, past, steps>>

\* Mutant: newUser is set and never written.
NotWritten(a) == version

addUserToFirestore(a) == [version EXCEPT ![a] = 1]

\* createUser's callback: addUserToFirestore, fetchUser, the tabs.
SignUpDone(k) ==
  /\ k.op = "created"
  /\ version' = addUserToFirestore(k.account)
  /\ Enter(k.account)
  /\ calls' = (calls \ {k}) \cup {Call("fetch", k.account)}
  /\ UNCHANGED <<registered, me, past, steps>>

\* A listener reports a change and asks for the document.
ListenerFired(a) ==
  /\ a \in listening /\ heard[a] # version[a]
  /\ heard' = [heard EXCEPT ![a] = version[a]]
  /\ calls' = calls \cup {Call("fetch", a)}
  /\ UNCHANGED <<registered, version, auth, screen, me, listening, past, steps>>

\* Mutant: a fetch does not touch a currentUser that is set.
FetchedOnce(a) == IF me = NoUser THEN [account |-> a, version |-> version[a]] ELSE me

Fetched(a) == [account |-> a, version |-> version[a]]

UserFetched(k) ==
  /\ k.op = "fetch"
  /\ version[k.account] # 0
  /\ me' = Fetched(k.account)
  /\ unread' = FALSE
  /\ calls' = calls \ {k}
  /\ UNCHANGED <<registered, version, auth, screen, listening, heard, last, switched, cutOff, steps>>

logOutButtonPressed ==
  /\ screen = "tabs"
  /\ Step
  /\ auth' = Nobody
  /\ screen' = "login"
  /\ UNCHANGED <<registered, version, me, listening, heard, calls, past>>

\* The process ends; the login page signs out when it is loaded.
Ended == /\ auth' = Nobody /\ screen' = "login" /\ me' = NoUser
         /\ listening' = {} /\ heard' = [a \in Accounts |-> Unheard]
         /\ calls' = {} /\ last' = Nobody /\ switched' = FALSE /\ unread' = FALSE
         /\ cutOff' = cutOff \cup SigningUp
         /\ UNCHANGED <<registered, version>>

\* "(currentUser?.requests.count)!" of an account without a document.
NilProfile(k) == k.op = "fetch" /\ version[k.account] = 0 /\ Ended /\ UNCHANGED steps

\* fetchUser answers nil for a read that failed, too: the callbacks of the login page
\* and of a sign-up clear currentUser, the one of the tabs unwraps it.
ReadFailed(k) ==
  /\ k.op = "fetch"
  /\ \/ /\ me' = NoUser
        /\ unread' = TRUE
        /\ calls' = calls \ {k}
        /\ UNCHANGED <<registered, version, auth, screen, listening, heard, last, switched, cutOff>>
     \/ Ended
  /\ UNCHANGED steps

Killed == Step /\ Ended

-----------------------------------------------------------------------------
\* Somebody follows the user, asks to, accepts, ...: the document changes.
OthersWrite(a) ==
  /\ version[a] # 0
  /\ Step
  /\ version' = [version EXCEPT ![a] = @ + 1]
  /\ UNCHANGED <<registered, auth, screen, me, listening, heard, calls, past>>

ListenerEnded(a) ==
  /\ auth = Nobody /\ a \in listening
  /\ listening' = listening \ {a}
  /\ UNCHANGED <<registered, version, auth, screen, me, heard, calls, past, steps>>

Callback(k) == SignedIn(k) \/ AccountCreated(k) \/ SignUpDone(k) \/ UserFetched(k) \/ NilProfile(k)

Next == \/ logOutButtonPressed \/ Killed
        \/ \E a \in Accounts : \/ loginButtonPressed(a) \/ signUpButtonPressed(a)
                               \/ OthersWrite(a) \/ ListenerFired(a) \/ ListenerEnded(a)
        \/ \E k \in calls : Callback(k) \/ SignInFailed(k) \/ ReadFailed(k)

Spec == Init /\ [][Next]_vars

\* Firebase answers and listeners report; users owe nothing.
FairSpec == /\ Spec
            /\ WF_vars(\E k \in calls : Callback(k))
            /\ \A a \in Accounts : WF_vars(ListenerFired(a))

-----------------------------------------------------------------------------
Settled == calls = {} /\ \A a \in listening : heard[a] = version[a]

\* "we can fetch current user and start up app" (LoginViewController:62): in a
\* settled app currentUser, whose lists every button rewrites, is the user who
\* is signed in, as long as one account is used between two launches; the read that
\* answered last has not failed.
CurrentUserIsSignedIn ==
  Settled /\ screen = "tabs" /\ ~switched /\ ~unread => me.account = auth

\* "(currentUser?.requests.count)!" (TabBarViewController:25): the document that
\* is fetched for the tabs exists, unless the end of the app cut a sign-up off.
ProfileExists ==
  \A k \in calls : k.op = "fetch" /\ ~switched => version[k.account] # 0 \/ k.account \in cutOff

\* currentUser is a version of a document somebody wrote, and the document that is
\* fetched exists (LoginViewController:45-76, SignUpViewController:55-77).
SessionInv == TypeOK /\ ProfileExists

\* When users stop, currentUser comes to be the newest document of the user who
\* is signed in, through sign-ins, log-outs and relaunches, unless the last read fails.
CurrentUserConverges ==
  <>[](screen = "tabs" /\ ~switched /\ ~unread
         => me = [account |-> auth, version |-> version[auth]])
=============================================================================

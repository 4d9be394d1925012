------------------------------ MODULE Accounts ------------------------------
(***************************************************************************)
(* What users decide about their accounts: the username of a sign-up       *)
(* (SignUpViewController) and the pages of the settings that change        *)
(* username, bio, email and password (EditAccountSettingsViewController,   *)
(* EditPasswordViewController, SettingsViewController).  Each user has one *)
(* device.  Username and bio are fields of users/{uid}, email and password *)
(* belong to Firebase Auth, which is external like Firestore: calls are    *)
(* answered later, or fail; the writes of a device arrive in order, and    *)
(* its own reads see them before they arrive.                              *)
(***************************************************************************)
EXTENDS Naturals, FiniteSets, SequencesExt

CONSTANTS Users,
          Texts,          \* what may be typed,
          Empty,          \* besides nothing
          MaxSteps        \* bound on visits of pages, sign-ups and whatever users do
                          \* before an answer has come

ASSUME AccountsAssumption == /\ Empty \notin Texts /\ MaxSteps \in Nat

VARIABLES registered, \* users Firebase Auth knows
          profiles,   \* users whose document exists
          stored,     \* username, bio, email and password on the servers
          page,       \* the page on each user's screen
          userData,   \* what the settings page read last
          calls,      \* queries, reads and Auth calls that have not been answered
          writes,     \* each device's writes that have not arrived
          visits,
          hasty,      \* history: what users did before their answer had come,
          crossed,    \* whether two users were after a username at once,
          failed      \* whether a query has failed

past == <<hasty, crossed, failed>>
servers == <<registered, profiles, stored>>
vars == <<servers, page, userData, calls, writes, visits, past>>

Typed == Texts \cup {Empty}
Settings == {"Username", "Bio", "Email", "Password"}

\* at: the page; field and area: its text field and the bio's text view.
Pages == [at : Settings \cup {"signUp", "settings"}, field : Typed, area : Typed,
          status : {"idle", "waiting", "alert"}]

\* here: the page that made the call is still on the screen.  text: what the call
\* is about; other: the password typed, or the text field of a page that is gone.
Calls == [op : {"signUpQuery", "createUser", "editQuery", "updateEmail",
                "reauthForPassword", "updatePassword", "loadUserData"},
          user : Users, text : Typed, other : Typed, here : BOOLEAN]
Writes == [name : {"profile", "Username", "Bio"}, text : Typed, here : BOOLEAN]

TypeOK ==
  /\ profiles \in SUBSET Users /\ registered \in SUBSET Users
  /\ stored \in [Users -> [Settings -> Typed]]
  /\ page \in [Users -> Pages]
  /\ userData \in [Users -> [Settings -> Typed]]
  /\ calls \in SUBSET Calls
  /\ \A u \in Users : writes[u] \in Seq(Writes)
  /\ visits \in 0..MaxSteps /\ hasty \in 0..MaxSteps
  /\ crossed \in BOOLEAN /\ failed \in BOOLEAN

Page(at, text) == [at |-> at, field |-> text, status |-> "idle",
                   area |-> IF at = "Bio" THEN text ELSE Empty]

\* Some users have accounts, with usernames and emails of their own.
Init ==
  \E name \in [Users -> Texts] :
    /\ \A u, w \in Users : u # w => name[u] # name[w]
    /\ registered \in SUBSET Users /\ profiles = registered
    /\ stored = [u \in Users |-> [n \in Settings |-> IF u \in registered THEN name[u] ELSE Empty]]
    /\ page = [u \in Users |-> Page(IF u \in registered THEN "settings" ELSE "signUp", Empty)]
    /\ userData = [u \in Users |-> [stored[u] EXCEPT !["Password"] = Empty]]
    /\ calls = {} /\ writes = [u \in Users |-> <<>>]
    /\ visits = 0 /\ hasty = 0 /\ crossed = FALSE /\ failed = FALSE

-----------------------------------------------------------------------------
Busy(u) == \/ page[u].status = "waiting" \/ writes[u] # <<>>
           \/ \E k \in calls : k.user = u /\ k.op # "loadUserData"

Hurry(u) == /\ hasty' = hasty + (IF Busy(u) THEN 1 ELSE 0)
            /\ hasty' + visits <= MaxSteps

\* A user is after a username from the press until the write has arrived.
Claiming(u) == \/ \E i \in DOMAIN writes[u] : writes[u][i].name # "Bio"
               \/ \E k \in calls : /\ k.user = u
                                   /\ k.op \in {"signUpQuery", "createUser", "editQuery"}

Claim(u) == crossed' = (crossed \/ \E w \in Users \ {u} : Claiming(w))

Visit == hasty + visits < MaxSteps /\ visits' = visits + 1

Call(op, u, t, o) == [op |-> op, user |-> u, text |-> t, other |-> o, here |-> TRUE]

\* Mutant: a page that is refused something says nothing.
NoAlert(u, here) == page

\* An alert of a page that is gone is not presented.
Alert(u, here) == IF here THEN [page EXCEPT ![u].status = "alert"] ELSE page

Answered(k) == calls' = calls \ {k}
Continued(k, op) == calls' = (calls \ {k}) \cup {[k EXCEPT !.op = op]}

\* The page of u goes: its callbacks still read its text field.
LeftBehind(u, k) == IF k.user # u \/ ~k.here THEN k
                    ELSE [k EXCEPT !.here = FALSE,
                                   !.other = IF k.op = "editQuery" THEN page[u].field ELSE @]

Detach(u, some) == {LeftBehind(u, k) : k \in some}
DetachWrites(some) == [i \in DOMAIN some |-> [some[i] EXCEPT !.here = FALSE]]

viewWillAppear(u) == {Call("loadUserData", u, Empty, Empty)}

\* popViewController, which does nothing for a page that is gone.
Pop(u, here, some, queue) ==
  IF here THEN /\ page' = [page EXCEPT ![u] = Page("settings", Empty)]
               /\ calls' = Detach(u, some) \cup viewWillAppear(u)
               /\ writes' = [writes EXCEPT ![u] = DetachWrites(queue)]
          ELSE /\ calls' = some /\ writes' = [writes EXCEPT ![u] = queue]
               /\ UNCHANGED page

\* A device sees its own writes before they arrive.
LastWrite(u, n) ==
  LET about(i) == writes[u][i].name \in {n, "profile"}
      last == CHOOSE i \in DOMAIN writes[u] : about(i) /\ \A j \in DOMAIN writes[u] : about(j) => j <= i
  IN  IF \E i \in DOMAIN writes[u] : about(i) THEN writes[u][last].text ELSE stored[u][n]

\* Mutant: the documents of the answer are not looked at.
NobodyHas(u, t) == FALSE

\* whereField("username", isEqualTo: t), asked by u
UsernameExists(u, t) == \/ LastWrite(u, "Username") = t
                        \/ \E w \in profiles \ {u} : stored[w]["Username"] = t

-----------------------------------------------------------------------------
\* Sign-up.  The three texts are kept for the callbacks.
signUpButtonPressed(u, t) ==
  /\ page[u].at = "signUp"
  /\ Visit /\ Hurry(u)
  /\ UNCHANGED <<servers, userData, failed>>
  /\ IF t = Empty
     THEN page' = Alert(u, TRUE) /\ UNCHANGED <<calls, writes, crossed>>
     ELSE /\ page' = [page EXCEPT ![u].status = "waiting"]
          /\ calls' = calls \cup {Call("signUpQuery", u, t, Empty)}
          /\ Claim(u)
          /\ UNCHANGED writes

SignUpQueried(k) ==
  /\ k.op = "signUpQuery"
  /\ IF UsernameExists(k.user, k.text) THEN page' = Alert(k.user, k.here) /\ Answered(k)
                               ELSE Continued(k, "createUser") /\ UNCHANGED page
  /\ UNCHANGED <<servers, userData, writes, visits, past>>

\* "Document Error" is printed and that is all, on both pages.
QueryFailed(k) ==
  /\ k.op \in {"signUpQuery", "editQuery"}
  /\ Answered(k)
  /\ failed' = TRUE
  /\ UNCHANGED <<servers, page, userData, writes, visits, hasty, crossed>>

\* createUser has succeeded: the profile is queued and the sign-up page dismissed.
UserCreated(k) ==
  /\ k.op = "createUser" /\ k.user \notin registered
  /\ registered' = registered \cup {k.user}
  /\ \E e \in Texts \ {stored[u]["Email"] : u \in registered}, p \in Texts :
       stored' = [stored EXCEPT ![k.user]["Email"] = e, ![k.user]["Password"] = p]
  /\ page' = [page EXCEPT ![k.user] = Page("settings", Empty)]
  /\ calls' = Detach(k.user, calls \ {k}) \cup viewWillAppear(k.user)
  /\ writes' = [writes EXCEPT ![k.user] = <<[name |-> "profile", text |-> k.text, here |-> FALSE]>>]
  /\ UNCHANGED <<profiles, userData, visits, past>>

UserNotCreated(k) ==
  /\ k.op = "createUser"
  /\ page' = Alert(k.user, k.here)
  /\ Answered(k)
  /\ UNCHANGED <<servers, userData, writes, visits, past>>

-----------------------------------------------------------------------------

\* The settings page: document.data() and user.email.
LoadedData(u) == [n \in Settings |-> IF n \in {"Username", "Bio"} THEN LastWrite(u, n)
                                     ELSE IF n = "Email" THEN stored[u][n] ELSE Empty]

UserDataLoaded(k) ==
  /\ k.op = "loadUserData"
  /\ userData' = [userData EXCEPT ![k.user] = LoadedData(k.user)]
  /\ Answered(k)
  /\ UNCHANGED <<servers, page, writes, visits, past>>

UserDataNotLoaded(k) ==
  /\ k.op = "loadUserData"
  /\ Answered(k)
  /\ failed' = TRUE
  /\ UNCHANGED <<servers, page, userData, writes, visits, hasty, crossed>>

\* The new text: only the text view is visible for the bio, only the text field
\* otherwise.
With(p, t) == IF p.at = "Bio" THEN [p EXCEPT !.area = t] ELSE [p EXCEPT !.field = t]

\* prepare(for:) hands the row's text to the page; what is typed before done is
\* pressed is part of this step.
OpenSetting(u, n, t) ==
  /\ page[u].at = "settings"
  /\ Visit
  /\ page' = [page EXCEPT ![u] = With(Page(n, userData[u][n]), t)]
  /\ UNCHANGED <<servers, userData, calls, writes, past>>

\* Typing on while a call is under way.
Type(u, t) ==
  /\ page[u].at \in Settings /\ Busy(u)
  /\ Hurry(u)
  /\ page' = [page EXCEPT ![u] = With(@, t)]
  /\ UNCHANGED <<servers, userData, calls, writes, visits, crossed, failed>>

backButtonPressed(u) ==
  /\ page[u].at \in Settings
  /\ Hurry(u)
  /\ Pop(u, TRUE, calls, writes[u])
  /\ UNCHANGED <<servers, userData, visits, crossed, failed>>

-----------------------------------------------------------------------------
Wait(u) == page' = [page EXCEPT ![u].status = "waiting"]

\* The text field must not be empty, also where the bio's text view is shown.
doneButtonPressed(u) ==
  /\ page[u].at \in {"Username", "Bio", "Email"}
  /\ Hurry(u)
  /\ UNCHANGED <<servers, userData, visits, failed>>
  /\ IF page[u].field = Empty
     THEN page' = Alert(u, TRUE) /\ UNCHANGED <<calls, writes, crossed>>
     ELSE /\ Wait(u)
          /\ CASE page[u].at = "Username" ->
                    /\ calls' = calls \cup {Call("editQuery", u, page[u].field, Empty)}
                    /\ Claim(u) /\ UNCHANGED writes
               [] page[u].at = "Bio" ->
                    /\ writes' = [writes EXCEPT ![u] = Append(@, [name |-> "Bio", here |-> TRUE,
                                                                 text |-> page[u].area])]
                    /\ UNCHANGED <<calls, crossed>>
               [] page[u].at = "Email" ->
                    /\ calls' = calls \cup {Call("updateEmail", u, page[u].field, Empty)}
                    /\ UNCHANGED <<writes, crossed>>

\* changeSettingInFirestore reads the text field again.
EditQueried(k) ==
  /\ k.op = "editQuery"
  /\ Answered(k)
  /\ IF UsernameExists(k.user, k.text) THEN page' = Alert(k.user, k.here) /\ UNCHANGED writes
     ELSE LET value == IF k.here THEN page[k.user].field ELSE k.other
          IN  /\ writes' = [writes EXCEPT ![k.user] =
                              Append(@, [name |-> "Username", text |-> value, here |-> k.here])]
              /\ UNCHANGED page
  /\ UNCHANGED <<servers, userData, visits, past>>

\* Mutant: a username is stored and the bio is not.
UsernameOnly(w) == IF w.name = "profile" THEN {"Username", "Bio"} ELSE {"Username"} \cap {w.name}

\* "setting.lowercased(): value" with merge, or addUserToFirestore's whole document.
FieldsOf(w) == IF w.name = "profile" THEN {"Username", "Bio"} ELSE {w.name}

WriteArrived(u) ==
  /\ writes[u] # <<>>
  /\ LET w == Head(writes[u])
     IN  /\ stored' = [stored EXCEPT ![u] = [n \in Settings |-> IF n \in FieldsOf(w) THEN w.text
                                                                ELSE @[n]]]
         /\ profiles' = profiles \cup {u}
         /\ Pop(u, w.here, calls, Tail(writes[u]))
  /\ UNCHANGED <<registered, userData, visits, past>>

WriteRefused(u) ==
  /\ writes[u] # <<>> /\ Head(writes[u]).name # "profile"
  /\ page' = Alert(u, Head(writes[u]).here)
  /\ writes' = [writes EXCEPT ![u] = Tail(@)]
  /\ UNCHANGED <<servers, userData, calls, visits, past>>

-----------------------------------------------------------------------------
EmailUpdated(k) ==
  /\ k.op = "updateEmail"
  /\ \A u \in registered \ {k.user} : stored[u]["Email"] # k.text
  /\ stored' = [stored EXCEPT ![k.user]["Email"] = k.text]
  /\ Pop(k.user, k.here, calls \ {k}, writes[k.user])
  /\ UNCHANGED <<registered, profiles, userData, visits, past>>

\* A sign-in too old for a change of the email ends here too: FIRAuthErrorUtils calls
\* that error ERROR_REQUIRES_RECENT_LOGIN, and the page compares with another name.
AuthRefused(k) ==
  /\ k.op \in {"updateEmail", "reauthForPassword", "updatePassword"}
  /\ page' = Alert(k.user, k.here)
  /\ Answered(k)
  /\ UNCHANGED <<servers, userData, writes, visits, past>>

\* EditPasswordViewController: the three texts are kept for the callbacks.
passwordDoneButtonPressed(u, current) ==
  /\ page[u].at = "Password"
  /\ Hurry(u)
  /\ UNCHANGED <<servers, userData, visits, failed>>
  /\ Wait(u)
  /\ calls' = calls \cup {Call("reauthForPassword", u, page[u].field, current)}
  /\ UNCHANGED <<writes, crossed>>

\* Mutant: whoever holds the device may go on.
AnyPassword(k) == TRUE

PasswordIsRight(k) == k.other = stored[k.user]["Password"]

\* The new password has been typed the same way twice, or there is an alert.
ReauthenticatedForPassword(k) ==
  /\ k.op = "reauthForPassword"
  /\ PasswordIsRight(k)
  /\ \/ Continued(k, "updatePassword") /\ UNCHANGED page
     \/ Answered(k) /\ page' = Alert(k.user, k.here)
  /\ UNCHANGED <<servers, userData, writes, visits, past>>

PasswordUpdated(k) ==
  /\ k.op = "updatePassword" /\ k.text # Empty
  /\ stored' = [stored EXCEPT ![k.user]["Password"] = k.text]
  /\ Pop(k.user, k.here, calls \ {k}, writes[k.user])
  /\ UNCHANGED <<registered, profiles, userData, visits, past>>

-----------------------------------------------------------------------------
Answer(k) == \/ SignUpQueried(k) \/ UserCreated(k) \/ UserNotCreated(k) \/ EditQueried(k)
             \/ EmailUpdated(k) \/ ReauthenticatedForPassword(k)
             \/ PasswordUpdated(k) \/ AuthRefused(k) \/ UserDataLoaded(k)

Next == \/ \E u \in Users :
             \/ doneButtonPressed(u) \/ backButtonPressed(u)
             \/ WriteArrived(u) \/ WriteRefused(u)
             \/ \E t \in Typed : \/ signUpButtonPressed(u, t) \/ Type(u, t)
                                 \/ passwordDoneButtonPressed(u, t)
                                 \/ \E n \in Settings : OpenSetting(u, n, t)
        \/ \E k \in calls : Answer(k) \/ QueryFailed(k) \/ UserDataNotLoaded(k)

Spec == Init /\ [][Next]_vars

-----------------------------------------------------------------------------
\* "check for a unique username" (SignUpViewController:38): queries and later writes
\* of several devices keep usernames apart, as long as nobody is after a username
\* while another is, and the text that was checked is the text that is written.
UsernamesUnique ==
  hasty = 0 /\ ~crossed
    => \A u, w \in profiles : u # w => stored[u]["Username"] # stored[w]["Username"]

\* Pages, documents and queued writes keep their types, and usernames are unique.
AccountsInv == TypeOK /\ UsernamesUnique

TypedText(p) == IF p.at = "Bio" THEN p.area ELSE p.field

\* A page closes by itself only when what it shows is stored, whichever of the
\* chains of callbacks has ended ("sucessfully updated!", "succesfully updated!",
\* EditAccountSettingsViewController:106, EditPasswordViewController:53), for users who
\* do not type on while they wait.
ClosesWhenStored ==
  [][\A u \in Users :
       LET p == page[u]
       IN  /\ p.status = "waiting" /\ p.at \in Settings /\ page'[u].at = "settings"
           /\ hasty' = 0
           => stored'[u][p.at] = TypedText(p)]_vars

\* What a step may do to the password of somebody who waits for each answer.
ReplacedByOwner ==
  \A u \in registered :
    stored'[u]["Password"] # stored[u]["Password"] /\ hasty = 0
      => \E k \in calls : /\ k.user = u /\ k.text = stored'[u]["Password"]
                          /\ k.other = stored[u]["Password"]
                          /\ k \notin calls'

\* "reauthenticate user before changing password" (EditPasswordViewController:38): a
\* password is replaced by what was typed only for somebody who typed the old one,
\* although two calls and a comparison lie between; done is pressed once at a time.
PasswordOnlyByOwner == [][ReplacedByOwner]_vars

\* u waits, and an answer is on its way to the page.
Owed(u) ==
  page[u].status = "waiting" /\ ~failed
    => \/ \E i \in DOMAIN writes[u] : writes[u][i].here
       \/ \E k \in calls : k.user = u /\ k.here /\ k.op # "loadUserData"

\* No way through the callbacks drops the user: whoever waits after done or sign up
\* is owed an answer, and each answer closes the page, shows an alert or asks on;
\* only a query that fails ends the chain without a word.
DoneAnswers == \A u \in Users : Owed(u)
=============================================================================

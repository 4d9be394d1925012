--------------------------- MODULE AccountsProofs ---------------------------
(***************************************************************************)
(* Usernames stay unique although they are checked by a query and written  *)
(* by callbacks later, as long as nobody is after a username while another *)
(* is and everybody waits for the answers - for any number of users, texts *)
(* and visits.                                                             *)
(*                                                                         *)
(* The promise says nothing of names that have been checked and not been   *)
(* written.  FreshNames says that those are not taken; for it to last, one *)
(* user only may be after a name (OneClaim), with one call or one write    *)
(* (Alone), the text field must still hold what was checked (Checked), and *)
(* a document must not come into being by the write of a bio (Profiled).   *)
(***************************************************************************)
EXTENDS Accounts, WellFoundedInduction, TLAPS

Typed2 == TypeOK /\ writes \in [Users -> Seq(Writes)]

\* A call that an answer is waited for.
Waits(k, u) == k.user = u /\ k.op # "loadUserData"

\* Who has no account is on the sign-up page.
Member(u) ==
  u \notin registered => /\ page[u].at = "signUp" /\ writes[u] = <<>>
                         /\ \A k \in calls : k.user = u => k.op \in {"signUpQuery", "createUser"}

\* One call or one write at a time.
Alone(u) ==
  /\ Len(writes[u]) <= 1
  /\ \A k \in calls : Waits(k, u) => writes[u] = <<>> /\ \A j \in calls : Waits(j, u) => j = k

\* The text that is checked is the text that will be written.
Checked(u) ==
  \A k \in calls : k.user = u /\ k.op = "editQuery"
    => k.here /\ page[u].at = "Username" /\ page[u].field = k.text

\* The document of an account is there, or on its way.
Profiled(u) ==
  /\ u \in registered => u \in profiles \/ (writes[u] # <<>> /\ writes[u][1].name = "profile")
  /\ writes[u] # <<>> /\ writes[u][1].name = "Bio" => u \in profiles

Own(u) == Member(u) /\ (hasty = 0 => Alone(u) /\ Checked(u) /\ Profiled(u))

OneClaim == ~crossed => \A u, w \in Users : Claiming(u) /\ Claiming(w) => u = w

\* u has had t checked and has not written it yet.
Bound(u, t) == \/ \E k \in calls : k.user = u /\ k.op = "createUser" /\ k.text = t
               \/ \E i \in DOMAIN writes[u] : writes[u][i].name # "Bio" /\ writes[u][i].text = t

Taken(t, u) == \E w \in profiles \ {u} : stored[w]["Username"] = t

FreshNames ==
  hasty = 0 /\ ~crossed => \A u \in Users, t \in Typed : Bound(u, t) => ~Taken(t, u)

IInv == Typed2 /\ (\A u \in Users : Own(u)) /\ OneClaim /\ FreshNames /\ UsernamesUnique

-----------------------------------------------------------------------------
(* Calls, pages and queues.                                                *)

LEMMA CallParts ==
  ASSUME Typed2, NEW k \in calls
  PROVE  k \in Calls /\ k.user \in Users /\ k.text \in Typed /\ k.other \in Typed /\ k.here \in BOOLEAN
BY DEF Typed2, TypeOK, Calls

LEMMA CallMade ==
  ASSUME NEW op \in {"signUpQuery", "createUser", "editQuery", "updateEmail",
                     "reauthForPassword", "updatePassword", "loadUserData"},
         NEW u \in Users, NEW t \in Typed, NEW o \in Typed
  PROVE  LET k == Call(op, u, t, o)
         IN  k \in Calls /\ k.op = op /\ k.user = u /\ k.text = t /\ k.other = o /\ k.here
BY DEF Call, Calls

LEMMA CallContinues ==
  ASSUME NEW k \in Calls,
         NEW op \in {"createUser", "updatePassword"}
  PROVE  LET j == [k EXCEPT !.op = op]
         IN  /\ j \in Calls /\ j.op = op /\ j.user = k.user /\ j.text = k.text
             /\ j.other = k.other /\ j.here = k.here
BY DEF Calls

\* What a call is about survives its page.
LEMMA Detached ==
  ASSUME Typed2, NEW u \in Users, NEW some \in SUBSET calls
  PROVE  /\ Detach(u, some) \subseteq Calls
         /\ \A j \in Detach(u, some) : \E k \in some :
              j.op = k.op /\ j.user = k.user /\ j.text = k.text /\ (k.user # u => j = k)
         /\ \A k \in some : k.user # u => k \in Detach(u, some)
<1>1. ASSUME NEW k \in some
      PROVE  LET j == LeftBehind(u, k)
             IN  /\ j \in Calls /\ j.op = k.op /\ j.user = k.user /\ j.text = k.text
                 /\ k.user # u => j = k
  <2>1. k \in Calls
    BY CallParts
  <2>2. page[u].field \in Typed
    BY DEF Typed2, TypeOK, Pages
  <2>3. CASE k.user # u \/ ~k.here
    BY <2>1, <2>3 DEF LeftBehind
  <2>4. CASE ~(k.user # u \/ ~k.here)
    <3> DEFINE o == IF k.op = "editQuery" THEN page[u].field ELSE k.other
    <3>1. o \in Typed
      BY <2>1, <2>2 DEF Calls
    <3>2. LeftBehind(u, k) = [k EXCEPT !.here = FALSE, !.other = o]
      BY <2>1, <2>4 DEF LeftBehind
    <3> HIDE DEF o
    <3> QED
      BY <2>1, <2>4, <3>1, <3>2 DEF Calls
  <2> QED
    BY <2>3, <2>4
<1> QED
  BY <1>1 DEF Detach

LEMMA DetachedWrites ==
  ASSUME NEW q \in Seq(Writes)
  PROVE  /\ DetachWrites(q) \in Seq(Writes) /\ Len(DetachWrites(q)) = Len(q)
         /\ \A i \in 1..Len(q) : DetachWrites(q)[i].name = q[i].name /\ DetachWrites(q)[i].text = q[i].text
<1>1. \A i \in 1..Len(q) : /\ [q[i] EXCEPT !.here = FALSE] \in Writes
                           /\ [q[i] EXCEPT !.here = FALSE].name = q[i].name
                           /\ [q[i] EXCEPT !.here = FALSE].text = q[i].text
  <2> TAKE i \in 1..Len(q)
  <2>1. q[i] \in Writes
    OBVIOUS
  <2> QED
    BY <2>1 DEF Writes
<1> DEFINE d == DetachWrites(q)
<1>0. DOMAIN q = 1..Len(q)
  OBVIOUS
<1>2. DOMAIN d = 1..Len(q) /\ \A i \in 1..Len(q) : d[i] = [q[i] EXCEPT !.here = FALSE]
  BY <1>0, Zenon DEF DetachWrites
<1>3. d = [i \in 1..Len(q) |-> d[i]]
  BY <1>0, Zenon DEF DetachWrites
<1> HIDE DEF d
<1>4. d \in [1..Len(q) -> Writes]
  BY <1>1, <1>2, <1>3
<1>5. d \in Seq(Writes) /\ Len(d) = Len(q)
  BY <1>4
<1> QED
  BY <1>1, <1>2, <1>5 DEF d

LEMMA PageMade ==
  ASSUME NEW at \in Settings \cup {"signUp", "settings"}, NEW t \in Typed
  PROVE  Page(at, t) \in Pages /\ Page(at, t).at = at
BY DEF Page, Pages, Typed

\* An alert changes neither what page it is nor what it shows.
LEMMA Alerted ==
  ASSUME Typed2, NEW u \in Users, NEW here, page' = Alert(u, here) \/ page' = page \/ Wait(u)
  PROVE  /\ page' \in [Users -> Pages]
         /\ \A w \in Users : page'[w].at = page[w].at /\ page'[w].field = page[w].field
<1> DEFINE p(s) == [page EXCEPT ![u].status = s]
<1>1. \A s \in {"alert", "waiting"} :
        /\ p(s) \in [Users -> Pages]
        /\ \A w \in Users : p(s)[w].at = page[w].at /\ p(s)[w].field = page[w].field
  BY DEF Typed2, TypeOK, Pages
<1>2. page' = page \/ page' = p("alert") \/ page' = p("waiting")
  BY DEF Alert, Wait
<1> QED
  BY <1>1, <1>2 DEF Typed2, TypeOK

LEMMA Popped ==
  ASSUME Typed2, NEW u \in Users, NEW here \in BOOLEAN, NEW some \in SUBSET calls,
         NEW q \in Seq(Writes), Pop(u, here, some, q)
  PROVE  /\ page' \in [Users -> Pages] /\ calls' \subseteq Calls /\ writes' \in [Users -> Seq(Writes)]
         /\ \A w \in Users \ {u} : page'[w] = page[w] /\ writes'[w] = writes[w]
         /\ writes'[u] \in {q, DetachWrites(q)}
         /\ \A j \in calls' : \/ j.op = "loadUserData" /\ j.user = u
                              \/ \E k \in some : /\ j.op = k.op /\ j.user = k.user /\ j.text = k.text
                                                 /\ k.user # u => j = k
         /\ page'[u].at = "settings" \/ page' = page
<1>1. CASE here
  <2>1. /\ page' = [page EXCEPT ![u] = Page("settings", Empty)]
        /\ calls' = Detach(u, some) \cup viewWillAppear(u)
        /\ writes' = [writes EXCEPT ![u] = DetachWrites(q)]
    BY <1>1 DEF Pop
  <2>2. Page("settings", Empty) \in Pages /\ Page("settings", Empty).at = "settings"
    BY PageMade DEF Typed
  <2>3. page' \in [Users -> Pages] /\ page'[u].at = "settings" /\ \A w \in Users \ {u} : page'[w] = page[w]
    BY <2>1, <2>2 DEF Typed2, TypeOK
  <2>4. /\ DetachWrites(q) \in Seq(Writes) /\ Len(DetachWrites(q)) = Len(q)
        /\ \A i \in 1..Len(q) : DetachWrites(q)[i].name = q[i].name /\ DetachWrites(q)[i].text = q[i].text
    BY DetachedWrites
  <2>5. /\ writes' \in [Users -> Seq(Writes)] /\ writes'[u] = DetachWrites(q)
        /\ \A w \in Users \ {u} : writes'[w] = writes[w]
    BY <2>1, <2>4 DEF Typed2
  <2>6. \A j \in viewWillAppear(u) : j \in Calls /\ j.op = "loadUserData" /\ j.user = u
    BY CallMade DEF viewWillAppear, Typed
  <2>7. /\ Detach(u, some) \subseteq Calls
        /\ \A j \in Detach(u, some) : \E k \in some :
             j.op = k.op /\ j.user = k.user /\ j.text = k.text /\ (k.user # u => j = k)
    BY Detached
  <2> QED
    BY <2>1, <2>3, <2>4, <2>5, <2>6, <2>7
<1>2. CASE ~here
  <2>1. page' = page /\ calls' = some /\ writes' = [writes EXCEPT ![u] = q]
    BY <1>2 DEF Pop
  <2> QED
    BY <2>1 DEF Typed2, TypeOK
<1> QED
  BY <1>1, <1>2

-----------------------------------------------------------------------------
(* What a step of one user leaves alone.                                   *)

\* A step of u touches no other page, queue or call, and history only grows.
OnlyFor(u) ==
  /\ \A w \in Users \ {u} : page'[w] = page[w] /\ writes'[w] = writes[w]
  /\ \A j \in calls' : j.user # u => j \in calls
  /\ \A w \in Users \ {u} : w \in registered' <=> w \in registered
  /\ profiles \subseteq profiles'
  /\ hasty' = 0 => hasty = 0
  /\ crossed => crossed'

SameNames == profiles' = profiles /\ \A w \in Users : stored'[w]["Username"] = stored[w]["Username"]

LEMMA OthersKeep ==
  ASSUME IInv, NEW u \in Users, OnlyFor(u), NEW w \in Users \ {u}
  PROVE  Own(w)'
<1>1. /\ page'[w] = page[w] /\ writes'[w] = writes[w] /\ (w \in registered' <=> w \in registered)
      /\ \A k \in calls' : k.user = w => k \in calls
      /\ profiles \subseteq profiles' /\ (hasty' = 0 => hasty = 0)
  BY DEF OnlyFor
<1>2. Member(w) /\ (hasty = 0 => Alone(w) /\ Checked(w) /\ Profiled(w))
  BY DEF IInv, Own
<1>3. Member(w)'
  BY <1>1, <1>2 DEF Member
<1>4. ASSUME hasty' = 0
      PROVE  Alone(w)' /\ Checked(w)' /\ Profiled(w)'
  <2>1. Alone(w)'
    BY <1>1, <1>2, <1>4 DEF Alone, Waits
  <2>2. Checked(w)'
    BY <1>1, <1>2, <1>4 DEF Checked
  <2>3. Profiled(w)'
    BY <1>1, <1>2, <1>4 DEF Profiled
  <2> QED
    BY <2>1, <2>2, <2>3
<1> QED
  BY <1>3, <1>4 DEF Own

LEMMA OthersClaims ==
  ASSUME NEW u \in Users, OnlyFor(u), NEW w \in Users \ {u}
  PROVE  /\ Claiming(w)' => Claiming(w)
         /\ \A t : Bound(w, t)' => Bound(w, t)
BY DEF OnlyFor, Claiming, Bound

\* Names are not written: what is bound was bound, or is found free.
LEMMA NamesKeep ==
  ASSUME IInv, NEW u \in Users, OnlyFor(u), SameNames,
         ~crossed' /\ Claiming(u)' => Claiming(u) \/ \A w \in Users \ {u} : ~Claiming(w),
         hasty' = 0 /\ ~crossed' => \A t \in Typed : Bound(u, t)' => Bound(u, t) \/ ~Taken(t, u)
  PROVE  OneClaim' /\ FreshNames' /\ UsernamesUnique'
<1>1. (hasty' = 0 => hasty = 0) /\ (crossed => crossed')
  BY DEF OnlyFor
<1>2. \A w \in Users \ {u} : (Claiming(w)' => Claiming(w)) /\ \A t : Bound(w, t)' => Bound(w, t)
  BY OthersClaims
<1>3. OneClaim'
  BY <1>1, <1>2 DEF IInv, OneClaim
<1>4. \A t, w : w \in Users => (Taken(t, w)' <=> Taken(t, w))
  <2>1. profiles \subseteq Users
    BY DEF IInv, Typed2, TypeOK
  <2> QED
    BY <2>1 DEF SameNames, Taken
<1>5. FreshNames'
  BY <1>1, <1>2, <1>4 DEF IInv, FreshNames
<1>6. UsernamesUnique'
  <2>1. profiles \subseteq Users
    BY DEF IInv, Typed2, TypeOK
  <2> QED
    BY <1>1, <2>1 DEF IInv, UsernamesUnique, SameNames
<1> QED
  BY <1>3, <1>5, <1>6

\* An answer that starts nothing.
LEMMA AnsweredKeeps ==
  ASSUME IInv, NEW k \in calls, Answered(k),
         page' = Alert(k.user, k.here) \/ page' = page,
         UNCHANGED <<registered, profiles, stored, writes, visits, hasty, crossed>>,
         userData' \in [Users -> [Settings -> Typed]], failed' \in BOOLEAN
  PROVE  IInv'
<1>1. calls' = calls \ {k}
  BY DEF Answered
<1>2. k \in Calls /\ k.user \in Users
  BY CallParts DEF IInv
<1>3. /\ page' \in [Users -> Pages]
      /\ \A w \in Users : page'[w].at = page[w].at /\ page'[w].field = page[w].field
  BY <1>2, Alerted DEF IInv
<1>4. Typed2'
  BY <1>1, <1>3 DEF IInv, Typed2, TypeOK
<1>5. ASSUME NEW u \in Users
      PROVE  Own(u)'
  <2>1. Member(u)'
    BY <1>1, <1>3 DEF IInv, Own, Member
  <2>2. hasty = 0 => Alone(u)' /\ Checked(u)' /\ Profiled(u)'
    BY <1>1, <1>3 DEF IInv, Own, Alone, Waits, Checked, Profiled
  <2> QED
    BY <2>1, <2>2 DEF Own
<1>6. \A u \in Users : (Claiming(u)' => Claiming(u)) /\ \A t : Bound(u, t)' => Bound(u, t)
  BY <1>1 DEF Claiming, Bound
<1>7. OneClaim' /\ FreshNames' /\ UsernamesUnique'
  BY <1>6 DEF IInv, OneClaim, FreshNames, UsernamesUnique, Taken
<1> QED
  BY <1>4, <1>5, <1>7 DEF IInv

\* An answer that asks on; a name it binds is free.
LEMMA ContinuedKeeps ==
  ASSUME IInv, NEW k \in calls, NEW op \in {"createUser", "updatePassword"},
         Continued(k, op), k.op # "loadUserData",
         op = "createUser" => k.op = "signUpQuery" /\ ~Taken(k.text, k.user),
         op # "createUser" => k.op = "reauthForPassword",
         UNCHANGED <<registered, profiles, stored, page, userData, writes, visits, hasty, crossed, failed>>
  PROVE  IInv'
<1> DEFINE u == k.user
<1> DEFINE j == [k EXCEPT !.op = op]
<1>1. calls' = (calls \ {k}) \cup {j}
  BY DEF Continued
<1>2. k \in Calls /\ u \in Users
  BY CallParts DEF IInv
<1>3. j \in Calls /\ j.op = op /\ j.user = u /\ j.text = k.text
  BY <1>2, CallContinues
<1> HIDE DEF j, u
<1>4. Typed2'
  BY <1>1, <1>3 DEF IInv, Typed2, TypeOK
<1>5. k.user = u
  BY DEF u
<1>6. OnlyFor(u)
  BY <1>1, <1>3 DEF OnlyFor
<1>7. Own(u)'
  <2>1. Member(u)'
    BY <1>1, <1>2, <1>3, <1>5 DEF IInv, Own, Member
  <2>2. hasty = 0 => Alone(u)'
    BY <1>1, <1>2, <1>3, <1>5 DEF IInv, Own, Alone, Waits
  <2>3. hasty = 0 => Checked(u)' /\ Profiled(u)'
    BY <1>1, <1>2, <1>3 DEF IInv, Own, Checked, Profiled
  <2> QED
    BY <2>1, <2>2, <2>3 DEF Own
<1>8. Claiming(u)' => Claiming(u)
  BY <1>1, <1>3, <1>5 DEF Claiming
<1>9. \A t \in Typed : Bound(u, t)' => Bound(u, t) \/ ~Taken(t, u)
  BY <1>1, <1>3, <1>5 DEF Bound
<1>10. OneClaim' /\ FreshNames' /\ UsernamesUnique'
  BY <1>2, <1>6, <1>8, <1>9, NamesKeep DEF SameNames
<1> QED
  BY <1>2, <1>4, <1>6, <1>7, <1>10, OthersKeep DEF IInv

\* What a press does to history.
LEMMA Hurried ==
  ASSUME Typed2, NEW u \in Users, Hurry(u), visits' \in 0..MaxSteps
  PROVE  /\ hasty' \in 0..MaxSteps /\ (hasty' = 0 => hasty = 0)
         /\ hasty' = 0 => writes[u] = <<>> /\ \A k \in calls : ~Waits(k, u)
<1>1. hasty \in Nat /\ visits \in Nat /\ MaxSteps \in Nat
  BY AccountsAssumption DEF Typed2, TypeOK
<1>2. hasty' = hasty + (IF Busy(u) THEN 1 ELSE 0) /\ hasty' + visits <= MaxSteps
  BY DEF Hurry
<1>3. CASE Busy(u)
  BY <1>1, <1>2, <1>3
<1>4. CASE ~Busy(u)
  <2>1. writes[u] = <<>> /\ \A k \in calls : ~Waits(k, u)
    BY <1>4 DEF Busy, Waits
  <2> QED
    BY <1>1, <1>2, <1>4, <2>1
<1> QED
  BY <1>3, <1>4

\* A page that comes and goes while nothing is under way for its user.
LEMMA PageKeeps ==
  ASSUME IInv, NEW u \in Users, page' \in [Users -> Pages],
         \A w \in Users \ {u} : page'[w] = page[w],
         u \notin registered => page'[u].at = "signUp",
         UNCHANGED <<registered, profiles, stored, userData, calls, writes, crossed, failed>>,
         visits' \in 0..MaxSteps, hasty' \in 0..MaxSteps, hasty' = 0 => hasty = 0,
         hasty' = 0 => \A k \in calls : k.user = u => k.op # "editQuery"
  PROVE  IInv'
<1>1. Typed2'
  BY DEF IInv, Typed2, TypeOK
<1>2. OnlyFor(u)
  BY DEF OnlyFor
<1>3. Own(u)'
  <2>1. Member(u)'
    BY DEF IInv, Own, Member
  <2>2. hasty' = 0 => Alone(u)' /\ Checked(u)' /\ Profiled(u)'
    BY DEF IInv, Own, Alone, Waits, Checked, Profiled
  <2> QED
    BY <2>1, <2>2 DEF Own
<1>4. Claiming(u)' => Claiming(u)
  BY DEF Claiming
<1>5. \A t \in Typed : Bound(u, t)' => Bound(u, t)
  BY DEF Bound
<1>6. OneClaim' /\ FreshNames' /\ UsernamesUnique'
  BY <1>2, <1>4, <1>5, NamesKeep DEF SameNames
<1> QED
  BY <1>1, <1>2, <1>3, <1>6, OthersKeep DEF IInv

-----------------------------------------------------------------------------
(* What users do.                                                          *)

\* A call is made by a user who waits for no other answer.
LEMMA StartedKeeps ==
  ASSUME IInv, NEW u \in Users,
         NEW op \in {"signUpQuery", "editQuery", "updateEmail", "reauthForPassword"},
         NEW t \in Typed, NEW o \in Typed,
         calls' = calls \cup {Call(op, u, t, o)}, Wait(u),
         op = "signUpQuery" \/ u \in registered,
         op = "editQuery" => page[u].at = "Username" /\ page[u].field = t,
         IF op \in {"signUpQuery", "editQuery"} THEN Claim(u) ELSE UNCHANGED crossed,
         UNCHANGED <<registered, profiles, stored, userData, writes, failed>>,
         visits' \in 0..MaxSteps, hasty' \in 0..MaxSteps, hasty' = 0 => hasty = 0,
         hasty' = 0 => writes[u] = <<>> /\ \A k \in calls : ~Waits(k, u)
  PROVE  IInv'
<1>1. PICK j \in Calls : /\ calls' = calls \cup {j}
                         /\ j.op = op /\ j.user = u /\ j.text = t /\ j.here
  BY CallMade
<1>2. /\ page' \in [Users -> Pages]
      /\ \A w \in Users : page'[w].at = page[w].at /\ page'[w].field = page[w].field
      /\ \A w \in Users \ {u} : page'[w] = page[w]
  <2>1. \A w \in Users \ {u} : page'[w] = page[w]
    BY DEF Wait, IInv, Typed2, TypeOK
  <2> QED
    BY <2>1, Alerted DEF IInv
<1>3. crossed' \in BOOLEAN /\ (crossed => crossed')
      /\ (op \in {"signUpQuery", "editQuery"} /\ ~crossed' => \A w \in Users \ {u} : ~Claiming(w))
  BY DEF Claim, IInv, Typed2, TypeOK
<1>4. Typed2'
  BY <1>1, <1>2, <1>3 DEF IInv, Typed2, TypeOK
<1>5. OnlyFor(u)
  BY <1>1, <1>2, <1>3 DEF OnlyFor
<1>6. Own(u)'
  <2>1. Member(u)'
    BY <1>1, <1>2 DEF IInv, Own, Member
  <2>2. hasty' = 0 => Alone(u)'
    BY <1>1 DEF IInv, Own, Alone, Waits
  <2>3. hasty' = 0 => Checked(u)'
    BY <1>1, <1>2 DEF IInv, Own, Checked
  <2>4. hasty' = 0 => Profiled(u)'
    BY DEF IInv, Own, Profiled
  <2> QED
    BY <2>1, <2>2, <2>3, <2>4 DEF Own
<1>7. ~crossed' /\ Claiming(u)' => Claiming(u) \/ \A w \in Users \ {u} : ~Claiming(w)
  BY <1>1, <1>3 DEF Claiming
<1>8. \A x \in Typed : Bound(u, x)' => Bound(u, x)
  BY <1>1 DEF Bound
<1>9. OneClaim' /\ FreshNames' /\ UsernamesUnique'
  BY <1>5, <1>7, <1>8, NamesKeep DEF SameNames
<1> QED
  BY <1>4, <1>5, <1>6, <1>9, OthersKeep DEF IInv

LEMMA Visited ==
  ASSUME Typed2, Visit
  PROVE  visits' \in 0..MaxSteps
BY AccountsAssumption DEF Visit, Typed2, TypeOK

LEMMA SignUpPressKeeps ==
  ASSUME IInv, NEW u \in Users, NEW t \in Typed, signUpButtonPressed(u, t)
  PROVE  IInv'
<1>1. /\ page[u].at = "signUp" /\ Visit /\ Hurry(u)
      /\ UNCHANGED <<registered, profiles, stored, userData, failed>>
  BY DEF signUpButtonPressed, servers
<1>2. visits' \in 0..MaxSteps
  BY <1>1, Visited DEF IInv
<1>3. /\ hasty' \in 0..MaxSteps /\ (hasty' = 0 => hasty = 0)
      /\ hasty' = 0 => writes[u] = <<>> /\ \A k \in calls : ~Waits(k, u)
  BY <1>1, <1>2, Hurried DEF IInv
<1>4. CASE t = Empty
  <2>1. page' = [page EXCEPT ![u].status = "alert"] /\ UNCHANGED <<calls, writes, crossed>>
    BY <1>4 DEF signUpButtonPressed, Alert
  <2>2. /\ page' \in [Users -> Pages] /\ page'[u].at = "signUp"
        /\ \A w \in Users \ {u} : page'[w] = page[w]
    BY <1>1, <2>1 DEF IInv, Typed2, TypeOK, Pages
  <2>3. hasty' = 0 => \A k \in calls : k.user = u => k.op # "editQuery"
    BY <1>3 DEF Waits
  <2> QED
    BY <1>1, <1>2, <1>3, <2>1, <2>2, <2>3, PageKeeps
<1>5. CASE t # Empty
  <2>1. /\ Wait(u) /\ calls' = calls \cup {Call("signUpQuery", u, t, Empty)} /\ Claim(u)
        /\ UNCHANGED writes
    BY <1>5 DEF signUpButtonPressed, Wait
  <2>2. Empty \in Typed
    BY DEF Typed
  <2> QED
    BY <1>1, <1>2, <1>3, <2>1, <2>2, StartedKeeps
<1> QED
  BY <1>4, <1>5

LEMMA OpenSettingKeeps ==
  ASSUME IInv, NEW u \in Users, NEW n \in Settings, NEW t \in Typed, OpenSetting(u, n, t)
  PROVE  IInv'
<1>1. /\ page[u].at = "settings" /\ Visit
      /\ page' = [page EXCEPT ![u] = With(Page(n, userData[u][n]), t)]
      /\ UNCHANGED <<registered, profiles, stored, userData, calls, writes,
                     hasty, crossed, failed>>
  BY DEF OpenSetting, servers, past
<1>2. visits' \in 0..MaxSteps
  BY <1>1, Visited DEF IInv
<1>3. With(Page(n, userData[u][n]), t) \in Pages
  <2>1. userData[u][n] \in Typed
    BY DEF IInv, Typed2, TypeOK
  <2>2. Page(n, userData[u][n]) \in Pages
    BY <2>1, PageMade
  <2> QED
    BY <2>2 DEF With, Pages
<1>4. u \in registered
  BY <1>1 DEF IInv, Own, Member
<1>5. page' \in [Users -> Pages] /\ \A w \in Users \ {u} : page'[w] = page[w]
  BY <1>1, <1>3 DEF IInv, Typed2, TypeOK
<1>6. hasty' = 0 => \A k \in calls : k.user = u => k.op # "editQuery"
  BY <1>1 DEF IInv, Own, Checked
<1>7. hasty' \in 0..MaxSteps
  BY <1>1 DEF IInv, Typed2, TypeOK
<1> QED
  BY <1>1, <1>2, <1>4, <1>5, <1>6, <1>7, PageKeeps

LEMMA TypeKeeps ==
  ASSUME IInv, NEW u \in Users, NEW t \in Typed, Type(u, t)
  PROVE  IInv'
<1>1. /\ page[u].at \in Settings /\ Busy(u) /\ Hurry(u)
      /\ page' = [page EXCEPT ![u] = With(page[u], t)]
      /\ UNCHANGED <<registered, profiles, stored, userData, calls, writes, visits,
                     crossed, failed>>
  BY DEF Type, servers
<1>2. With(page[u], t) \in Pages
  BY ZenonT(40) DEF With, Pages, IInv, Typed2, TypeOK
<1>3. page' \in [Users -> Pages] /\ \A w \in Users \ {u} : page'[w] = page[w]
  BY <1>1, <1>2 DEF IInv, Typed2, TypeOK
<1>4. u \in registered
  BY <1>1 DEF IInv, Own, Member, Settings
<1>5. visits' \in 0..MaxSteps /\ hasty' \in 0..MaxSteps /\ hasty' # 0
  <2>1. hasty \in Nat /\ visits \in 0..MaxSteps /\ MaxSteps \in Nat
    BY AccountsAssumption DEF IInv, Typed2, TypeOK
  <2>2. hasty' = hasty + 1 /\ hasty' + visits <= MaxSteps
    BY <1>1 DEF Hurry
  <2> QED
    BY <1>1, <2>1, <2>2
<1> QED
  BY <1>1, <1>3, <1>4, <1>5, PageKeeps

\* A page that closes when its user waits for nothing more.
LEMMA PopKeeps ==
  ASSUME IInv, NEW u \in registered, NEW here \in BOOLEAN, NEW some \in SUBSET calls,
         Pop(u, here, some, writes[u]),
         stored' \in [Users -> [Settings -> Typed]], SameNames,
         UNCHANGED <<registered, userData, visits, crossed, failed>>,
         hasty' \in 0..MaxSteps, hasty' = 0 => hasty = 0 /\ \A k \in some : ~Waits(k, u)
  PROVE  IInv'
<1>0. u \in Users /\ writes[u] \in Seq(Writes)
  BY DEF IInv, Typed2, TypeOK
<1>1. /\ page' \in [Users -> Pages] /\ calls' \subseteq Calls /\ writes' \in [Users -> Seq(Writes)]
      /\ \A w \in Users \ {u} : page'[w] = page[w] /\ writes'[w] = writes[w]
      /\ writes'[u] \in {writes[u], DetachWrites(writes[u])}
      /\ \A j \in calls' : \/ j.op = "loadUserData" /\ j.user = u
                           \/ \E k \in some : /\ j.op = k.op /\ j.user = k.user /\ j.text = k.text
                                              /\ k.user # u => j = k
  BY <1>0, Popped, ZenonT(40) DEF IInv
<1>2. Typed2'
  BY <1>1 DEF IInv, Typed2, TypeOK, SameNames
<1>3. OnlyFor(u)
  BY <1>1 DEF OnlyFor, SameNames
<1>4. /\ writes'[u] \in Seq(Writes) /\ DOMAIN writes'[u] = DOMAIN writes[u]
      /\ Len(writes'[u]) = Len(writes[u]) /\ DOMAIN writes[u] = 1..Len(writes[u])
      /\ \A i \in DOMAIN writes[u] : /\ writes'[u][i].name = writes[u][i].name
                                     /\ writes'[u][i].text = writes[u][i].text
  <2>1. CASE writes'[u] = writes[u]
    BY <1>0, <2>1
  <2>2. CASE writes'[u] = DetachWrites(writes[u])
    BY <1>0, <2>2, DetachedWrites
  <2> QED
    BY <1>1, <2>1, <2>2
<1>5. Own(u)'
  <2>1. Member(u)'
    BY DEF Member
  <2>2. hasty' = 0 => \A j \in calls' : ~Waits(j, u)'
    BY <1>1 DEF Waits
  <2>3. hasty' = 0 => Alone(u)'
    BY <1>0, <1>4, <2>2 DEF IInv, Own, Alone
  <2>4. hasty' = 0 => Checked(u)'
    BY <2>2 DEF Checked, Waits
  <2>5. hasty' = 0 => Profiled(u)'
    <3>1. writes'[u] # <<>> <=> writes[u] # <<>>
      BY <1>0, <1>1, <1>4
    <3>2. writes[u] # <<>> => 1 \in 1..Len(writes[u])
      BY <1>0
    <3>3. hasty' = 0 => Profiled(u) /\ hasty = 0
      BY <1>0 DEF IInv, Own
    <3>4. writes[u] # <<>> => writes'[u][1].name = writes[u][1].name
      BY <1>4, <3>2
    <3>5. profiles' = profiles /\ registered' = registered
      BY DEF SameNames
    <3> QED
      BY <3>1, <3>3, <3>4, <3>5 DEF Profiled
  <2> QED
    BY <2>1, <2>3, <2>4, <2>5 DEF Own
<1>6. Claiming(u)' => Claiming(u)
  BY <1>1, <1>4 DEF Claiming
<1>7. \A t \in Typed : Bound(u, t)' => Bound(u, t)
  <2> SUFFICES ASSUME NEW t \in Typed, Bound(u, t)' PROVE Bound(u, t)
    OBVIOUS
  <2>1. CASE \E j \in calls' : j.user = u /\ j.op = "createUser" /\ j.text = t
    BY <1>1, <2>1 DEF Bound
  <2>2. CASE \E i \in DOMAIN writes'[u] : writes'[u][i].name # "Bio" /\ writes'[u][i].text = t
    BY <1>1, <1>4, <2>2 DEF Bound
  <2> QED
    BY <2>1, <2>2 DEF Bound
<1>8. OneClaim' /\ FreshNames' /\ UsernamesUnique'
  BY <1>0, <1>3, <1>6, <1>7, NamesKeep
<1> QED
  BY <1>0, <1>2, <1>3, <1>5, <1>8, OthersKeep DEF IInv

LEMMA BackKeeps ==
  ASSUME IInv, NEW u \in Users, backButtonPressed(u)
  PROVE  IInv'
<1>1. /\ page[u].at \in Settings /\ Hurry(u) /\ Pop(u, TRUE, calls, writes[u])
      /\ UNCHANGED <<registered, profiles, stored, userData, visits, crossed, failed>>
  BY DEF backButtonPressed, servers
<1>2. u \in registered
  BY <1>1 DEF IInv, Own, Member, Settings
<1>3. visits' \in 0..MaxSteps /\ stored' \in [Users -> [Settings -> Typed]]
  BY <1>1 DEF IInv, Typed2, TypeOK
<1>4. /\ hasty' \in 0..MaxSteps
      /\ hasty' = 0 => hasty = 0 /\ \A k \in calls : ~Waits(k, u)
  BY <1>1, <1>3, Hurried DEF IInv
<1> QED
  BY <1>1, <1>2, <1>3, <1>4, PopKeeps DEF SameNames

LEMMA PasswordPressKeeps ==
  ASSUME IInv, NEW u \in Users, NEW t \in Typed, passwordDoneButtonPressed(u, t)
  PROVE  IInv'
<1>1. /\ page[u].at = "Password" /\ Hurry(u) /\ Wait(u)
      /\ calls' = calls \cup {Call("reauthForPassword", u, page[u].field, t)}
      /\ UNCHANGED <<registered, profiles, stored, userData, visits, writes, crossed, failed>>
  BY DEF passwordDoneButtonPressed, servers
<1>2. u \in registered
  BY <1>1 DEF IInv, Own, Member
<1>3. visits' \in 0..MaxSteps /\ page[u].field \in Typed
  BY <1>1 DEF IInv, Typed2, TypeOK, Pages
<1>4. /\ hasty' \in 0..MaxSteps /\ (hasty' = 0 => hasty = 0)
      /\ hasty' = 0 => writes[u] = <<>> /\ \A k \in calls : ~Waits(k, u)
  BY <1>1, <1>3, Hurried DEF IInv
<1> QED
  BY <1>1, <1>2, <1>3, <1>4, StartedKeeps

\* A write joins a queue that was empty, unless somebody has been hasty.
LEMMA AppendKeeps ==
  ASSUME IInv, NEW u \in registered, NEW w \in Writes,
         w.name # "profile",
         writes' = [writes EXCEPT ![u] = Append(@, w)],
         page' \in [Users -> Pages], \A v \in Users \ {u} : page'[v] = page[v],
         calls' \subseteq calls, \A k \in calls : k.user # u => k \in calls',
         UNCHANGED <<registered, profiles, stored, userData, visits, crossed, failed>>,
         hasty' \in 0..MaxSteps, hasty' = 0 => hasty = 0,
         hasty' = 0 => writes[u] = <<>> /\ \A k \in calls' : ~Waits(k, u),
         w.name # "Bio" => Claiming(u) /\ (hasty' = 0 /\ ~crossed => ~Taken(w.text, u))
  PROVE  IInv'
<1>0. u \in Users /\ writes \in [Users -> Seq(Writes)]
  BY DEF IInv, Typed2, TypeOK
<1>1. /\ writes' \in [Users -> Seq(Writes)]
      /\ \A v \in Users \ {u} : writes'[v] = writes[v]
      /\ writes'[u] = Append(writes[u], w)
  BY <1>0
<1>2. Typed2'
  BY <1>1 DEF IInv, Typed2, TypeOK
<1>3. OnlyFor(u)
  BY <1>1 DEF OnlyFor
<1>4. /\ DOMAIN writes'[u] = 1..(Len(writes[u]) + 1) /\ DOMAIN writes[u] = 1..Len(writes[u])
      /\ \A i \in DOMAIN writes'[u] : writes'[u][i] = IF i \in DOMAIN writes[u] THEN writes[u][i] ELSE w
  BY <1>0, <1>1
<1>5. Own(u)'
  <2>1. Member(u)'
    BY DEF Member
  <2>2. ASSUME hasty' = 0
        PROVE  Alone(u)' /\ Checked(u)' /\ Profiled(u)'
    <3>1. writes[u] = <<>> /\ \A k \in calls' : ~Waits(k, u)
      BY <2>2
    <3>2. DOMAIN writes[u] = {} /\ Len(writes[u]) = 0
      BY <3>1
    <3>3. Len(writes'[u]) = 1 /\ writes'[u] # <<>> /\ writes'[u][1] = w
      BY <1>0, <1>1, <1>4, <3>2
    <3>4. Alone(u)'
      BY <3>1, <3>3 DEF Alone, Waits
    <3>5. Checked(u)'
      BY <3>1 DEF Checked, Waits
    <3>6. Profiled(u)
      BY <1>0, <2>2 DEF IInv, Own
    <3>7. Profiled(u)'
      BY <3>1, <3>3, <3>6 DEF Profiled
    <3> QED
      BY <3>4, <3>5, <3>7
  <2> QED
    BY <2>1, <2>2 DEF Own
<1>6. Claiming(u)' => Claiming(u)
  BY <1>4 DEF Claiming
<1>7. ASSUME NEW t \in Typed, hasty' = 0, ~crossed', Bound(u, t)'
      PROVE  Bound(u, t) \/ ~Taken(t, u)
  <2>1. CASE \E k \in calls' : k.user = u /\ k.op = "createUser" /\ k.text = t
    BY <2>1 DEF Bound
  <2>2. CASE \E i \in DOMAIN writes'[u] : writes'[u][i].name # "Bio" /\ writes'[u][i].text = t
    BY <1>4, <1>7, <2>2 DEF Bound
  <2> QED
    BY <1>7, <2>1, <2>2 DEF Bound
<1>8. OneClaim' /\ FreshNames' /\ UsernamesUnique'
  BY <1>0, <1>3, <1>6, <1>7, NamesKeep DEF SameNames
<1> QED
  BY <1>0, <1>2, <1>3, <1>5, <1>8, OthersKeep DEF IInv

LEMMA DonePressKeeps ==
  ASSUME IInv, NEW u \in Users, doneButtonPressed(u)
  PROVE  IInv'
<1>1. /\ page[u].at \in {"Username", "Bio", "Email"} /\ Hurry(u)
      /\ UNCHANGED <<registered, profiles, stored, userData, visits, failed>>
  BY DEF doneButtonPressed, servers
<1>2. u \in registered
  BY <1>1 DEF IInv, Own, Member
<1>3. visits' \in 0..MaxSteps /\ page[u].field \in Typed /\ page[u].area \in Typed /\ Empty \in Typed
  BY <1>1 DEF IInv, Typed2, TypeOK, Pages, Typed
<1>4. /\ hasty' \in 0..MaxSteps /\ (hasty' = 0 => hasty = 0)
      /\ hasty' = 0 => writes[u] = <<>> /\ \A k \in calls : ~Waits(k, u)
  BY <1>1, <1>3, Hurried DEF IInv
<1>5. CASE page[u].field = Empty
  <2>1. page' = Alert(u, TRUE) /\ UNCHANGED <<calls, writes, crossed>>
    BY <1>5 DEF doneButtonPressed
  <2>2. page' \in [Users -> Pages] /\ \A w \in Users \ {u} : page'[w] = page[w]
    BY <2>1 DEF Alert, IInv, Typed2, TypeOK, Pages
  <2>3. hasty' = 0 => \A k \in calls : k.user = u => k.op # "editQuery"
    BY <1>4 DEF Waits
  <2> QED
    BY <1>1, <1>2, <1>3, <1>4, <2>1, <2>2, <2>3, PageKeeps
<1>6. CASE page[u].field # Empty /\ page[u].at = "Username"
  <2>1. /\ Wait(u) /\ calls' = calls \cup {Call("editQuery", u, page[u].field, Empty)}
        /\ Claim(u) /\ UNCHANGED writes
    BY <1>6 DEF doneButtonPressed
  <2> QED
    BY <1>1, <1>2, <1>3, <1>4, <1>6, <2>1, StartedKeeps
<1>7. CASE page[u].field # Empty /\ page[u].at = "Email"
  <2>1. /\ Wait(u) /\ calls' = calls \cup {Call("updateEmail", u, page[u].field, Empty)}
        /\ UNCHANGED <<writes, crossed>>
    BY <1>7 DEF doneButtonPressed
  <2> QED
    BY <1>1, <1>2, <1>3, <1>4, <1>7, <2>1, StartedKeeps
<1>8. CASE page[u].field # Empty /\ page[u].at = "Bio"
  <2>1. /\ Wait(u) /\ UNCHANGED <<calls, crossed>>
        /\ writes' = [writes EXCEPT ![u] = Append(@, [name |-> "Bio", here |-> TRUE,
                                                       text |-> page[u].area])]
    BY <1>8 DEF doneButtonPressed
  <2>2. page' \in [Users -> Pages] /\ \A w \in Users \ {u} : page'[w] = page[w]
    BY <2>1 DEF Wait, IInv, Typed2, TypeOK, Pages
  <2>3. PICK w \in Writes : w.name = "Bio" /\ writes' = [writes EXCEPT ![u] = Append(@, w)]
    BY <1>3, <2>1 DEF Writes
  <2> QED
    BY <1>1, <1>2, <1>4, <2>1, <2>2, <2>3, AppendKeeps
<1> QED
  BY <1>1, <1>5, <1>6, <1>7, <1>8

-----------------------------------------------------------------------------
(* What the calls and the writes do.                                       *)

LEMMA SignUpQueriedKeeps ==
  ASSUME IInv, NEW k \in calls, SignUpQueried(k)
  PROVE  IInv'
<1>1. UNCHANGED <<registered, profiles, stored, userData, writes, visits, hasty, crossed, failed>>
  BY DEF SignUpQueried, servers, past
<1>2. userData' \in [Users -> [Settings -> Typed]] /\ failed' \in BOOLEAN
  BY <1>1 DEF IInv, Typed2, TypeOK
<1>3. CASE UsernameExists(k.user, k.text)
  <2>1. page' = Alert(k.user, k.here) /\ Answered(k)
    BY <1>3 DEF SignUpQueried
  <2> QED
    BY <1>1, <1>2, <2>1, AnsweredKeeps
<1>4. CASE ~UsernameExists(k.user, k.text)
  <2>1. Continued(k, "createUser") /\ UNCHANGED page /\ k.op = "signUpQuery"
    BY <1>4 DEF SignUpQueried
  <2>2. ~Taken(k.text, k.user)
    BY <1>4 DEF UsernameExists, Taken
  <2> QED
    BY <1>1, <1>2, <2>1, <2>2, ContinuedKeeps
<1> QED
  BY <1>3, <1>4

LEMMA QueryFailedKeeps ==
  ASSUME IInv, NEW k \in calls, QueryFailed(k) \/ UserDataNotLoaded(k)
  PROVE  IInv'
<1>1. /\ UNCHANGED <<registered, profiles, stored, page, userData, writes, visits, hasty, crossed>>
      /\ Answered(k) /\ failed' = TRUE
  BY DEF QueryFailed, UserDataNotLoaded, servers
<1>2. userData' \in [Users -> [Settings -> Typed]] /\ failed' \in BOOLEAN
  BY <1>1 DEF IInv, Typed2, TypeOK
<1> QED
  BY <1>1, <1>2, AnsweredKeeps

LEMMA RefusedKeeps ==
  ASSUME IInv, NEW k \in calls, UserNotCreated(k) \/ AuthRefused(k)
  PROVE  IInv'
<1>1. /\ UNCHANGED <<registered, profiles, stored, userData, writes, visits, hasty, crossed, failed>>
      /\ Answered(k) /\ page' = Alert(k.user, k.here)
  BY DEF UserNotCreated, AuthRefused, servers, past
<1>2. userData' \in [Users -> [Settings -> Typed]] /\ failed' \in BOOLEAN
  BY <1>1 DEF IInv, Typed2, TypeOK
<1> QED
  BY <1>1, <1>2, AnsweredKeeps

LEMMA ReauthenticatedForPasswordKeeps ==
  ASSUME IInv, NEW k \in calls, ReauthenticatedForPassword(k)
  PROVE  IInv'
<1>1. /\ UNCHANGED <<registered, profiles, stored, userData, writes, visits, hasty, crossed, failed>>
      /\ k.op = "reauthForPassword"
      /\ \/ Continued(k, "updatePassword") /\ UNCHANGED page
         \/ Answered(k) /\ page' = Alert(k.user, k.here)
  BY DEF ReauthenticatedForPassword, servers, past
<1>2. userData' \in [Users -> [Settings -> Typed]] /\ failed' \in BOOLEAN
  BY <1>1 DEF IInv, Typed2, TypeOK
<1> QED
  BY <1>1, <1>2, AnsweredKeeps, ContinuedKeeps

\* A chain of calls that ends with a page that closes: names are not written.
LEMMA ClosedKeeps ==
  ASSUME IInv, NEW k \in calls,
         k.op \in {"updateEmail", "updatePassword"},
         Pop(k.user, k.here, calls \ {k}, writes[k.user]),
         stored' = stored \/ \E n \in {"Email", "Password"} :
                               stored' = [stored EXCEPT ![k.user][n] = k.text],
         UNCHANGED <<registered, profiles, userData, visits, hasty, crossed, failed>>
  PROVE  IInv'
<1> DEFINE u == k.user
<1>1. k \in Calls /\ u \in Users /\ k.text \in Typed /\ k.here \in BOOLEAN
  BY CallParts DEF IInv
<1>2. u \in registered
  BY <1>1 DEF IInv, Own, Member
<1>3. stored' \in [Users -> [Settings -> Typed]] /\ SameNames
  <2>1. stored \in [Users -> [Settings -> Typed]]
    BY DEF IInv, Typed2, TypeOK
  <2>2. CASE stored' = stored
    BY <2>1, <2>2 DEF SameNames
  <2>3. ASSUME NEW n \in {"Email", "Password"}, stored' = [stored EXCEPT ![u][n] = k.text]
        PROVE  stored' \in [Users -> [Settings -> Typed]] /\ SameNames
    BY <1>1, <2>1, <2>3 DEF SameNames, Settings
  <2> QED
    BY <2>2, <2>3
<1>4. hasty = 0 => \A j \in calls \ {k} : ~Waits(j, u)
  BY <1>1 DEF IInv, Own, Alone, Waits
<1>5. hasty' \in 0..MaxSteps
  BY DEF IInv, Typed2, TypeOK
<1>6. calls \ {k} \in SUBSET calls
  OBVIOUS
<1> QED
  BY <1>1, <1>2, <1>3, <1>4, <1>5, <1>6, PopKeeps

LEMMA EmailUpdatedKeeps ==
  ASSUME IInv, NEW k \in calls, EmailUpdated(k) \/ PasswordUpdated(k)
  PROVE  IInv'
<1>1. /\ k.op \in {"updateEmail", "updatePassword"}
      /\ Pop(k.user, k.here, calls \ {k}, writes[k.user])
      /\ stored' = stored \/ \E n \in {"Email", "Password"} :
                               stored' = [stored EXCEPT ![k.user][n] = k.text]
      /\ UNCHANGED <<registered, profiles, userData, visits, hasty, crossed, failed>>
  BY DEF EmailUpdated, PasswordUpdated, servers, past
<1> QED
  BY <1>1, ClosedKeeps

LEMMA EditQueriedKeeps ==
  ASSUME IInv, NEW k \in calls, EditQueried(k)
  PROVE  IInv'
<1> DEFINE u == k.user
<1>1. /\ UNCHANGED <<registered, profiles, stored, userData, visits, hasty, crossed, failed>>
      /\ k.op = "editQuery" /\ Answered(k)
  BY DEF EditQueried, servers, past
<1>2. userData' \in [Users -> [Settings -> Typed]] /\ failed' \in BOOLEAN /\ hasty' \in 0..MaxSteps
  BY <1>1 DEF IInv, Typed2, TypeOK
<1>3. CASE UsernameExists(u, k.text)
  <2>1. page' = Alert(k.user, k.here) /\ UNCHANGED writes
    BY <1>3 DEF EditQueried
  <2> QED
    BY <1>1, <1>2, <2>1, AnsweredKeeps
<1>4. CASE ~UsernameExists(u, k.text)
  <2> DEFINE value == IF k.here THEN page[u].field ELSE k.other
  <2> DEFINE w == [name |-> "Username", text |-> value, here |-> k.here]
  <2>1. writes' = [writes EXCEPT ![u] = Append(@, w)] /\ UNCHANGED page
    BY <1>4 DEF EditQueried
  <2>2. k \in Calls /\ u \in Users /\ k.text \in Typed /\ k.other \in Typed /\ k.here \in BOOLEAN
    BY CallParts DEF IInv
  <2>3. page' \in [Users -> Pages] /\ page[u].field \in Typed
    BY <2>1, <2>2 DEF IInv, Typed2, TypeOK, Pages
  <2>4. w \in Writes
    BY <2>2, <2>3 DEF Writes
  <2>5. u \in registered
    BY <1>1, <2>2 DEF IInv, Own, Member
  <2>6. hasty = 0 => /\ writes[u] = <<>> /\ \A j \in calls \ {k} : ~Waits(j, u)
                     /\ value = k.text
    BY <1>1, <2>2 DEF IInv, Own, Alone, Waits, Checked
  <2>7. ~Taken(k.text, u)
    BY <1>4 DEF UsernameExists, Taken
  <2>8. Claiming(u)
    BY <1>1 DEF Claiming
  <2>9. calls' = calls \ {k}
    BY <1>1 DEF Answered
  <2>10. w.name = "Username" /\ w.text = value
    OBVIOUS
  <2>11. k.user = u
    OBVIOUS
  <2> HIDE DEF w, value, u
  <2> QED
    BY <1>1, <1>2, <2>1, <2>3, <2>4, <2>5, <2>6, <2>7, <2>8, <2>9, <2>10, <2>11, AppendKeeps
<1> QED
  BY <1>3, <1>4

LEMMA UserCreatedKeeps ==
  ASSUME IInv, NEW k \in calls, UserCreated(k)
  PROVE  IInv'
<1> DEFINE u == k.user
<1> DEFINE w == [name |-> "profile", text |-> k.text, here |-> FALSE]
<1>1. /\ k.op = "createUser" /\ u \notin registered /\ registered' = registered \cup {u}
      /\ page' = [page EXCEPT ![u] = Page("settings", Empty)]
      /\ calls' = Detach(u, calls \ {k}) \cup viewWillAppear(u)
      /\ writes' = [writes EXCEPT ![u] = <<w>>]
      /\ UNCHANGED <<profiles, userData, visits, hasty, crossed, failed>>
  BY DEF UserCreated, past
<1>2. k \in Calls /\ u \in Users /\ k.text \in Typed
  BY CallParts DEF IInv
<1>3. PICK e \in Texts, p \in Texts : stored' = [stored EXCEPT ![u]["Email"] = e, ![u]["Password"] = p]
  BY DEF UserCreated
<1>4. w \in Writes /\ w.name = "profile" /\ w.text = k.text
  BY <1>2 DEF Writes
<1>5. k.user = u
  OBVIOUS
<1> HIDE DEF w, u
<1>6. stored' \in [Users -> [Settings -> Typed]] /\ SameNames
  <2>1. stored \in [Users -> [Settings -> Typed]] /\ e \in Typed /\ p \in Typed
    BY DEF IInv, Typed2, TypeOK, Typed
  <2> QED
    BY <1>1, <1>2, <1>3, <2>1 DEF SameNames, Settings
<1>7. Page("settings", Empty) \in Pages /\ Page("settings", Empty).at = "settings"
  BY PageMade DEF Typed
<1>8. /\ page' \in [Users -> Pages] /\ \A v \in Users \ {u} : page'[v] = page[v]
      /\ writes' \in [Users -> Seq(Writes)] /\ \A v \in Users \ {u} : writes'[v] = writes[v]
      /\ writes'[u] = <<w>>
  BY <1>1, <1>2, <1>4, <1>7 DEF IInv, Typed2, TypeOK
<1>9. \A j \in viewWillAppear(u) : j \in Calls /\ j.op = "loadUserData" /\ j.user = u
  <2>1. Empty \in Typed
    BY DEF Typed
  <2>2. LET j == Call("loadUserData", u, Empty, Empty)
        IN  j \in Calls /\ j.op = "loadUserData" /\ j.user = u
    BY <1>2, <2>1, CallMade
  <2> QED
    BY <2>2 DEF viewWillAppear
<1>10. /\ Detach(u, calls \ {k}) \subseteq Calls
       /\ \A j \in Detach(u, calls \ {k}) : \E i \in calls \ {k} :
            j.op = i.op /\ j.user = i.user /\ j.text = i.text /\ (i.user # u => j = i)
  BY <1>2, Detached DEF IInv
<1>11. Typed2'
  BY <1>1, <1>2, <1>6, <1>8, <1>9, <1>10 DEF IInv, Typed2, TypeOK
<1>12. OnlyFor(u)
  BY <1>1, <1>2, <1>8, <1>9, <1>10 DEF OnlyFor
<1>13. /\ DOMAIN writes'[u] = {1} /\ Len(writes'[u]) = 1 /\ writes'[u] # <<>>
       /\ writes'[u][1] = w
  BY <1>4, <1>8
<1>14. Own(u)'
  <2>1. Member(u)'
    BY <1>1 DEF Member
  <2>2. ASSUME hasty = 0
        PROVE  \A j \in calls' : ~Waits(j, u)
    <3>1. \A i \in calls \ {k} : ~Waits(i, u)
      BY <1>1, <1>2, <1>5, <2>2 DEF IInv, Own, Alone, Waits
    <3> QED
      BY <1>1, <1>9, <1>10, <3>1 DEF Waits
  <2>3. hasty = 0 => Alone(u)'
    BY <1>13, <2>2 DEF Alone, Waits
  <2>4. hasty = 0 => Checked(u)'
    BY <2>2 DEF Checked, Waits
  <2>5. Profiled(u)'
    BY <1>4, <1>13 DEF Profiled
  <2> QED
    BY <1>1, <2>1, <2>3, <2>4, <2>5 DEF Own
<1>15. Claiming(u)
  BY <1>1, <1>5 DEF Claiming
<1>16. ASSUME NEW t \in Typed, Bound(u, t)'
       PROVE  Bound(u, t)
  <2>1. CASE \E j \in calls' : j.user = u /\ j.op = "createUser" /\ j.text = t
    <3>1. PICK j \in calls' : j.user = u /\ j.op = "createUser" /\ j.text = t
      BY <2>1
    <3>2. j \in Detach(u, calls \ {k})
      BY <1>1, <1>9, <3>1
    <3>3. PICK i \in calls \ {k} : j.op = i.op /\ j.user = i.user /\ j.text = i.text
      BY <1>10, <3>2
    <3> QED
      BY <3>1, <3>3 DEF Bound
  <2>2. CASE \E i \in DOMAIN writes'[u] : writes'[u][i].name # "Bio" /\ writes'[u][i].text = t
    <3>1. t = k.text
      BY <1>4, <1>13, <2>2
    <3>2. k \in calls /\ k.user = u /\ k.op = "createUser" /\ k.text = t
      BY <1>1, <1>5, <3>1
    <3> QED
      BY <3>2 DEF Bound
  <2> QED
    BY <1>16, <2>1, <2>2 DEF Bound
<1>17. OneClaim' /\ FreshNames' /\ UsernamesUnique'
  BY <1>2, <1>6, <1>12, <1>15, <1>16, NamesKeep
<1> QED
  BY <1>2, <1>11, <1>12, <1>14, <1>17, OthersKeep DEF IInv

LEMMA Tails ==
  ASSUME NEW q \in Seq(Writes), q # <<>>
  PROVE  /\ Head(q) \in Writes /\ Head(q) = q[1] /\ 1 \in DOMAIN q
         /\ Tail(q) \in Seq(Writes) /\ Len(Tail(q)) = Len(q) - 1
         /\ \A i \in 1..Len(Tail(q)) : i + 1 \in DOMAIN q /\ Tail(q)[i] = q[i + 1]
OBVIOUS

\* What is queued after a write has gone was queued before.
LEMMA Shortened ==
  ASSUME IInv, NEW u \in Users, writes[u] # <<>>, OnlyFor(u),
         writes'[u] \in {Tail(writes[u]), DetachWrites(Tail(writes[u]))},
         \A j \in calls' : \/ j.op = "loadUserData" /\ j.user = u
                           \/ \E k \in calls : j.op = k.op /\ j.user = k.user /\ j.text = k.text
  PROVE  /\ Claiming(u)' => Claiming(u)
         /\ \A t \in Typed : Bound(u, t)' => Bound(u, t)
         /\ u \in registered
         /\ hasty = 0 => writes'[u] = <<>> /\ \A j \in calls' : ~Waits(j, u)
<1> DEFINE q == Tail(writes[u])
<1>0. writes[u] \in Seq(Writes)
  BY DEF IInv, Typed2
<1>1. /\ q \in Seq(Writes) /\ Len(q) = Len(writes[u]) - 1
      /\ \A i \in 1..Len(q) : i + 1 \in DOMAIN writes[u] /\ q[i] = writes[u][i + 1]
  BY <1>0, Tails
<1>2. /\ writes'[u] \in Seq(Writes) /\ Len(writes'[u]) = Len(q)
      /\ \A i \in 1..Len(q) : writes'[u][i].name = q[i].name /\ writes'[u][i].text = q[i].text
  <2> HIDE DEF q
  <2>1. writes'[u] = q \/ writes'[u] = DetachWrites(q)
    BY DEF q
  <2>2. CASE writes'[u] = q
    BY <1>1, <2>2
  <2>3. CASE writes'[u] = DetachWrites(q)
    BY <1>1, <2>3, DetachedWrites
  <2> QED
    BY <2>1, <2>2, <2>3
<1>3. DOMAIN writes'[u] = 1..Len(q)
  BY <1>2
<1>4. \A i \in DOMAIN writes'[u] : \E j \in DOMAIN writes[u] :
        writes'[u][i].name = writes[u][j].name /\ writes'[u][i].text = writes[u][j].text
  BY <1>1, <1>2, <1>3, SMTT(30)
<1>5. Claiming(u)' => Claiming(u)
  BY <1>4 DEF Claiming
<1>6. \A t \in Typed : Bound(u, t)' => Bound(u, t)
  BY <1>4 DEF Bound
<1>7. u \in registered
  BY DEF IInv, Own, Member
<1>8. ASSUME hasty = 0
      PROVE  writes'[u] = <<>> /\ \A j \in calls' : ~Waits(j, u)
  <2>1. Len(writes[u]) <= 1 /\ \A k \in calls : ~Waits(k, u)
    BY <1>8 DEF IInv, Own, Alone
  <2>2. Len(writes'[u]) = 0
    <3>1. Len(writes'[u]) \in Nat /\ Len(writes[u]) \in Nat /\ Len(writes'[u]) = Len(writes[u]) - 1
      BY <1>0, <1>1, <1>2
    <3>2. \A a, b \in Nat : a = b - 1 /\ b <= 1 => a = 0
      OBVIOUS
    <3> QED
      BY <2>1, <3>1, <3>2, Zenon
  <2> QED
    BY <1>2, <2>1, <2>2 DEF Waits
<1> QED
  BY <1>5, <1>6, <1>7, <1>8

LEMMA WriteRefusedKeeps ==
  ASSUME IInv, NEW u \in Users, WriteRefused(u)
  PROVE  IInv'
<1>0. writes \in [Users -> Seq(Writes)]
  BY DEF IInv, Typed2
<1>1. /\ writes[u] # <<>> /\ Head(writes[u]).name # "profile"
      /\ page' = Alert(u, Head(writes[u]).here)
      /\ writes' = [writes EXCEPT ![u] = Tail(@)]
      /\ UNCHANGED <<registered, profiles, stored, userData, calls, visits,
                     hasty, crossed, failed>>
  BY DEF WriteRefused, servers, past
<1>2. /\ Head(writes[u]) = writes[u][1]
      /\ Tail(writes[u]) \in Seq(Writes)
  BY <1>0, <1>1, Tails
<1>3. /\ writes' \in [Users -> Seq(Writes)] /\ writes'[u] = Tail(writes[u])
      /\ \A w \in Users \ {u} : writes'[w] = writes[w]
  BY <1>0, <1>1, <1>2
<1>4. page' \in [Users -> Pages] /\ \A w \in Users \ {u} : page'[w] = page[w]
  <2>1. \A w \in Users \ {u} : page'[w] = page[w]
    BY <1>1 DEF Alert, IInv, Typed2, TypeOK
  <2> QED
    BY <1>1, <2>1, Alerted DEF IInv
<1>5. Typed2'
  BY <1>1, <1>3, <1>4 DEF IInv, Typed2, TypeOK
<1>6. OnlyFor(u)
  BY <1>1, <1>3, <1>4 DEF OnlyFor
<1>7. /\ Claiming(u)' => Claiming(u)
      /\ \A t \in Typed : Bound(u, t)' => Bound(u, t)
      /\ u \in registered
      /\ hasty = 0 => writes'[u] = <<>> /\ \A j \in calls' : ~Waits(j, u)
  <2>1. writes'[u] \in {Tail(writes[u]), DetachWrites(Tail(writes[u]))}
    BY <1>3
  <2>2. \A j \in calls' : \E k \in calls : j.op = k.op /\ j.user = k.user /\ j.text = k.text
    BY <1>1
  <2> QED
    BY <1>1, <1>6, <2>1, <2>2, Shortened
<1>8. Own(u)'
  <2>1. Member(u)'
    BY <1>1, <1>7 DEF Member
  <2>2. hasty = 0 => Alone(u)'
    BY <1>7 DEF Alone, Waits
  <2>3. hasty = 0 => Checked(u)'
    BY <1>7 DEF Checked, Waits
  <2>4. hasty = 0 => Profiled(u)'
    BY <1>1, <1>2, <1>7 DEF IInv, Own, Profiled
  <2> QED
    BY <1>1, <2>1, <2>2, <2>3, <2>4 DEF Own
<1>9. OneClaim' /\ FreshNames' /\ UsernamesUnique'
  BY <1>1, <1>6, <1>7, NamesKeep DEF SameNames
<1> QED
  BY <1>5, <1>6, <1>8, <1>9, OthersKeep DEF IInv

\* The write that stores a name.
LEMMA WriteArrivedKeeps ==
  ASSUME IInv, NEW u \in Users, WriteArrived(u)
  PROVE  IInv'
<1> DEFINE w == writes[u][1]
<1>0. writes[u] \in Seq(Writes) /\ writes[u] # <<>>
  BY DEF WriteArrived, IInv, Typed2
<1>1. /\ w \in Writes /\ Head(writes[u]) = w /\ 1 \in DOMAIN writes[u]
      /\ Tail(writes[u]) \in Seq(Writes)
  BY <1>0, Tails
<1>2. w.name \in {"profile", "Username", "Bio"} /\ w.text \in Typed /\ w.here \in BOOLEAN
  BY <1>1 DEF Writes
<1>3. /\ stored' = [stored EXCEPT ![u] = [n \in Settings |-> IF n \in FieldsOf(w) THEN w.text
                                                            ELSE stored[u][n]]]
      /\ profiles' = profiles \cup {u}
      /\ Pop(u, w.here, calls, Tail(writes[u]))
      /\ UNCHANGED <<registered, userData, visits, hasty, crossed, failed>>
  BY <1>1 DEF WriteArrived, past
<1> HIDE DEF w
<1>4. /\ page' \in [Users -> Pages] /\ calls' \subseteq Calls /\ writes' \in [Users -> Seq(Writes)]
      /\ \A v \in Users \ {u} : page'[v] = page[v] /\ writes'[v] = writes[v]
      /\ writes'[u] \in {Tail(writes[u]), DetachWrites(Tail(writes[u]))}
      /\ \A j \in calls' : \/ j.op = "loadUserData" /\ j.user = u
                           \/ \E k \in calls : /\ j.op = k.op /\ j.user = k.user /\ j.text = k.text
                                               /\ k.user # u => j = k
  <2> DEFINE q == Tail(writes[u])
             h == w.here
  <2>1. q \in Seq(Writes) /\ h \in BOOLEAN /\ calls \in SUBSET calls /\ Typed2
    BY <1>1, <1>2 DEF IInv
  <2>2. Pop(u, h, calls, q)
    BY <1>3
  <2>3. q = Tail(writes[u])
    OBVIOUS
  <2> HIDE DEF q, h
  <2>4. /\ page' \in [Users -> Pages] /\ calls' \subseteq Calls /\ writes' \in [Users -> Seq(Writes)]
        /\ \A v \in Users \ {u} : page'[v] = page[v] /\ writes'[v] = writes[v]
        /\ writes'[u] \in {q, DetachWrites(q)}
        /\ \A j \in calls' : \/ j.op = "loadUserData" /\ j.user = u
                             \/ \E k \in calls : /\ j.op = k.op /\ j.user = k.user /\ j.text = k.text
                                                 /\ k.user # u => j = k
    BY <2>1, <2>2, Popped, ZenonT(40)
  <2> QED
    BY <2>3, <2>4
<1>5. /\ stored' \in [Users -> [Settings -> Typed]]
      /\ \A v \in Users \ {u} : stored'[v] = stored[v]
      /\ stored'[u]["Username"] = IF w.name = "Bio" THEN stored[u]["Username"] ELSE w.text
  <2>1. stored \in [Users -> [Settings -> Typed]]
    BY DEF IInv, Typed2, TypeOK
  <2>2. "Username" \in FieldsOf(w) <=> w.name # "Bio"
    BY <1>2 DEF FieldsOf
  <2>3. "Username" \in Settings
    BY DEF Settings
  <2> QED
    BY <1>2, <1>3, <2>1, <2>2, <2>3
<1>6. Typed2'
  <2>1. profiles' \subseteq Users
    BY <1>3 DEF IInv, Typed2, TypeOK
  <2> QED
    BY <1>3, <1>4, <1>5, <2>1 DEF IInv, Typed2, TypeOK
<1>7. OnlyFor(u)
  BY <1>3, <1>4 DEF OnlyFor
<1>8. /\ Claiming(u)' => Claiming(u)
      /\ \A t \in Typed : Bound(u, t)' => Bound(u, t)
      /\ u \in registered
      /\ hasty = 0 => writes'[u] = <<>> /\ \A j \in calls' : ~Waits(j, u)
  <2>1. \A j \in calls' : \/ j.op = "loadUserData" /\ j.user = u
                          \/ \E k \in calls : j.op = k.op /\ j.user = k.user /\ j.text = k.text
    BY <1>4
  <2> QED
    BY <1>0, <1>4, <1>7, <2>1, Shortened
<1>9. Own(u)'
  <2>1. Member(u)'
    BY <1>3, <1>8 DEF Member
  <2>2. hasty = 0 => Alone(u)'
    BY <1>8 DEF Alone, Waits
  <2>3. hasty = 0 => Checked(u)'
    BY <1>8 DEF Checked, Waits
  <2>4. hasty = 0 => Profiled(u)'
    BY <1>3, <1>8 DEF Profiled
  <2> QED
    BY <1>3, <2>1, <2>2, <2>3, <2>4 DEF Own
<1>10. CASE w.name = "Bio" /\ hasty = 0
  <2>1. u \in profiles
    BY <1>0, <1>10 DEF IInv, Own, Profiled, w
  <2>2. SameNames
    BY <1>3, <1>5, <1>10, <2>1 DEF SameNames
  <2>3. OneClaim' /\ FreshNames' /\ UsernamesUnique'
    BY <1>3, <1>7, <1>8, <2>2, NamesKeep
  <2> QED
    BY <1>6, <1>7, <1>9, <2>3, OthersKeep DEF IInv
<1>11. CASE ~(w.name = "Bio" /\ hasty = 0)
  <2>1. \A v \in Users \ {u} : (Claiming(v)' => Claiming(v)) /\ \A t : Bound(v, t)' => Bound(v, t)
    BY <1>7, OthersClaims
  <2>2. OneClaim'
    BY <1>3, <1>8, <2>1 DEF IInv, OneClaim
  <2>3. ASSUME hasty = 0, ~crossed
        PROVE  FreshNames' /\ UsernamesUnique'
    <3>1. w.name # "Bio" /\ Claiming(u) /\ Bound(u, w.text)
      BY <1>1, <1>11, <2>3 DEF Claiming, Bound, w
    <3>2. \A v \in Users \ {u} : ~Claiming(v)
      BY <2>3, <3>1 DEF IInv, OneClaim
    <3>3. \A v \in Users : \A t \in Typed : ~Bound(v, t)'
      <4>1. \A v \in Users \ {u} : \A t : ~Bound(v, t)
        BY <3>2 DEF Bound, Claiming
      <4>2. \A t : ~Bound(u, t)'
        BY <1>8, <2>3 DEF Bound, Waits
      <4> QED
        BY <2>1, <4>1, <4>2
    <3>4. ~Taken(w.text, u)
      BY <1>2, <2>3, <3>1 DEF IInv, FreshNames
    <3>5. \A v \in profiles \ {u} : v \in Users /\ stored'[v]["Username"] # stored'[u]["Username"]
      <4>1. profiles \subseteq Users
        BY DEF IInv, Typed2, TypeOK
      <4> QED
        BY <1>5, <3>1, <3>4, <4>1 DEF Taken
    <3>6. \A v, x \in profiles \ {u} : v # x => stored'[v]["Username"] # stored'[x]["Username"]
      BY <1>5, <2>3, <3>5 DEF IInv, UsernamesUnique
    <3> QED
      BY <1>3, <3>3, <3>5, <3>6 DEF FreshNames, UsernamesUnique
  <2>4. FreshNames' /\ UsernamesUnique'
    BY <1>3, <2>3 DEF FreshNames, UsernamesUnique
  <2> QED
    BY <1>6, <1>7, <1>9, <2>2, <2>4, OthersKeep DEF IInv
<1> QED
  BY <1>10, <1>11

\* Of a finite set of indices one is the last.
LEMMA LastExists ==
  ASSUME NEW n \in Nat, NEW S \in SUBSET (1..n), S # {}
  PROVE  \E m \in S : \A k \in S : k <= m
<1> DEFINE after == {n - i : i \in S}
           R == OpToRel(<, Nat)
<1>1. after \subseteq Nat /\ after # {}
  <2>1. \A i \in S : i \in Int /\ 1 <= i /\ i <= n
    OBVIOUS
  <2>2. after \subseteq Nat
    BY <2>1
  <2>3. PICK i \in S : TRUE
    OBVIOUS
  <2>4. n - i \in after
    BY <2>3
  <2> QED
    BY <2>2, <2>4
<1>2. IsWellFoundedOn(R, Nat)
  BY NatLessThanWellFounded
<1>3. \A a, b \in Nat : a < b => <<a, b>> \in R
  BY DEF OpToRel
<1>4. (\A i \in S : n - i \in after) /\ \A x \in after : \E i \in S : x = n - i
  OBVIOUS
<1> HIDE DEF after, R
<1>5. PICK x \in after : \A y \in after : ~(<<y, x>> \in R)
  BY <1>1, <1>2, WFMin
<1>6. \A y \in after : x <= y
  <2> TAKE y \in after
  <2>1. x \in Nat /\ y \in Nat
    BY <1>1
  <2>2. ~(y < x)
    BY <1>3, <1>5, <2>1, Zenon
  <2> QED
    BY <2>1, <2>2
<1>7. PICK m \in S : x = n - m
  BY <1>4
<1>8. \A k \in S : k <= m
  BY <1>4, <1>6, <1>7
<1> QED
  BY <1>8

LEMMA LastWriteTyped ==
  ASSUME Typed2, NEW u \in Users, NEW n \in Settings
  PROVE  LastWrite(u, n) \in Typed
<1> DEFINE about(i) == writes[u][i].name \in {n, "profile"}
           D == DOMAIN writes[u]
           last == CHOOSE i \in D : about(i) /\ \A j \in D : about(j) => j <= i
<1>1. writes[u] \in Seq(Writes) /\ stored[u][n] \in Typed
  BY DEF Typed2, TypeOK
<1>2. D = 1..Len(writes[u]) /\ Len(writes[u]) \in Nat
  BY <1>1
<1>3. ASSUME \E i \in D : about(i)
      PROVE  writes[u][last].text \in Typed
  <2> DEFINE S == {i \in D : about(i)}
  <2>1. S \in SUBSET (1..Len(writes[u])) /\ S # {}
    BY <1>2, <1>3
  <2>2. \E m \in S : \A k \in S : k <= m
    <3> HIDE DEF S
    <3> QED
      BY <1>2, <2>1, LastExists
  <2>3. \E i \in D : about(i) /\ \A j \in D : about(j) => j <= i
    BY <2>2
  <2>4. last \in D
    <3> HIDE DEF D, about
    <3> QED
      BY <2>3
  <2> HIDE DEF last
  <2>5. writes[u][last] \in Writes
    BY <1>1, <1>2, <2>4
  <2> QED
    BY <2>5 DEF Writes
<1>4. LastWrite(u, n) = IF \E i \in D : about(i) THEN writes[u][last].text ELSE stored[u][n]
  BY DEF LastWrite
<1> HIDE DEF last, about, D
<1> QED
  BY <1>1, <1>3, <1>4

LEMMA UserDataLoadedKeeps ==
  ASSUME IInv, NEW k \in calls, UserDataLoaded(k)
  PROVE  IInv'
<1>1. /\ UNCHANGED <<registered, profiles, stored, page, writes, visits, hasty, crossed, failed>>
      /\ Answered(k) /\ userData' = [userData EXCEPT ![k.user] = LoadedData(k.user)]
  BY DEF UserDataLoaded, servers, past
<1>2. k.user \in Users
  BY CallParts DEF IInv
<1>3. \A n \in Settings : /\ LastWrite(k.user, n) \in Typed
                          /\ stored[k.user][n] \in Typed /\ Empty \in Typed
  BY <1>2, LastWriteTyped DEF IInv, Typed2, TypeOK, Typed
<1>4. LoadedData(k.user) \in [Settings -> Typed]
  BY <1>3 DEF LoadedData
<1>5. userData' \in [Users -> [Settings -> Typed]] /\ failed' \in BOOLEAN
  BY <1>1, <1>2, <1>4 DEF IInv, Typed2, TypeOK
<1> QED
  BY <1>1, <1>5, AnsweredKeeps

-----------------------------------------------------------------------------
(* The beginning and every step.                                           *)

LEMMA InitHolds == Init => IInv
<1> SUFFICES ASSUME Init PROVE IInv
  OBVIOUS
<1>1. PICK name \in [Users -> Texts] :
        /\ \A u, w \in Users : u # w => name[u] # name[w]
        /\ registered \in SUBSET Users /\ profiles = registered
        /\ stored = [u \in Users |-> [n \in Settings |-> IF u \in registered THEN name[u] ELSE Empty]]
        /\ page = [u \in Users |-> Page(IF u \in registered THEN "settings" ELSE "signUp", Empty)]
        /\ userData = [u \in Users |-> [stored[u] EXCEPT !["Password"] = Empty]]
  BY DEF Init
<1>2. /\ calls = {} /\ writes = [u \in Users |-> <<>>]
      /\ visits = 0 /\ hasty = 0 /\ crossed = FALSE /\ failed = FALSE
  BY DEF Init
<1>3. \A u \in Users : writes[u] = <<>>
  BY <1>2
<1>4. stored \in [Users -> [Settings -> Typed]]
  BY <1>1 DEF Typed
<1>5. userData \in [Users -> [Settings -> Typed]]
  BY <1>1, <1>4 DEF Typed, Settings
<1>6. \A u \in Users : page[u] \in Pages /\ (u \notin registered => page[u].at = "signUp")
  <2> TAKE u \in Users
  <2>1. page[u] = Page(IF u \in registered THEN "settings" ELSE "signUp", Empty)
    BY <1>1
  <2>2. Empty \in Typed
    BY DEF Typed
  <2> QED
    BY <2>1, <2>2, PageMade
<1>7. page \in [Users -> Pages]
  BY <1>1, <1>6
<1>8. 0 \in 0..MaxSteps
  BY AccountsAssumption
<1>9. Typed2
  <2>1. writes \in [Users -> Seq(Writes)]
    BY <1>2
  <2> QED
    BY <1>1, <1>2, <1>4, <1>5, <1>7, <1>8, <2>1 DEF Typed2, TypeOK
<1>10. \A u \in Users : Own(u)
  <2> TAKE u \in Users
  <2>1. Member(u)
    BY <1>2, <1>3, <1>6 DEF Member
  <2>2. Alone(u) /\ Checked(u) /\ Profiled(u)
    BY <1>1, <1>2, <1>3 DEF Alone, Checked, Profiled
  <2> QED
    BY <2>1, <2>2 DEF Own
<1>11. \A u \in Users : ~Claiming(u) /\ \A t : ~Bound(u, t)
  BY <1>2, <1>3 DEF Claiming, Bound
<1>12. OneClaim /\ FreshNames
  BY <1>11 DEF OneClaim, FreshNames
<1>13. UsernamesUnique
  <2>1. \A u \in registered : u \in Users /\ stored[u]["Username"] = name[u]
    BY <1>1 DEF Settings
  <2> QED
    BY <1>1, <2>1 DEF UsernamesUnique
<1> QED
  BY <1>9, <1>10, <1>12, <1>13 DEF IInv

LEMMA NextKeeps == IInv /\ [Next]_vars => IInv'
<1> SUFFICES ASSUME IInv, [Next]_vars PROVE IInv'
  OBVIOUS
<1>1. ASSUME NEW u \in Users,
             \/ doneButtonPressed(u) \/ backButtonPressed(u)
             \/ WriteArrived(u) \/ WriteRefused(u)
      PROVE  IInv'
  BY <1>1, DonePressKeeps, BackKeeps, WriteArrivedKeeps, WriteRefusedKeeps
<1>2. ASSUME NEW u \in Users, NEW t \in Typed,
             \/ signUpButtonPressed(u, t) \/ Type(u, t) \/ passwordDoneButtonPressed(u, t)
             \/ \E n \in Settings : OpenSetting(u, n, t)
      PROVE  IInv'
  BY <1>2, SignUpPressKeeps, TypeKeeps, PasswordPressKeeps, OpenSettingKeeps
<1>3. ASSUME NEW k \in calls, Answer(k) \/ QueryFailed(k) \/ UserDataNotLoaded(k)
      PROVE  IInv'
  <2>1. CASE SignUpQueried(k) \/ EditQueried(k) \/ UserCreated(k) \/ UserDataLoaded(k)
    BY <2>1, SignUpQueriedKeeps, EditQueriedKeeps, UserCreatedKeeps, UserDataLoadedKeeps
  <2>2. CASE EmailUpdated(k) \/ PasswordUpdated(k)
    BY <2>2, EmailUpdatedKeeps
  <2>3. CASE ReauthenticatedForPassword(k)
    BY <2>3, ReauthenticatedForPasswordKeeps
  <2>4. CASE UserNotCreated(k) \/ AuthRefused(k)
    BY <2>4, RefusedKeeps
  <2>5. CASE QueryFailed(k) \/ UserDataNotLoaded(k)
    BY <2>5, QueryFailedKeeps
  <2> QED
    BY <1>3, <2>1, <2>2, <2>3, <2>4, <2>5 DEF Answer
<1>4. CASE UNCHANGED vars
  <2>1. UNCHANGED <<registered, profiles, stored, page, userData, calls, writes, visits,
                    hasty, crossed, failed>>
    BY <1>4 DEF vars, servers, past
  <2>2. Typed2'
    BY <2>1 DEF IInv, Typed2, TypeOK
  <2>3. ASSUME NEW u \in Users
        PROVE  Own(u)'
    BY <2>1 DEF IInv, Own, Member, Alone, Waits, Checked, Profiled
  <2>4. OneClaim' /\ FreshNames' /\ UsernamesUnique'
    BY <2>1 DEF IInv, OneClaim, FreshNames, UsernamesUnique, Claiming, Bound, Taken
  <2> QED
    BY <2>2, <2>3, <2>4 DEF IInv
<1> QED
  BY <1>1, <1>2, <1>3, <1>4 DEF Next

-----------------------------------------------------------------------------
(* Who changes a password.                                                 *)

\* A password that is about to be replaced has been typed.
Proven == hasty = 0 => \A k \in calls : k.op = "updatePassword" => k.other = stored[k.user]["Password"]

\* Calls that replace a password come from calls that did.
ComeFrom(some) ==
  \A j \in calls' : j.op = "updatePassword"
    => \E k \in some : k.op = j.op /\ k.user = j.user /\ k.other = j.other

PasswordsKept(users) == \A u \in users : stored'[u]["Password"] = stored[u]["Password"]

LEMMA DetachedOthers ==
  ASSUME Typed2, NEW u \in Users, NEW some \in SUBSET calls, NEW j \in Detach(u, some),
         j.op = "updatePassword"
  PROVE  \E k \in some : k.op = j.op /\ k.user = j.user /\ k.other = j.other
<1>1. PICK k \in some : j = LeftBehind(u, k)
  BY DEF Detach
<1>2. k \in Calls /\ page[u].field \in Typed
  BY DEF Typed2, TypeOK, Pages
<1>3. CASE k.user # u \/ ~k.here
  BY <1>1, <1>3 DEF LeftBehind
<1>4. CASE ~(k.user # u \/ ~k.here)
  <2> DEFINE o == IF k.op = "editQuery" THEN page[u].field ELSE k.other
  <2>1. j = [k EXCEPT !.here = FALSE, !.other = o]
    BY <1>1, <1>4 DEF LeftBehind
  <2>2. k.op # "editQuery" => o = k.other
    OBVIOUS
  <2> HIDE DEF o
  <2> QED
    BY <1>2, <2>1, <2>2 DEF Calls
<1> QED
  BY <1>3, <1>4

LEMMA PoppedOthers ==
  ASSUME Typed2, NEW u \in Users, NEW here, NEW some \in SUBSET calls, NEW q, Pop(u, here, some, q)
  PROVE  ComeFrom(some)
<1>1. CASE here
  <2>1. calls' = Detach(u, some) \cup viewWillAppear(u)
    BY <1>1 DEF Pop
  <2>2. \A j \in viewWillAppear(u) : j.op = "loadUserData"
    BY DEF viewWillAppear, Call
  <2> QED
    BY <2>1, <2>2, DetachedOthers DEF ComeFrom
<1>2. CASE ~here
  BY <1>2 DEF Pop, ComeFrom
<1> QED
  BY <1>1, <1>2

LEMMA ProvenStays ==
  ASSUME IInv, Proven, ComeFrom(calls), PasswordsKept(Users), hasty' = 0 => hasty = 0
  PROVE  Proven'
BY CallParts DEF IInv, Proven, ComeFrom, PasswordsKept

LEMMA AskedOn ==
  ASSUME NEW k \in calls, Answered(k) \/ Continued(k, "createUser"),
         IInv
  PROVE  ComeFrom(calls)
<1>1. CASE Answered(k)
  BY <1>1 DEF Answered, ComeFrom
<1>2. CASE Continued(k, "createUser")
  <2>1. k \in Calls
    BY CallParts DEF IInv
  <2>2. [k EXCEPT !.op = "createUser"].op = "createUser"
    BY <2>1, CallContinues
  <2> QED
    BY <1>2, <2>2 DEF Continued, ComeFrom
<1> QED
  BY <1>1, <1>2

LEMMA UsersKeepPasswords ==
  ASSUME IInv, NEW u \in Users,
         \/ doneButtonPressed(u) \/ backButtonPressed(u)
         \/ WriteArrived(u) \/ WriteRefused(u)
         \/ \E t \in Typed : \/ signUpButtonPressed(u, t) \/ Type(u, t)
                             \/ passwordDoneButtonPressed(u, t)
                             \/ \E n \in Settings : OpenSetting(u, n, t)
  PROVE  PasswordsKept(Users)
<1>1. CASE WriteArrived(u)
  <2>1. "Password" \notin FieldsOf(Head(writes[u]))
    <3>1. Head(writes[u]) \in Writes
      BY <1>1, Tails DEF IInv, Typed2, WriteArrived
    <3> QED
      BY <3>1 DEF FieldsOf, Writes
  <2>2. "Password" \in Settings /\ stored \in [Users -> [Settings -> Typed]]
    BY DEF Settings, IInv, Typed2, TypeOK
  <2> QED
    BY <1>1, <2>1, <2>2 DEF WriteArrived, PasswordsKept
<1>2. CASE ~WriteArrived(u)
  BY <1>2 DEF doneButtonPressed, backButtonPressed, WriteRefused, signUpButtonPressed, Type,
              passwordDoneButtonPressed, OpenSetting, servers, PasswordsKept
<1> QED
  BY <1>1, <1>2

LEMMA ProvenByUsers ==
  ASSUME IInv, Proven, NEW u \in Users,
         \/ doneButtonPressed(u) \/ backButtonPressed(u)
         \/ WriteArrived(u) \/ WriteRefused(u)
         \/ \E t \in Typed : \/ signUpButtonPressed(u, t) \/ Type(u, t)
                             \/ passwordDoneButtonPressed(u, t)
                             \/ \E n \in Settings : OpenSetting(u, n, t)
  PROVE  Proven'
<1>0. Typed2 /\ calls \in SUBSET calls /\ hasty \in Nat
  BY DEF IInv, Typed2, TypeOK
<1>1. Hurry(u) => (hasty' = 0 => hasty = 0)
  BY <1>0 DEF Hurry
<1>2. CASE doneButtonPressed(u)
  <2>1. \A op, t : Call(op, u, t, Empty).op = op
    BY DEF Call
  <2>2. UNCHANGED calls \/ \E op \in {"editQuery", "updateEmail"}, t \in {page[u].field} :
                               calls' = calls \cup {Call(op, u, t, Empty)}
    BY <1>2 DEF doneButtonPressed
  <2>3. ComeFrom(calls)
    BY <2>1, <2>2 DEF ComeFrom
  <2> QED
    BY <1>1, <1>2, <2>3, ProvenStays DEF doneButtonPressed, servers, PasswordsKept
<1>3. CASE backButtonPressed(u)
  BY <1>0, <1>1, <1>3, PoppedOthers, ProvenStays DEF backButtonPressed, servers, PasswordsKept
<1>4. CASE WriteArrived(u)
  <2>1. ComeFrom(calls)
    BY <1>0, <1>4, PoppedOthers DEF WriteArrived
  <2> QED
    BY <1>4, <2>1, UsersKeepPasswords, ProvenStays DEF WriteArrived, past
<1>5. CASE WriteRefused(u)
  BY <1>5, ProvenStays DEF WriteRefused, servers, past, PasswordsKept, ComeFrom
<1>6. ASSUME NEW t \in Typed, signUpButtonPressed(u, t)
      PROVE  Proven'
  <2>1. Call("signUpQuery", u, t, Empty).op = "signUpQuery"
    BY DEF Call
  <2>2. ComeFrom(calls)
    BY <1>6, <2>1 DEF signUpButtonPressed, ComeFrom
  <2> QED
    BY <1>1, <1>6, <2>2, ProvenStays DEF signUpButtonPressed, servers, PasswordsKept
<1>7. ASSUME NEW t \in Typed, passwordDoneButtonPressed(u, t)
      PROVE  Proven'
  <2>1. Call("reauthForPassword", u, page[u].field, t).op = "reauthForPassword"
    BY DEF Call
  <2>2. ComeFrom(calls)
    BY <1>7, <2>1 DEF passwordDoneButtonPressed, ComeFrom
  <2> QED
    BY <1>1, <1>7, <2>2, ProvenStays DEF passwordDoneButtonPressed, servers, PasswordsKept
<1>8. ASSUME NEW t \in Typed, Type(u, t) \/ \E n \in Settings : OpenSetting(u, n, t)
      PROVE  Proven'
  BY <1>1, <1>8, ProvenStays DEF Type, OpenSetting, servers, past, PasswordsKept, ComeFrom
<1> QED
  BY <1>2, <1>3, <1>4, <1>5, <1>6, <1>7, <1>8

LEMMA PasswordReplaced ==
  ASSUME IInv, Proven, NEW k \in calls, PasswordUpdated(k)
  PROVE  /\ Proven'
         /\ hasty = 0 => \A u \in Users : stored'[u]["Password"] # stored[u]["Password"]
              => /\ k.user = u /\ k.text = stored'[u]["Password"] /\ k.other = stored[u]["Password"]
                 /\ k \notin calls'
<1> DEFINE w == k.user
<1>1. /\ k.op = "updatePassword" /\ stored' = [stored EXCEPT ![w]["Password"] = k.text]
      /\ Pop(w, k.here, calls \ {k}, writes[w]) /\ UNCHANGED hasty
  BY DEF PasswordUpdated, past
<1>2. w \in Users
  BY CallParts DEF IInv
<1>3. /\ \A u \in Users \ {w} : stored'[u]["Password"] = stored[u]["Password"]
      /\ stored'[w]["Password"] = k.text
  <2>1. stored \in [Users -> [Settings -> Typed]] /\ "Password" \in Settings
    BY DEF IInv, Typed2, TypeOK, Settings
  <2> QED
    BY <1>1, <1>2, <2>1
<1>4. ComeFrom(calls \ {k})
  <2>1. Typed2 /\ calls \ {k} \in SUBSET calls
    BY DEF IInv
  <2> QED
    BY <1>1, <1>2, <2>1, PoppedOthers
<1>5. hasty = 0 => \A j \in calls \ {k} : j.user = w => j.op # "updatePassword"
  BY <1>1, <1>2 DEF IInv, Own, Alone, Waits
<1>6. hasty = 0 => k \notin calls'
  BY <1>1, <1>4, <1>5 DEF ComeFrom
<1>7. Proven'
  <2> SUFFICES ASSUME hasty = 0, NEW j \in calls', j.op = "updatePassword"
               PROVE  j.other = stored'[j.user]["Password"]
    BY <1>1 DEF Proven
  <2>1. PICK i \in calls \ {k} : i.op = j.op /\ i.user = j.user /\ i.other = j.other
    BY <1>4 DEF ComeFrom
  <2>2. i.user \in Users \ {w}
    BY <1>5, <2>1, CallParts DEF IInv
  <2> QED
    BY <1>3, <2>1, <2>2 DEF Proven
<1> QED
  BY <1>1, <1>3, <1>6, <1>7 DEF Proven

LEMMA ProvenByAnswers ==
  ASSUME IInv, Proven, NEW k \in calls, Answer(k) \/ QueryFailed(k) \/ UserDataNotLoaded(k),
         ~PasswordUpdated(k)
  PROVE  Proven' /\ PasswordsKept(registered)
<1>0. /\ Typed2 /\ calls \ {k} \in SUBSET calls
      /\ k \in Calls /\ k.user \in Users /\ registered \subseteq Users
  BY CallParts DEF IInv, Typed2, TypeOK
<1>1. stored \in [Users -> [Settings -> Typed]] /\ "Password" \in Settings
  BY <1>0 DEF Typed2, TypeOK, Settings
<1>2. CASE SignUpQueried(k) \/ EditQueried(k) \/ UserNotCreated(k) \/ AuthRefused(k) \/ UserDataLoaded(k)
  <2>1. UNCHANGED <<stored, hasty>>
    BY <1>2 DEF SignUpQueried, EditQueried, UserNotCreated, AuthRefused, UserDataLoaded, servers, past
  <2>2. Answered(k) \/ Continued(k, "createUser")
    BY <1>2 DEF SignUpQueried, EditQueried, UserNotCreated, AuthRefused, UserDataLoaded
  <2> QED
    BY <2>1, <2>2, AskedOn, ProvenStays DEF PasswordsKept
<1>3. CASE QueryFailed(k) \/ UserDataNotLoaded(k)
  <2>1. UNCHANGED <<stored, hasty>>
    BY <1>3 DEF QueryFailed, UserDataNotLoaded, servers
  <2>2. Answered(k)
    BY <1>3 DEF QueryFailed, UserDataNotLoaded
  <2> QED
    BY <2>1, <2>2, AskedOn, ProvenStays DEF PasswordsKept
<1>4. CASE EmailUpdated(k)
  <2>1. Pop(k.user, k.here, calls \ {k}, writes[k.user]) /\ UNCHANGED hasty
    BY <1>4 DEF EmailUpdated, past
  <2>2. PasswordsKept(Users)
    BY <1>1, <1>4 DEF EmailUpdated, PasswordsKept, servers
  <2>3. ComeFrom(calls)
    BY <1>0, <2>1, PoppedOthers DEF ComeFrom
  <2> QED
    BY <1>0, <2>1, <2>2, <2>3, ProvenStays DEF PasswordsKept
<1>5. CASE ReauthenticatedForPassword(k)
  <2>1. UNCHANGED <<stored, hasty>> /\ k.op = "reauthForPassword" /\ k.other = stored[k.user]["Password"]
    BY <1>5 DEF ReauthenticatedForPassword, PasswordIsRight, servers, past
  <2>2. CASE Answered(k)
    BY <2>1, <2>2, AskedOn, ProvenStays DEF PasswordsKept
  <2>3. CASE Continued(k, "updatePassword")
    <3>1. LET j == [k EXCEPT !.op = "updatePassword"]
          IN  j.user = k.user /\ j.other = k.other
      BY <1>0, CallContinues
    <3> QED
      BY <2>1, <2>3, <3>1 DEF Continued, Proven, PasswordsKept
  <2> QED
    BY <1>5, <2>2, <2>3 DEF ReauthenticatedForPassword
<1>6. CASE UserCreated(k)
  <2> DEFINE u == k.user
  <2>1. /\ u \notin registered /\ calls' = Detach(u, calls \ {k}) \cup viewWillAppear(u)
        /\ UNCHANGED hasty
        /\ \E e \in Texts, p \in Texts : stored' = [stored EXCEPT ![u]["Email"] = e, ![u]["Password"] = p]
    BY <1>6 DEF UserCreated, past
  <2>2. PasswordsKept(Users \ {u})
    BY <1>0, <1>1, <2>1 DEF PasswordsKept
  <2>3. \A j \in calls : j.user = u => j.op # "updatePassword"
    BY <1>0, <2>1 DEF IInv, Own, Member
  <2>4. ComeFrom(calls \ {k})
    <3>1. \A j \in viewWillAppear(u) : j.op = "loadUserData"
      BY DEF viewWillAppear, Call
    <3> QED
      BY <1>0, <2>1, <3>1, DetachedOthers DEF ComeFrom
  <2>5. Proven'
    <3> SUFFICES ASSUME hasty = 0, NEW j \in calls', j.op = "updatePassword"
                 PROVE  j.other = stored'[j.user]["Password"]
      BY <2>1 DEF Proven
    <3>1. PICK i \in calls \ {k} : i.op = j.op /\ i.user = j.user /\ i.other = j.other
      BY <2>4 DEF ComeFrom
    <3>2. i.user \in Users \ {u}
      BY <2>3, <3>1, CallParts DEF IInv
    <3> QED
      BY <2>2, <3>1, <3>2 DEF Proven, PasswordsKept
  <2> QED
    BY <1>0, <2>1, <2>2, <2>5 DEF PasswordsKept
<1> QED
  BY <1>2, <1>3, <1>4, <1>5, <1>6 DEF Answer

LEMMA ProvenKeeps ==
  ASSUME IInv, Proven, [Next]_vars
  PROVE  Proven' /\ [ReplacedByOwner]_vars
<1>0. registered \subseteq Users
  BY DEF IInv, Typed2, TypeOK
<1>1. ASSUME NEW u \in Users,
             \/ doneButtonPressed(u) \/ backButtonPressed(u)
             \/ WriteArrived(u) \/ WriteRefused(u)
             \/ \E t \in Typed : \/ signUpButtonPressed(u, t) \/ Type(u, t)
                                 \/ passwordDoneButtonPressed(u, t)
                                 \/ \E n \in Settings : OpenSetting(u, n, t)
      PROVE  Proven' /\ PasswordsKept(registered)
  BY <1>0, <1>1, ProvenByUsers, UsersKeepPasswords DEF PasswordsKept
<1>2. ASSUME NEW k \in calls, Answer(k) \/ QueryFailed(k) \/ UserDataNotLoaded(k), ~PasswordUpdated(k)
      PROVE  Proven' /\ PasswordsKept(registered)
  BY <1>2, ProvenByAnswers
<1>3. CASE UNCHANGED vars
  BY <1>3 DEF vars, servers, past, Proven, PasswordsKept
<1>4. CASE \E k \in calls : PasswordUpdated(k)
  BY <1>0, <1>4, PasswordReplaced DEF ReplacedByOwner
<1>5. CASE Next /\ ~\E k \in calls : PasswordUpdated(k)
  <2>1. Proven' /\ PasswordsKept(registered)
    BY <1>1, <1>2, <1>5 DEF Next
  <2> QED
    BY <2>1 DEF PasswordsKept, ReplacedByOwner
<1> QED
  BY <1>3, <1>4, <1>5

-----------------------------------------------------------------------------
(* Whoever waits is owed an answer.                                        *)

\* An answer to the page of u is among these calls or in this queue.
InCalls(some, u) == \E k \in some : k.user = u /\ k.here /\ k.op # "loadUserData"
InQueue(q) == \E i \in DOMAIN q : q[i].here

\* u waits no longer, or its answer is still on its way.
LEMMA OwedFrom ==
  ASSUME NEW u, page[u].status = "waiting" => Owed(u), failed => failed',
         page'[u].status = "waiting" /\ ~failed' =>
            \/ InQueue(writes'[u]) \/ InCalls(calls', u)
            \/ /\ page[u].status = "waiting"
               /\ InQueue(writes[u]) => InQueue(writes'[u]) \/ InCalls(calls', u)
               /\ InCalls(calls, u) => InQueue(writes'[u]) \/ InCalls(calls', u)
  PROVE  Owed(u)'
BY DEF Owed, InQueue, InCalls

\* A step of u leaves others their calls and queues.
OthersWait(u) ==
  /\ \A w \in Users \ {u} : page'[w] = page[w] /\ writes'[w] = writes[w]
  /\ \A k \in calls : k.user # u => k \in calls'
  /\ failed => failed'

LEMMA OthersOwed ==
  ASSUME DoneAnswers, NEW u \in Users, OthersWait(u), Owed(u)'
  PROVE  DoneAnswers'
<1> SUFFICES ASSUME NEW w \in Users \ {u} PROVE Owed(w)'
  BY DEF DoneAnswers
<1>1. InCalls(calls, w) => InCalls(calls', w)
  BY DEF InCalls, OthersWait
<1> QED
  BY <1>1, OwedFrom DEF OthersWait, DoneAnswers

\* Pages that show an alert or nothing do not wait.
LEMMA Shown ==
  ASSUME Typed2, NEW u \in Users
  PROVE  /\ \A here : page' = Alert(u, here)
              => /\ \A w \in Users \ {u} : page'[w] = page[w]
                 /\ IF here THEN page'[u].status = "alert" ELSE page' = page
         /\ page' = [page EXCEPT ![u] = Page("settings", Empty)]
              => /\ \A w \in Users \ {u} : page'[w] = page[w]
                 /\ page'[u].status = "idle"
         /\ Wait(u) => \A w \in Users \ {u} : page'[w] = page[w]
BY DEF Alert, Page, Wait, Typed2, TypeOK, Pages

LEMMA AnsweredOwed ==
  ASSUME IInv, DoneAnswers, NEW k \in calls, Answered(k),
         page' = Alert(k.user, k.here) \/ (page' = page /\ (k.op = "loadUserData" \/ failed')),
         UNCHANGED writes, failed => failed'
  PROVE  DoneAnswers'
<1> DEFINE u == k.user
<1>1. u \in Users /\ Typed2 /\ calls' = calls \ {k}
  BY CallParts DEF IInv, Answered
<1>2. OthersWait(u)
  BY <1>1, Shown DEF OthersWait
<1>3. Owed(u)'
  <2>1. CASE page' = page /\ k.op = "loadUserData"
    <3>1. InCalls(calls, u) => InCalls(calls', u)
      BY <1>1, <2>1 DEF InCalls
    <3> QED
      BY <1>1, <2>1, <3>1, OwedFrom DEF DoneAnswers
  <2>2. CASE failed'
    BY <2>2 DEF Owed
  <2>3. CASE page' = Alert(u, k.here) /\ k.here
    BY <1>1, <2>3, Shown DEF Owed
  <2>4. CASE page' = Alert(u, k.here) /\ ~k.here
    <3>1. InCalls(calls, u) => InCalls(calls', u)
      BY <1>1, <2>4 DEF InCalls
    <3>2. page' = page
      BY <1>1, <2>4, Shown
    <3> QED
      BY <1>1, <3>1, <3>2, OwedFrom DEF DoneAnswers
  <2> QED
    BY <2>1, <2>2, <2>3, <2>4
<1> QED
  BY <1>1, <1>2, <1>3, OthersOwed

LEMMA ContinuedOwed ==
  ASSUME IInv, DoneAnswers, NEW k \in calls,
         NEW op \in {"createUser", "updatePassword"}, Continued(k, op),
         UNCHANGED <<page, writes>>, failed => failed'
  PROVE  DoneAnswers'
<1> DEFINE u == k.user
           j == [k EXCEPT !.op = op]
<1>1. k \in Calls /\ u \in Users
  BY CallParts DEF IInv
<1>2. j.op = op /\ j.user = u /\ j.here = k.here
  BY <1>1, CallContinues
<1>3. calls' = (calls \ {k}) \cup {j}
  BY DEF Continued
<1> HIDE DEF j
<1>4. OthersWait(u)
  BY <1>3 DEF OthersWait
<1>5. InCalls(calls, u) => InCalls(calls', u)
  BY <1>2, <1>3 DEF InCalls
<1>6. Owed(u)'
  BY <1>1, <1>5, OwedFrom DEF DoneAnswers
<1> QED
  BY <1>1, <1>4, <1>6, OthersOwed

\* A page that closes; what is gone from the calls and the queue was about no page.
LEMMA PoppedOwed ==
  ASSUME IInv, DoneAnswers, NEW u \in Users, NEW here \in BOOLEAN, NEW some \in SUBSET calls, NEW q,
         Pop(u, here, some, q), failed => failed',
         \A k \in calls : k.user # u => k \in some,
         ~here => /\ InCalls(calls, u) => InCalls(some, u)
                  /\ InQueue(writes[u]) => InQueue(q)
  PROVE  DoneAnswers'
<1>0. Typed2 /\ writes \in [Users -> Seq(Writes)]
  BY DEF IInv, Typed2
<1>1. CASE here
  <2>1. /\ page' = [page EXCEPT ![u] = Page("settings", Empty)]
        /\ calls' = Detach(u, some) \cup viewWillAppear(u)
        /\ writes' = [writes EXCEPT ![u] = DetachWrites(q)]
    BY <1>1 DEF Pop
  <2>2. OthersWait(u)
    BY <1>0, <2>1, Shown, Detached DEF OthersWait
  <2>3. Owed(u)'
    BY <1>0, <2>1, Shown DEF Owed
  <2> QED
    BY <2>2, <2>3, OthersOwed
<1>2. CASE ~here
  <2>1. page' = page /\ calls' = some /\ writes' = [writes EXCEPT ![u] = q]
    BY <1>2 DEF Pop
  <2>2. writes'[u] = q /\ \A w \in Users \ {u} : writes'[w] = writes[w]
    BY <1>0, <2>1
  <2>3. OthersWait(u)
    BY <2>1, <2>2 DEF OthersWait
  <2>4. Owed(u)'
    BY <1>2, <2>1, <2>2, OwedFrom DEF DoneAnswers
  <2> QED
    BY <2>3, <2>4, OthersOwed
<1> QED
  BY <1>1, <1>2

\* A press that asks something or says something.
LEMMA PressedOwed ==
  ASSUME IInv, DoneAnswers, NEW u \in Users, UNCHANGED failed,
         \/ Wait(u) /\ UNCHANGED writes
              /\ \E op \in {"signUpQuery", "editQuery", "updateEmail", "reauthForPassword"},
                    t \in Typed, o \in Typed : calls' = calls \cup {Call(op, u, t, o)}
         \/ page' = Alert(u, TRUE) /\ UNCHANGED <<calls, writes>>
  PROVE  DoneAnswers'
<1>0. Typed2
  BY DEF IInv
<1>1. CASE page' = Alert(u, TRUE) /\ UNCHANGED <<calls, writes>>
  <2>1. OthersWait(u)
    BY <1>0, <1>1, Shown DEF OthersWait
  <2>2. Owed(u)'
    BY <1>0, <1>1, Shown DEF Owed
  <2> QED
    BY <2>1, <2>2, OthersOwed
<1>2. ASSUME Wait(u), UNCHANGED writes,
             NEW op \in {"signUpQuery", "editQuery", "updateEmail", "reauthForPassword"},
             NEW t \in Typed, NEW o \in Typed, calls' = calls \cup {Call(op, u, t, o)}
      PROVE  DoneAnswers'
  <2>1. PICK j : calls' = calls \cup {j} /\ j.op = op /\ j.user = u /\ j.here
    BY <1>2, CallMade
  <2>2. OthersWait(u)
    BY <1>0, <1>2, <2>1, Shown DEF OthersWait
  <2>3. InCalls(calls', u)
    BY <2>1 DEF InCalls
  <2>4. Owed(u)'
    BY <2>3 DEF Owed, InCalls
  <2> QED
    BY <2>2, <2>4, OthersOwed
<1> QED
  BY <1>1, <1>2

\* Another write in the queue.
LEMMA QueuedOwed ==
  ASSUME IInv, DoneAnswers, NEW u \in Users, NEW w \in Writes, UNCHANGED failed,
         writes' = [writes EXCEPT ![u] = Append(@, w)],
         \/ Wait(u) /\ w.here /\ UNCHANGED calls
         \/ /\ UNCHANGED page
            /\ \E k \in calls : calls' = calls \ {k} /\ k.user = u /\ (k.here => w.here)
  PROVE  DoneAnswers'
<1>0. Typed2 /\ writes \in [Users -> Seq(Writes)]
  BY DEF IInv, Typed2
<1>1. /\ writes'[u] = Append(writes[u], w) /\ writes[u] \in Seq(Writes)
      /\ \A v \in Users \ {u} : writes'[v] = writes[v]
  BY <1>0
<1>2. /\ DOMAIN writes'[u] = 1..(Len(writes[u]) + 1) /\ DOMAIN writes[u] = 1..Len(writes[u])
      /\ Len(writes[u]) \in Nat /\ writes'[u][Len(writes[u]) + 1] = w
      /\ \A i \in DOMAIN writes[u] : writes'[u][i] = writes[u][i]
  BY <1>1
<1>3. (w.here \/ InQueue(writes[u])) => InQueue(writes'[u])
  BY <1>2 DEF InQueue
<1>4. OthersWait(u)
  BY <1>0, <1>1, Shown DEF OthersWait
<1>5. CASE Wait(u) /\ w.here /\ UNCHANGED calls
  <2>1. Owed(u)'
    BY <1>3, <1>5 DEF Owed, InQueue
  <2> QED
    BY <1>4, <2>1, OthersOwed
<1>6. ASSUME UNCHANGED page, NEW k \in calls, calls' = calls \ {k}, k.user = u, k.here => w.here
      PROVE  DoneAnswers'
  <2>1. InCalls(calls, u) => InQueue(writes'[u]) \/ InCalls(calls', u)
    BY <1>3, <1>6 DEF InCalls
  <2>2. Owed(u)'
    BY <1>3, <1>6, <2>1, OwedFrom DEF DoneAnswers
  <2> QED
    BY <1>4, <2>2, OthersOwed
<1> QED
  BY <1>5, <1>6

LEMMA OwedByUsers ==
  ASSUME IInv, DoneAnswers, NEW u \in Users,
         \/ doneButtonPressed(u) \/ backButtonPressed(u)
         \/ WriteArrived(u) \/ WriteRefused(u)
         \/ \E t \in Typed : \/ signUpButtonPressed(u, t) \/ Type(u, t)
                             \/ passwordDoneButtonPressed(u, t)
                             \/ \E n \in Settings : OpenSetting(u, n, t)
  PROVE  DoneAnswers'
<1>0. /\ Typed2 /\ Empty \in Typed /\ writes[u] \in Seq(Writes) /\ calls \in SUBSET calls
      /\ page[u] \in Pages /\ page[u].field \in Typed /\ page[u].area \in Typed
  BY DEF IInv, Typed2, TypeOK, Typed, Pages
<1>1. CASE doneButtonPressed(u)
  <2>1. UNCHANGED failed /\ page[u].at \in {"Username", "Bio", "Email"}
    BY <1>1 DEF doneButtonPressed
  <2>2. CASE page[u].field = Empty
    BY <1>1, <2>1, <2>2, PressedOwed DEF doneButtonPressed
  <2>3. CASE page[u].field # Empty /\ page[u].at = "Username"
    <3>1. /\ Wait(u) /\ UNCHANGED writes
          /\ calls' = calls \cup {Call("editQuery", u, page[u].field, Empty)}
      BY <1>1, <2>3 DEF doneButtonPressed
    <3> QED
      BY <1>0, <2>1, <3>1, PressedOwed
  <2>4. CASE page[u].field # Empty /\ page[u].at = "Email"
    <3>1. /\ Wait(u) /\ UNCHANGED writes
          /\ calls' = calls \cup {Call("updateEmail", u, page[u].field, Empty)}
      BY <1>1, <2>4 DEF doneButtonPressed
    <3> QED
      BY <1>0, <2>1, <3>1, PressedOwed
  <2>5. CASE page[u].field # Empty /\ page[u].at = "Bio"
    <3>1. /\ Wait(u) /\ UNCHANGED calls
          /\ writes' = [writes EXCEPT ![u] = Append(@, [name |-> "Bio", here |-> TRUE,
                                                         text |-> page[u].area])]
      BY <1>1, <2>5 DEF doneButtonPressed
    <3>2. PICK w \in Writes : w.here /\ writes' = [writes EXCEPT ![u] = Append(@, w)]
      BY <1>0, <3>1 DEF Writes
    <3> QED
      BY <2>1, <3>1, <3>2, QueuedOwed
  <2> QED
    BY <2>1, <2>2, <2>3, <2>4, <2>5
<1>2. CASE backButtonPressed(u)
  BY <1>0, <1>2, PoppedOwed DEF backButtonPressed
<1>3. CASE WriteArrived(u)
  <2> DEFINE h == Head(writes[u]).here
             q == Tail(writes[u])
  <2>1. /\ Head(writes[u]) = writes[u][1] /\ Head(writes[u]) \in Writes
        /\ Len(q) = Len(writes[u]) - 1 /\ q \in Seq(Writes)
        /\ \A i \in 1..Len(q) : q[i] = writes[u][i + 1]
    BY <1>0, <1>3, Tails DEF WriteArrived
  <2>2. ~h /\ InQueue(writes[u]) => InQueue(q)
    <3> SUFFICES ASSUME ~h, NEW i \in DOMAIN writes[u], writes[u][i].here PROVE InQueue(q)
      BY DEF InQueue
    <3>1. i \in 1..Len(writes[u]) /\ i # 1
      BY <1>0, <2>1
    <3> HIDE DEF q
    <3>2. i - 1 \in 1..Len(q) /\ DOMAIN q = 1..Len(q)
      BY <1>0, <2>1, <3>1
    <3>3. q[i - 1] = writes[u][i]
      BY <2>1, <3>1, <3>2
    <3> QED
      BY <3>2, <3>3 DEF InQueue
  <2>3. Pop(u, h, calls, q) /\ UNCHANGED failed
    BY <1>3 DEF WriteArrived, past
  <2>4. h \in BOOLEAN
    BY <2>1 DEF Writes
  <2> HIDE DEF h, q
  <2> QED
    BY <1>0, <2>2, <2>3, <2>4, PoppedOwed
<1>4. CASE WriteRefused(u)
  <2>1. /\ writes[u] # <<>> /\ page' = Alert(u, Head(writes[u]).here)
        /\ writes' = [writes EXCEPT ![u] = Tail(@)] /\ UNCHANGED <<calls, failed>>
    BY <1>4 DEF WriteRefused, past
  <2> DEFINE h == Head(writes[u]).here
             q == Tail(writes[u])
  <2>2. /\ Head(writes[u]) = writes[u][1] /\ Head(writes[u]) \in Writes
        /\ Len(q) = Len(writes[u]) - 1 /\ q \in Seq(Writes)
        /\ \A i \in 1..Len(q) : q[i] = writes[u][i + 1]
    BY <1>0, <2>1, Tails
  <2>3. ~h /\ InQueue(writes[u]) => InQueue(q)
    <3> SUFFICES ASSUME ~h, NEW i \in DOMAIN writes[u], writes[u][i].here PROVE InQueue(q)
      BY DEF InQueue
    <3>1. i \in 1..Len(writes[u]) /\ i # 1
      BY <1>0, <2>2
    <3> HIDE DEF q
    <3>2. i - 1 \in 1..Len(q) /\ DOMAIN q = 1..Len(q)
      BY <1>0, <2>2, <3>1
    <3>3. q[i - 1] = writes[u][i]
      BY <2>2, <3>1, <3>2
    <3> QED
      BY <3>2, <3>3 DEF InQueue
  <2>4. writes'[u] = q /\ \A w \in Users \ {u} : writes'[w] = writes[w]
    BY <1>0, <2>1 DEF Typed2
  <2>5. OthersWait(u)
    BY <1>0, <2>1, <2>4, Shown DEF OthersWait
  <2>6. Owed(u)'
    <3>1. CASE h
      BY <1>0, <2>1, <3>1, Shown DEF Owed
    <3>2. CASE ~h
      <4>1. page' = page
        BY <1>0, <2>1, <3>2, Shown
      <4> QED
        BY <2>1, <2>3, <2>4, <3>2, <4>1, OwedFrom DEF DoneAnswers
    <3> QED
      BY <3>1, <3>2
  <2> QED
    BY <2>5, <2>6, OthersOwed
<1>5. ASSUME NEW t \in Typed, signUpButtonPressed(u, t)
      PROVE  DoneAnswers'
  <2>1. CASE t = Empty
    BY <1>5, <2>1, PressedOwed DEF signUpButtonPressed
  <2>2. CASE t # Empty
    <3>1. Wait(u) /\ UNCHANGED <<writes, failed>> /\ calls' = calls \cup {Call("signUpQuery", u, t, Empty)}
      BY <1>5, <2>2 DEF signUpButtonPressed, Wait
    <3> QED
      BY <1>0, <3>1, PressedOwed
  <2> QED
    BY <2>1, <2>2
<1>6. ASSUME NEW t \in Typed, passwordDoneButtonPressed(u, t)
      PROVE  DoneAnswers'
  <2>1. /\ Wait(u) /\ UNCHANGED <<writes, failed>>
        /\ calls' = calls \cup {Call("reauthForPassword", u, page[u].field, t)}
    BY <1>6 DEF passwordDoneButtonPressed
  <2> QED
    BY <1>0, <2>1, PressedOwed
<1>7. ASSUME NEW t \in Typed, Type(u, t) \/ \E n \in Settings : OpenSetting(u, n, t)
      PROVE  DoneAnswers'
  <2>1. UNCHANGED <<calls, writes, failed>>
    BY <1>7 DEF Type, OpenSetting, past
  <2>2. /\ \A w \in Users \ {u} : page'[w] = page[w]
        /\ page'[u].status = "waiting" => page[u].status = "waiting"
    <3>1. CASE Type(u, t)
      BY <1>0, <3>1 DEF Type, With, Typed2, TypeOK, Pages
    <3>2. ASSUME NEW n \in Settings, OpenSetting(u, n, t)
          PROVE  /\ \A w \in Users \ {u} : page'[w] = page[w]
                 /\ page'[u].status # "waiting"
      BY <1>0, <3>2 DEF OpenSetting, With, Page, Typed2, TypeOK
    <3> QED
      BY <1>7, <3>1, <3>2
  <2>3. OthersWait(u)
    BY <2>1, <2>2 DEF OthersWait
  <2>4. Owed(u)'
    BY <2>1, <2>2, OwedFrom DEF DoneAnswers
  <2> QED
    BY <2>3, <2>4, OthersOwed
<1> QED
  BY <1>1, <1>2, <1>3, <1>4, <1>5, <1>6, <1>7

LEMMA OwedByAnswers ==
  ASSUME IInv, DoneAnswers, NEW k \in calls, Answer(k) \/ QueryFailed(k) \/ UserDataNotLoaded(k)
  PROVE  DoneAnswers'
<1> DEFINE u == k.user
<1>0. /\ Typed2 /\ k \in Calls /\ u \in Users /\ k.here \in BOOLEAN
      /\ k.text \in Typed /\ k.other \in Typed /\ page[u].field \in Typed
  BY CallParts DEF IInv, Typed2, TypeOK, Pages
<1>1. CASE \/ SignUpQueried(k) \/ UserNotCreated(k) \/ AuthRefused(k) \/ UserDataLoaded(k)
           \/ ReauthenticatedForPassword(k)
           \/ QueryFailed(k) \/ UserDataNotLoaded(k)
  <2>1. UNCHANGED writes /\ (failed => failed')
    BY <1>1 DEF SignUpQueried, UserNotCreated, AuthRefused, UserDataLoaded,
                ReauthenticatedForPassword, QueryFailed, UserDataNotLoaded, past
  <2>2. \/ /\ Answered(k)
           /\ page' = Alert(u, k.here) \/ (page' = page /\ (k.op = "loadUserData" \/ failed'))
        \/ UNCHANGED page /\ \E op \in {"createUser", "updatePassword"} : Continued(k, op)
    BY <1>1 DEF SignUpQueried, UserNotCreated, AuthRefused, UserDataLoaded,
                ReauthenticatedForPassword, QueryFailed, UserDataNotLoaded
  <2> QED
    BY <2>1, <2>2, AnsweredOwed, ContinuedOwed
<1>2. CASE EditQueried(k)
  <2>1. Answered(k) /\ UNCHANGED failed
    BY <1>2 DEF EditQueried, past
  <2>2. CASE UsernameExists(u, k.text)
    BY <1>2, <2>1, <2>2, AnsweredOwed DEF EditQueried
  <2>3. CASE ~UsernameExists(u, k.text)
    <3> DEFINE value == IF k.here THEN page[u].field ELSE k.other
    <3>1. /\ UNCHANGED page
          /\ writes' = [writes EXCEPT ![u] = Append(@, [name |-> "Username", text |-> value,
                                                         here |-> k.here])]
      BY <1>2, <2>3 DEF EditQueried
    <3>2. value \in Typed
      BY <1>0
    <3> HIDE DEF value
    <3>3. PICK w \in Writes : w.here = k.here /\ writes' = [writes EXCEPT ![u] = Append(@, w)]
      BY <1>0, <3>1, <3>2 DEF Writes
    <3> QED
      BY <1>0, <2>1, <3>1, <3>3, QueuedOwed DEF Answered
  <2> QED
    BY <2>2, <2>3
<1>3. CASE EmailUpdated(k) \/ PasswordUpdated(k)
  <2>1. Pop(u, k.here, calls \ {k}, writes[u]) /\ UNCHANGED failed
    BY <1>3 DEF EmailUpdated, PasswordUpdated, past
  <2>2. ~k.here => (InCalls(calls, u) => InCalls(calls \ {k}, u))
    BY DEF InCalls
  <2>3. calls \ {k} \in SUBSET calls /\ \A j \in calls : j.user # u => j \in calls \ {k}
    OBVIOUS
  <2> HIDE DEF u
  <2> QED
    BY <1>0, <2>1, <2>2, <2>3, PoppedOwed
<1>4. CASE UserCreated(k)
  <2>1. /\ page' = [page EXCEPT ![u] = Page("settings", Empty)]
        /\ calls' = Detach(u, calls \ {k}) \cup viewWillAppear(u)
        /\ \E q : writes' = [writes EXCEPT ![u] = q]
        /\ UNCHANGED failed
    BY <1>4 DEF UserCreated, past
  <2>2. \A j \in calls : j.user # u => j \in calls'
    <3>1. calls \ {k} \in SUBSET calls /\ \A j \in calls : j.user # u => j \in calls \ {k}
      OBVIOUS
    <3> QED
      BY <1>0, <2>1, <3>1, Detached
  <2>3. \A w \in Users \ {u} : writes'[w] = writes[w]
    BY <2>1 DEF IInv, Typed2
  <2>4. OthersWait(u)
    BY <1>0, <2>1, <2>2, <2>3, Shown DEF OthersWait
  <2>5. Owed(u)'
    BY <1>0, <2>1, Shown DEF Owed
  <2> QED
    BY <1>0, <2>4, <2>5, OthersOwed
<1> QED
  BY <1>1, <1>2, <1>3, <1>4 DEF Answer

LEMMA OwedKeeps ==
  ASSUME IInv, DoneAnswers, [Next]_vars
  PROVE  DoneAnswers'
<1>1. CASE UNCHANGED vars
  BY <1>1 DEF vars, past, DoneAnswers, Owed
<1> QED
  BY <1>1, OwedByUsers, OwedByAnswers DEF Next

-----------------------------------------------------------------------------
(* The theorems.                                                           *)

\* No two profiles ever have the same username, and pages, documents and queued
\* writes keep their types, however many users sign up and change their names, as
\* long as nobody acts before an answer has come or is after a name while another is.
THEOREM UsernamesAlwaysUnique == Spec => []AccountsInv
<1>1. IInv => AccountsInv
  BY DEF IInv, Typed2, AccountsInv
<1> QED
  BY <1>1, InitHolds, NextKeeps, PTL DEF Spec

\* A password is only ever replaced by what was typed by somebody who had typed the
\* old one, for as long as nobody has acted before an answer had come: the two calls
\* and the comparison between them belong together.
THEOREM PasswordsChangedByOwners == Spec => PasswordOnlyByOwner
<1>1. Init => IInv /\ Proven
  BY InitHolds DEF Init, Proven
<1>2. IInv /\ Proven /\ [Next]_vars => IInv' /\ Proven'
  BY NextKeeps, ProvenKeeps
<1>3. IInv /\ Proven /\ [Next]_vars => [ReplacedByOwner]_vars
  BY ProvenKeeps
<1> QED
  BY <1>1, <1>2, <1>3, PTL DEF Spec, PasswordOnlyByOwner

\* Whoever waits after pressing done or sign up is owed an answer that will close the
\* page, show an alert or ask on, whatever else the user does meanwhile, unless a
\* query has failed.
THEOREM AnswersOwed == Spec => []DoneAnswers
<1>1. Init => DoneAnswers
  <2> SUFFICES ASSUME Init, NEW u \in Users PROVE page[u].status # "waiting"
    BY DEF DoneAnswers, Owed
  <2>1. page[u] = Page(IF u \in registered THEN "settings" ELSE "signUp", Empty)
    BY DEF Init
  <2> QED
    BY <2>1 DEF Page
<1>2. IInv /\ DoneAnswers /\ [Next]_vars => IInv' /\ DoneAnswers'
  BY NextKeeps, OwedKeeps
<1> QED
  BY <1>1, <1>2, InitHolds, PTL DEF Spec
=============================================================================

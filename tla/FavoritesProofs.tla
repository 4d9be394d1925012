--------------------------- MODULE FavoritesProofs --------------------------
(***************************************************************************)
(* The hearts and the favorites of a user who waits: proofs for any number *)
(* of trips, presses and viewings, whatever other users delete meanwhile.  *)
(***************************************************************************)
EXTENDS Favorites, FiniteSetTheorems, SequenceTheorems, WellFoundedInduction, TLAPS

\* A user who has waited for every answer, and no read that failed.
Careful == hasty = 0 /\ ~failed

Viewing == \E v \in 1..MaxViews : views[v].waiting # {}

\* Of the trips in T list s has those in w, each once.
Holds(s, T, w) ==
  /\ \A t \in T : Contains(s, t) <=> t \in w
  /\ \A i, j \in 1..Len(s) : s[i] = s[j] /\ s[i] \in T => i = j

\* The stored list is right; so is currentUser's whenever a callback may read it.
ListsInv ==
  Careful => /\ Holds(favorites, trips, wanted)
             /\ Viewing \/ page.read = "loading" => Holds(current, trips, wanted)

\* The heart shows what the user wants, or its trip is gone.
PageInv ==
  Careful => /\ page.read = "loaded" /\ page.trip \in trips =>
                  (page.favorite <=> page.trip \in wanted)
             /\ page.read = "missing" => page.trip \notin trips

\* Only the view on the screen is waiting for trips.
OneView ==
  Careful => /\ \A v \in 1..MaxViews : views[v].waiting # {} => v = viewed /\ favoriteView
             /\ ~favoriteView => selected.own

\* What the callbacks of view v have found so far.
Answered(v) ==
  /\ v.ct = Len(v.ids) - Cardinality(v.waiting)
  /\ Len(v.holdSelected) <= v.ct
  /\ \A j \in 1..Len(v.holdSelected) : Contains(v.ids, v.holdSelected[j])
  /\ Len(v.holdSelected) = v.ct =>
       \A i \in (1..Len(v.ids)) \ v.waiting : Contains(v.holdSelected, v.ids[i])

\* The two lists while v waits: untouched until a trip was missing, shorter afterwards.
Cleaning(v, cur, fav) ==
  v.waiting # {} =>
    /\ Len(cur) <= Len(v.ids) /\ Len(fav) <= Len(v.ids)
    /\ Len(v.holdSelected) = v.ct => cur = v.ids /\ fav = v.ids
    /\ Len(v.holdSelected) < v.ct => Len(fav) < Len(v.ids)

\* What is on the screen when nothing was missing.
Shown(v, sel) ==
  v.waiting = {} /\ v.ids # <<>> /\ Len(v.holdSelected) = Len(v.ids) =>
    ~sel.own /\ ToSet(sel.list) = ToSet(v.ids)

ViewInv ==
  Careful /\ viewed > 0 => /\ Answered(views[viewed])
                           /\ Cleaning(views[viewed], current, favorites)
                           /\ favoriteView => Shown(views[viewed], selected)

IInv == TypeOK /\ ListsInv /\ PageInv /\ OneView /\ ViewInv
-----------------------------------------------------------------------------
(* Lists.                                                                  *)

LEMMA LeastExists ==
  ASSUME NEW S \in SUBSET Nat, S # {}
  PROVE  \E x \in S : \A y \in S : x <= y
<1> DEFINE R == OpToRel(<, Nat)
<1>1. IsWellFoundedOn(R, Nat)
  BY NatLessThanWellFounded
<1>2. \A a, b \in Nat : a < b => <<a, b>> \in R
  BY DEF OpToRel
<1> HIDE DEF R
<1>3. PICK x \in S : \A y \in S : ~(<<y, x>> \in R)
  BY <1>1, WFMin
<1>4. ASSUME NEW y \in S
      PROVE  x <= y
  <2>1. x \in Nat /\ y \in Nat
    OBVIOUS
  <2>2. ~(y < x)
    BY <1>2, <1>3, <2>1, Zenon
  <2> QED
    BY <2>1, <2>2
<1> QED
  BY <1>4

\* firstIndex(of:) finds a position of the trip.
LEMMA FirstIndex ==
  ASSUME NEW s \in Seq(Trips), NEW t, Contains(s, t)
  PROVE  LET k == SelectInSeq(s, LAMBDA x : x = t)
         IN  k \in 1..Len(s) /\ s[k] = t
<1> DEFINE I == {i \in 1..Len(s) : s[i] = t}
<1>1. I # {} /\ I \subseteq 1..Len(s) /\ I \in SUBSET Nat
  BY DEF Contains
<1>2. \E x \in I : \A y \in I : x <= y
  BY <1>1, LeastExists
<1>3. Min(I) \in I
  BY <1>2 DEF Min
<1>4. SelectInSeq(s, LAMBDA x : x = t) = Min(I)
  BY <1>1 DEF SelectInSeq
<1> QED
  BY <1>3, <1>4

\* s without position k is r.
Without(r, s, k) ==
  /\ Len(r) = Len(s) - 1
  /\ \A i \in 1..Len(r) : r[i] = IF i < k THEN s[i] ELSE s[i + 1]

LEMMA RemovedAt ==
  ASSUME NEW s \in Seq(Trips), NEW k \in 1..Len(s)
  PROVE  RemoveAt(s, k) \in Seq(Trips) /\ Without(RemoveAt(s, k), s, k)
<1> DEFINE a == SubSeq(s, 1, k - 1)
           b == SubSeq(s, k + 1, Len(s))
<1>1. a \in Seq(Trips) /\ Len(a) = k - 1 /\ \A i \in 1..(k - 1) : a[i] = s[i]
  OBVIOUS
<1>2. b \in Seq(Trips) /\ Len(b) = Len(s) - k /\ \A i \in 1..(Len(s) - k) : b[i] = s[k + i]
  OBVIOUS
<1>3. RemoveAt(s, k) = a \o b
  BY DEF RemoveAt
<1> HIDE DEF a, b
<1>4. a \o b \in Seq(Trips) /\ Len(a \o b) = Len(a) + Len(b)
  BY <1>1, <1>2, ConcatProperties
<1>5. \A i \in 1..Len(a \o b) : (a \o b)[i] = IF i <= Len(a) THEN a[i] ELSE b[i - Len(a)]
  BY <1>1, <1>2, ConcatProperties
<1>6. Len(a \o b) = Len(s) - 1
  BY <1>1, <1>2, <1>4
<1>7. ASSUME NEW i \in 1..Len(a \o b)
      PROVE  (a \o b)[i] = IF i < k THEN s[i] ELSE s[i + 1]
  <2>1. CASE i < k
    BY <1>1, <1>5, <2>1
  <2>2. CASE ~(i < k)
    <3>1. (a \o b)[i] = b[i - (k - 1)]
      BY <1>1, <1>5, <2>2
    <3>2. i - (k - 1) \in 1..(Len(s) - k) /\ k + (i - (k - 1)) = i + 1
      BY <1>6, <2>2
    <3> QED
      BY <1>2, <2>2, <3>1, <3>2
  <2> QED
    BY <2>1, <2>2
<1> QED
  BY <1>3, <1>4, <1>6, <1>7 DEF Without

\* removeFromUsersFavorites takes out one occurrence of a favorite.
LEMMA Removed ==
  ASSUME current \in Seq(Trips), NEW t, Contains(current, t)
  PROVE  /\ removeFromUsersFavorites(t) \in Seq(Trips)
         /\ \E k \in 1..Len(current) : /\ current[k] = t
                                       /\ Without(removeFromUsersFavorites(t), current, k)
<1> DEFINE k == SelectInSeq(current, LAMBDA x : x = t)
<1>1. k \in 1..Len(current) /\ current[k] = t
  BY FirstIndex
<1>2. removeFromUsersFavorites(t) = RemoveAt(current, k)
  BY DEF removeFromUsersFavorites
<1> HIDE DEF k
<1> QED
  BY <1>1, <1>2, RemovedAt

LEMMA HoldsWithout ==
  ASSUME NEW s \in Seq(Trips), NEW r \in Seq(Trips), NEW k \in 1..Len(s), Without(r, s, k),
         NEW T, NEW w, Holds(s, T, w)
  PROVE  Holds(r, T, w \ {s[k]})
<1> DEFINE at(i) == IF i < k THEN i ELSE i + 1
<1>1. Len(s) \in Nat /\ Len(r) \in Nat
  OBVIOUS
<1>2. \A i \in 1..Len(r) : at(i) \in 1..Len(s) /\ at(i) # k /\ r[i] = s[at(i)]
  BY <1>1 DEF Without
<1>3. \A i, j \in 1..Len(r) : at(i) = at(j) => i = j
  BY <1>1
<1>4. ASSUME NEW j \in 1..Len(s), j # k
      PROVE  \E i \in 1..Len(r) : at(i) = j
  <2>1. CASE j < k
    BY <1>1, <1>4, <2>1 DEF Without
  <2>2. CASE ~(j < k)
    <3>1. j - 1 \in 1..Len(r) /\ at(j - 1) = j
      BY <1>1, <1>4, <2>2 DEF Without
    <3> QED
      BY <3>1
  <2> QED
    BY <2>1, <2>2
<1> HIDE DEF at
<1>5. ASSUME NEW t \in T
      PROVE  Contains(r, t) <=> t \in w \ {s[k]}
  <2>1. ASSUME Contains(r, t)
        PROVE  t \in w \ {s[k]}
    <3>1. PICK i \in 1..Len(r) : r[i] = t
      BY <2>1 DEF Contains
    <3>2. Contains(s, t)
      BY <1>2, <3>1 DEF Contains
    <3>3. t # s[k]
      BY <1>2, <3>1 DEF Holds
    <3> QED
      BY <3>2, <3>3 DEF Holds
  <2>2. ASSUME t \in w \ {s[k]}
        PROVE  Contains(r, t)
    <3>1. PICK j \in 1..Len(s) : s[j] = t
      BY <2>2 DEF Holds, Contains
    <3>2. PICK i \in 1..Len(r) : at(i) = j
      BY <1>4, <2>2, <3>1
    <3> QED
      BY <1>2, <3>1, <3>2 DEF Contains
  <2> QED
    BY <2>1, <2>2
<1>6. ASSUME NEW i \in 1..Len(r), NEW j \in 1..Len(r), r[i] = r[j], r[i] \in T
      PROVE  i = j
  <2>1. at(i) = at(j)
    BY <1>2, <1>6 DEF Holds
  <2> QED
    BY <1>3, <2>1
<1> QED
  BY <1>5, <1>6 DEF Holds

\* A favorite that was not one is added at the end.
LEMMA HoldsAppended ==
  ASSUME NEW s \in Seq(Trips), NEW t \in Trips, NEW T, NEW w, Holds(s, T, w),
         t \in T => t \notin w
  PROVE  Holds(Append(s, t), T, w \cup {t})
<1> DEFINE r == Append(s, t)
<1>1. Len(s) \in Nat /\ Len(r) = Len(s) + 1
  OBVIOUS
<1>2. r[Len(r)] = t /\ \A i \in 1..Len(s) : r[i] = s[i]
  OBVIOUS
<1> HIDE DEF r
<1>3. \A i \in 1..Len(r) : i = Len(r) \/ i \in 1..Len(s)
  BY <1>1
<1>4. Len(r) \in 1..Len(r) /\ \A i \in 1..Len(s) : i \in 1..Len(r)
  BY <1>1
<1>5. ASSUME NEW q \in T
      PROVE  Contains(r, q) <=> q \in w \cup {t}
  <2>1. Contains(r, q) <=> Contains(s, q) \/ q = t
    BY <1>2, <1>3, <1>4 DEF Contains
  <2> QED
    BY <2>1 DEF Holds
<1>6. ASSUME NEW i \in 1..Len(r), NEW j \in 1..Len(r), r[i] = r[j], r[i] \in T
      PROVE  i = j
  <2>1. ASSUME NEW n \in 1..Len(s), r[n] = t, t \in T
        PROVE  FALSE
    BY <1>2, <2>1 DEF Holds, Contains
  <2> QED
    BY <1>2, <1>3, <1>6, <2>1 DEF Holds
<1> QED
  BY <1>5, <1>6 DEF Holds, r

\* Trips go away, and what becomes of the others is not their concern.
LEMMA HoldsFewer ==
  ASSUME NEW s, NEW T, NEW w, NEW R \in SUBSET T, Holds(s, T, w)
  PROVE  Holds(s, R, w)
BY DEF Holds

LEMMA HoldsOthers ==
  ASSUME NEW s, NEW T, NEW w, NEW t, t \notin T
  PROVE  Holds(s, T, w \ {t}) <=> Holds(s, T, w)
BY DEF Holds

\* A list read backwards.
LEMMA ReverseSet ==
  ASSUME NEW s \in Seq(Trips)
  PROVE  Reverse(s) \in Seq(Trips) /\ ToSet(Reverse(s)) = ToSet(s)
<1> DEFINE r == Reverse(s)
<1>1. Len(s) \in Nat /\ DOMAIN s = 1..Len(s)
  OBVIOUS
<1>2. r = [i \in 1..Len(s) |-> s[(Len(s) - i) + 1]]
  BY DEF Reverse
<1>3. \A i \in 1..Len(s) : (Len(s) - i) + 1 \in 1..Len(s) /\ (Len(s) - ((Len(s) - i) + 1)) + 1 = i
  BY <1>1
<1>4. DOMAIN r = 1..Len(s) /\ \A i \in 1..Len(s) : r[i] = s[(Len(s) - i) + 1] /\ r[(Len(s) - i) + 1] = s[i]
  BY <1>2, <1>3
<1>5. r \in Seq(Trips)
  <2>1. \A i \in 1..Len(s) : s[i] \in Trips
    OBVIOUS
  <2>2. r \in [1..Len(s) -> Trips]
    BY <1>2, <1>3, <2>1
  <2> QED
    BY <1>1, <2>2
<1> HIDE DEF r
<1>6. ToSet(r) = ToSet(s)
  <2>1. ASSUME NEW x PROVE x \in ToSet(r) <=> x \in ToSet(s)
    BY <1>1, <1>3, <1>4 DEF ToSet
  <2> QED
    BY <2>1
<1> QED
  BY <1>5, <1>6 DEF r

LEMMA SameMembers ==
  ASSUME NEW s \in Seq(Trips), NEW r \in Seq(Trips),
         \A i \in 1..Len(s) : Contains(r, s[i]), \A j \in 1..Len(r) : Contains(s, r[j])
  PROVE  ToSet(s) = ToSet(r)
<1>1. DOMAIN s = 1..Len(s) /\ DOMAIN r = 1..Len(r)
  OBVIOUS
<1>2. ASSUME NEW x \in ToSet(s) PROVE x \in ToSet(r)
  <2>1. PICK i \in 1..Len(s) : x = s[i]
    BY <1>1 DEF ToSet
  <2>2. PICK j \in 1..Len(r) : r[j] = s[i]
    BY DEF Contains
  <2> QED
    BY <1>1, <2>1, <2>2 DEF ToSet
<1>3. ASSUME NEW x \in ToSet(r) PROVE x \in ToSet(s)
  <2>1. PICK i \in 1..Len(r) : x = r[i]
    BY <1>1 DEF ToSet
  <2>2. PICK j \in 1..Len(s) : s[j] = r[i]
    BY DEF Contains
  <2> QED
    BY <1>1, <2>1, <2>2 DEF ToSet
<1> QED
  BY <1>2, <1>3

-----------------------------------------------------------------------------
(* Steps.                                                                  *)

\* The favorites of a user who opens the app, each once.
LEMMA OnceEach ==
  ASSUME NEW S \in SUBSET Trips, NEW s, s = SetToSeq(S)
  PROVE  s \in Seq(Trips) /\ Holds(s, Trips, ToSet(s))
<1>1. IsFiniteSet(S)
  BY FavoritesAssumption, FS_Subset
<1>2. Cardinality(S) \in Nat /\ ExistsBijection(1..Cardinality(S), S)
  BY <1>1, FS_CardinalityType
<1>3. PICK f \in Bijection(1..Cardinality(S), S) : TRUE
  BY <1>2 DEF ExistsBijection
<1>4. f \in [1..Cardinality(S) -> S] /\ IsInjective(f)
  BY <1>3 DEF Bijection, Injection, IsInjective
<1>5. s \in [1..Cardinality(S) -> S] /\ IsInjective(s)
  BY <1>4 DEF SetToSeq
<1>6. s \in Seq(Trips) /\ DOMAIN s = 1..Len(s)
  BY <1>2, <1>5
<1> QED
  BY <1>5, <1>6 DEF Holds, Contains, ToSet, IsInjective

LEMMA InitKeeps == Init => IInv
<1> SUFFICES ASSUME Init PROVE IInv
  OBVIOUS
<1>1. PICK S \in SUBSET Trips : favorites = SetToSeq(S)
  BY DEF Init
<1>2. favorites \in Seq(Trips) /\ Holds(favorites, Trips, ToSet(favorites))
  BY <1>1, OnceEach
<1>3. ToSet(favorites) \subseteq Trips
  BY <1>2 DEF ToSet
<1>4. <<>> \in Seq(Trips) /\ Len(<<>>) = 0
  OBVIOUS
<1>5. NoView \in View
  BY <1>4 DEF NoView, View
<1>7. \A v \in 1..MaxViews : views[v].waiting = {}
  BY DEF Init, NoView
<1>6. TypeOK
  <2>1. views \in [1..MaxViews -> View]
    BY <1>5 DEF Init
  <2>2. page \in [trip : Trips \cup {NoTrip}, read : {"loading", "loaded", "missing"},
                  favorite : BOOLEAN]
    BY DEF Init, NoPage
  <2>3. selected \in [own : BOOLEAN, list : Seq(Trips)]
    BY <1>4 DEF Init, OwnTrips
  <2>4. viewed \in 0..MaxViews /\ presses \in 0..MaxPresses /\ hasty \in 0..MaxHasty
    BY FavoritesAssumption DEF Init
  <2> QED
    BY <1>2, <1>3, <1>7, <2>1, <2>2, <2>3, <2>4 DEF Init, TypeOK
<1>8. ListsInv
  BY <1>2 DEF Init, ListsInv
<1>9. PageInv
  BY FavoritesAssumption DEF Init, PageInv, NoPage
<1>10. OneView /\ ViewInv
  BY <1>7 DEF Init, OneView, ViewInv, OwnTrips
<1> QED
  BY <1>6, <1>8, <1>9, <1>10 DEF IInv

LEMMA OneTo ==
  ASSUME NEW n \in Nat
  PROVE  IsFiniteSet(1..n) /\ Cardinality(1..n) = n
<1>1. 1 \in Int /\ n \in Int
  OBVIOUS
<1>2. IsFiniteSet(1..n) /\ Cardinality(1..n) = IF 1 > n THEN 0 ELSE n - 1 + 1
  BY <1>1, FS_Interval, Zenon
<1> QED
  BY <1>2

\* The view a callback belongs to.
LEMMA ViewOf ==
  ASSUME TypeOK, NEW v \in 1..viewed
  PROVE  /\ v \in 1..MaxViews /\ views[v] \in View
         /\ views[v].waiting \subseteq 1..Len(views[v].ids)
<1>1. MaxViews \in Nat /\ viewed \in 0..MaxViews
  BY FavoritesAssumption DEF TypeOK
<1>2. v \in 1..MaxViews
  BY <1>1
<1> QED
  BY <1>2 DEF TypeOK

\* What a user who has waited finds.
LEMMA PressFinds ==
  ASSUME TypeOK, Press
  PROVE  /\ presses' \in 0..MaxPresses /\ hasty' \in 0..MaxHasty /\ failed' \in BOOLEAN
         /\ Careful' => /\ Careful /\ current = favorites /\ page.read # "loading"
                        /\ \A v \in 1..MaxViews : views[v].waiting = {}
<1>1. /\ presses' \in 0..MaxPresses /\ hasty' \in 0..MaxHasty /\ failed' \in BOOLEAN
  BY FavoritesAssumption DEF TypeOK, Press
<1>2. Careful' => Settled /\ Careful
  BY FavoritesAssumption DEF TypeOK, Press, Careful
<1> QED
  BY <1>1, <1>2 DEF Settled

LEMMA PageOpens ==
  ASSUME IInv, NEW t \in Trips, viewWillAppear(t)
  PROVE  IInv'
<1>1. TypeOK /\ Press
  BY DEF IInv, viewWillAppear
<1>2. UNCHANGED <<trips, favorites, current, favoriteView, selected, views, viewed, wanted>>
  BY DEF viewWillAppear
<1>3. page' \in [trip : {t}, read : {"loading"}, favorite : BOOLEAN]
  <2>1. PICK heart \in {FALSE, page.trip = t /\ page.favorite} :
          page' = [trip |-> t, read |-> "loading", favorite |-> heart]
    BY DEF viewWillAppear
  <2>2. heart \in BOOLEAN
    OBVIOUS
  <2> QED
    BY <2>1, <2>2
<1>4. TypeOK'
  BY <1>1, <1>2, <1>3, PressFinds DEF TypeOK
<1>5. ListsInv'
  BY <1>1, <1>2, <1>3, PressFinds DEF IInv, ListsInv
<1>6. PageInv'
  BY <1>3 DEF PageInv
<1>7. OneView'
  BY <1>1, <1>2, PressFinds DEF IInv, OneView
<1>8. ViewInv'
  BY <1>1, <1>2, PressFinds DEF IInv, ViewInv
<1> QED
  BY <1>4, <1>5, <1>6, <1>7, <1>8 DEF IInv

LEMMA PageEnds ==
  ASSUME IInv, TripLoaded \/ TripMissing
  PROVE  IInv'
<1>1. /\ page.read = "loading"
      /\ UNCHANGED <<trips, favorites, current, favoriteView, selected, views, viewed, presses,
                     wanted, hasty>>
  BY DEF TripLoaded, TripMissing, past
<1>2. failed' \in BOOLEAN /\ (Careful' => Careful)
  BY DEF IInv, TypeOK, TripLoaded, TripMissing, past, Careful
<1>3. TypeOK'
  <2>1. page' \in [trip : Trips \cup {NoTrip}, read : {"loading", "loaded", "missing"},
                   favorite : BOOLEAN]
    BY DEF IInv, TypeOK, TripLoaded, TripMissing, IsFavorite, Contains
  <2> QED
    BY <1>1, <1>2, <2>1 DEF IInv, TypeOK
<1>4. page'.trip = page.trip /\ page'.read \in {"loaded", "missing"}
  BY DEF IInv, TypeOK, TripLoaded, TripMissing
<1>5. ListsInv'
  BY <1>1, <1>2 DEF IInv, ListsInv, Viewing
<1>6. ASSUME Careful', page'.read = "loaded", page'.trip \in trips'
      PROVE  page'.favorite <=> page'.trip \in wanted'
  <2>1. TripLoaded
    BY <1>6 DEF TripLoaded, TripMissing, IInv, TypeOK
  <2>2. page'.favorite = Contains(current, page.trip) /\ page.trip \in trips
    BY <2>1 DEF TripLoaded, IsFavorite, IInv, TypeOK
  <2>3. Holds(current, trips, wanted)
    BY <1>1, <1>2, <1>6 DEF IInv, ListsInv
  <2> QED
    BY <1>1, <1>4, <2>2, <2>3 DEF Holds
<1>7. ASSUME Careful', page'.read = "missing"
      PROVE  page'.trip \notin trips'
  <2>1. TripMissing
    BY <1>7 DEF TripLoaded, TripMissing, IInv, TypeOK
  <2> QED
    BY <1>1, <1>4, <1>7, <2>1 DEF TripMissing, Careful
<1>8. PageInv'
  BY <1>6, <1>7 DEF PageInv
<1>9. OneView'
  BY <1>1, <1>2 DEF IInv, OneView
<1>10. ViewInv'
  BY <1>1, <1>2 DEF IInv, ViewInv
<1> QED
  BY <1>3, <1>5, <1>8, <1>9, <1>10 DEF IInv

\* The app is started again.
LEMMA EndedKeeps ==
  ASSUME IInv, Ended, presses' \in 0..MaxPresses, hasty' \in 0..MaxHasty, failed' \in BOOLEAN,
         Careful' => Careful
  PROVE  IInv'
<1>1. <<>> \in Seq(Trips) /\ Len(<<>>) = 0
  OBVIOUS
<1>2. NoView \in View /\ NoView.waiting = {} /\ NoView.ids = <<>> /\ NoView.ct = 0
      /\ NoView.holdSelected = <<>>
  BY <1>1 DEF NoView, View
<1>3. TypeOK'
  BY <1>1, <1>2 DEF IInv, TypeOK, Ended, NoPage, OwnTrips
<1>4. \A v \in 1..MaxViews : views'[v] = NoView
  BY DEF Ended
<1>5. ListsInv'
  BY DEF IInv, ListsInv, Ended
<1>6. PageInv'
  BY FavoritesAssumption DEF IInv, TypeOK, PageInv, Ended, NoPage
<1>7. OneView'
  BY <1>2, <1>4 DEF OneView, Ended, OwnTrips
<1>8. ViewInv'
  <2>1. viewed' > 0 => viewed' \in 1..MaxViews
    BY <1>3 DEF TypeOK
  <2>2. ~favoriteView'
    BY DEF Ended
  <2>3. Answered(NoView)
    BY <1>1, <1>2, FS_EmptySet DEF Answered
  <2>4. \A cur, fav : Cleaning(NoView, cur, fav)
    BY <1>2 DEF Cleaning
  <2> QED
    BY <1>4, <2>1, <2>2, <2>3, <2>4 DEF ViewInv
<1> QED
  BY <1>3, <1>5, <1>6, <1>7, <1>8 DEF IInv

LEMMA HeartPressed ==
  ASSUME IInv, heartFilled \/ (heartEmptied /\ Contains(current, page.trip))
  PROVE  IInv'
<1>1. Press /\ UNCHANGED <<trips, current, favoriteView, selected, views, viewed>>
  BY DEF heartFilled, heartEmptied
<1>2. page' = [page EXCEPT !.favorite = ~page.favorite]
  <2>1. page.favorite \in BOOLEAN
    BY DEF IInv, TypeOK
  <2> QED
    BY <2>1 DEF heartFilled, heartEmptied
<1>3. favorites' \in Seq(Trips) /\ wanted' \in SUBSET Trips
  <2>1. CASE heartFilled
    <3>1. page.trip \in Trips
      BY <2>1 DEF heartFilled, IInv, TypeOK
    <3> QED
      BY <2>1, <3>1 DEF heartFilled, addToUsersFavorites, IInv, TypeOK
  <2>2. CASE heartEmptied /\ Contains(current, page.trip)
    BY <2>2, Removed DEF heartEmptied, IInv, TypeOK
  <2> QED
    BY <2>1, <2>2
<1>4. TypeOK'
  BY <1>1, <1>2, <1>3, PressFinds DEF IInv, TypeOK
<1>5. ASSUME Careful'
      PROVE  /\ Careful /\ Holds(current, trips, wanted)
             /\ page.read # "loading" /\ ~Viewing
             /\ page.trip \in trips => (page.favorite <=> page.trip \in wanted)
  <2>1. /\ Careful /\ current = favorites /\ page.read # "loading"
        /\ \A v \in 1..MaxViews : views[v].waiting = {}
    BY <1>1, <1>5, PressFinds DEF IInv
  <2>2. page.read \in {"loaded", "missing"}
    BY <2>1 DEF IInv, TypeOK
  <2> QED
    BY <2>1, <2>2 DEF IInv, ListsInv, PageInv, Viewing
<1>6. ASSUME Careful'
      PROVE  /\ Holds(favorites', trips, wanted')
             /\ page.trip \in trips => (~page.favorite <=> page.trip \in wanted')
  <2>1. CASE heartFilled
    <3>1. page.trip \in Trips /\ ~page.favorite /\ favorites' = Append(current, page.trip)
          /\ wanted' = wanted \cup {page.trip}
      BY <2>1 DEF heartFilled, addToUsersFavorites, IInv, TypeOK
    <3>2. page.trip \in trips => page.trip \notin wanted
      BY <1>5, <1>6, <3>1
    <3> QED
      BY <1>5, <1>6, <3>1, <3>2, HoldsAppended DEF IInv, TypeOK
  <2>2. CASE heartEmptied /\ Contains(current, page.trip)
    <3>1. page.favorite /\ favorites' = removeFromUsersFavorites(page.trip)
          /\ wanted' = wanted \ {page.trip}
      BY <2>2 DEF heartEmptied
    <3>2. PICK k \in 1..Len(current) : /\ current[k] = page.trip
                                       /\ Without(favorites', current, k)
      BY <2>2, <3>1, Removed DEF IInv, TypeOK
    <3>3. Holds(favorites', trips, wanted \ {current[k]})
      BY <1>3, <1>5, <1>6, <3>2, HoldsWithout DEF IInv, TypeOK
    <3> QED
      BY <3>1, <3>2, <3>3
  <2> QED
    BY <2>1, <2>2
<1>7. page'.trip = page.trip /\ page'.read = page.read /\ page'.favorite = ~page.favorite
  BY <1>2 DEF IInv, TypeOK
<1>8. ListsInv'
  BY <1>1, <1>5, <1>6, <1>7 DEF ListsInv, Viewing
<1>9. PageInv'
  BY <1>1, <1>5, <1>6, <1>7 DEF IInv, PageInv
<1>10. OneView'
  BY <1>1, <1>5 DEF IInv, OneView
<1>11. ViewInv'
  <2> SUFFICES ASSUME Careful', viewed' > 0
               PROVE  /\ Answered(views'[viewed']) /\ Cleaning(views'[viewed'], current', favorites')
                      /\ favoriteView' => Shown(views'[viewed'], selected')
    BY DEF ViewInv
  <2>1. viewed \in 1..MaxViews
    BY <1>1 DEF IInv, TypeOK
  <2>2. views[viewed].waiting = {}
    BY <1>5, <2>1 DEF Viewing
  <2> QED
    BY <1>1, <1>5, <2>2 DEF IInv, ViewInv, Cleaning
<1> QED
  BY <1>4, <1>8, <1>9, <1>10, <1>11 DEF IInv

LEMMA HeartKeeps ==
  ASSUME IInv, favoriteButtonPressed
  PROVE  IInv'
<1>1. CASE heartEmptied /\ ~Contains(current, page.trip)
  BY <1>1, EndedKeeps, PressFinds DEF heartEmptied, IInv
<1> QED
  BY <1>1, HeartPressed DEF favoriteButtonPressed

\* A view is begun, or left for the user's own trips.
LEMMA ViewKeeps ==
  ASSUME IInv, favoritesButtonPressed \/ profileAppears
  PROVE  IInv'
<1>1. Press /\ UNCHANGED <<trips, favorites, current, page, wanted>>
      /\ favoriteView' \in BOOLEAN
  BY DEF favoritesButtonPressed, profileAppears, IInv, TypeOK
<1>2. IF favoriteView' THEN handleFavoriteTrips ELSE ShowOwnTrips
  BY DEF favoritesButtonPressed, profileAppears
<1>3. /\ Len(current) \in Nat /\ <<>> \in Seq(Trips) /\ Len(<<>>) = 0
      /\ IsFiniteSet(1..Len(current)) /\ Cardinality(1..Len(current)) = Len(current)
  <2>1. Len(current) \in Nat
    BY DEF IInv, TypeOK
  <2> QED
    BY <2>1, OneTo
<1> DEFINE new == [NoView EXCEPT !.ids = current, !.waiting = 1..Len(current)]
<1>4. /\ new \in View
      /\ new.ids = current /\ new.waiting = 1..Len(current) /\ new.ct = 0 /\ new.holdSelected = <<>>
  <2>1. NoView \in View /\ NoView.ct = 0 /\ NoView.holdSelected = <<>>
    BY <1>3 DEF NoView, View
  <2>2. current \in Seq(Trips) /\ 1..Len(current) \in SUBSET Nat
    BY <1>3 DEF IInv, TypeOK
  <2> QED
    BY <2>1, <2>2 DEF View
<1>5. favoriteView' => /\ viewed' = viewed + 1 /\ viewed' \in 1..MaxViews
                       /\ views' = [views EXCEPT ![viewed'] = new] /\ selected' = selected
  BY <1>2, FavoritesAssumption DEF handleFavoriteTrips, IInv, TypeOK
<1>6. ~favoriteView' => selected' = OwnTrips /\ views' = views /\ viewed' = viewed
  BY <1>2 DEF ShowOwnTrips
<1> HIDE DEF new
<1>7. TypeOK'
  <2>1. selected' \in [own : BOOLEAN, list : Seq(Trips)]
    <3>1. OwnTrips \in [own : BOOLEAN, list : Seq(Trips)]
      BY <1>3 DEF OwnTrips
    <3> QED
      BY <1>1, <1>5, <1>6, <3>1 DEF IInv, TypeOK
  <2>2. /\ views' \in [1..MaxViews -> View] /\ viewed' \in 0..MaxViews
        /\ \A v \in 1..MaxViews : views'[v].waiting \subseteq 1..Len(views'[v].ids)
    <3>1. CASE favoriteView'
      <4>1. views' \in [1..MaxViews -> View]
        BY <1>4, <1>5, <3>1 DEF IInv, TypeOK
      <4>2. \A v \in 1..MaxViews : views'[v] = IF v = viewed' THEN new ELSE views[v]
        BY <1>5, <3>1 DEF IInv, TypeOK
      <4>3. \A v \in 1..MaxViews : views[v].waiting \subseteq 1..Len(views[v].ids)
        BY DEF IInv, TypeOK
      <4>4. new.waiting \subseteq 1..Len(new.ids)
        BY <1>4
      <4>5. \A v \in 1..MaxViews : views'[v].waiting \subseteq 1..Len(views'[v].ids)
        BY <4>2, <4>3, <4>4
      <4>6. viewed' \in 0..MaxViews
        BY <1>5, <3>1
      <4> QED
        BY <4>1, <4>5, <4>6
    <3>2. CASE ~favoriteView'
      BY <1>6, <3>2 DEF IInv, TypeOK
    <3> QED
      BY <1>1, <3>1, <3>2
  <2> QED
    BY <1>1, <2>1, <2>2, PressFinds DEF IInv, TypeOK
<1>8. ASSUME Careful'
      PROVE  /\ Careful /\ current = favorites /\ page.read # "loading"
             /\ \A v \in 1..MaxViews : views[v].waiting = {}
  BY <1>1, <1>8, PressFinds DEF IInv
<1>9. ListsInv'
  BY <1>1, <1>8 DEF IInv, ListsInv
<1>10. PageInv'
  BY <1>1, <1>8 DEF IInv, PageInv
<1>11. OneView'
  <2> SUFFICES ASSUME Careful'
               PROVE  /\ \A v \in 1..MaxViews :
                           views'[v].waiting # {} => v = viewed' /\ favoriteView'
                      /\ ~favoriteView' => selected'.own
    BY DEF OneView
  <2>1. CASE favoriteView'
    <3>1. \A v \in 1..MaxViews : views'[v] = IF v = viewed' THEN new ELSE views[v]
      BY <1>5, <2>1 DEF IInv, TypeOK
    <3> QED
      BY <1>8, <2>1, <3>1
  <2>2. CASE ~favoriteView'
    BY <1>6, <1>8, <2>2 DEF OwnTrips
  <2> QED
    BY <2>1, <2>2
<1>12. ViewInv'
  <2> SUFFICES ASSUME Careful', viewed' > 0
               PROVE  /\ Answered(views'[viewed']) /\ Cleaning(views'[viewed'], current', favorites')
                      /\ favoriteView' => Shown(views'[viewed'], selected')
    BY DEF ViewInv
  <2>1. CASE favoriteView'
    <3>1. views'[viewed'] = new
      BY <1>5, <2>1 DEF IInv, TypeOK
    <3>2. Answered(new)
      BY <1>3, <1>4 DEF Answered
    <3>3. Cleaning(new, current, favorites)
      BY <1>3, <1>4, <1>8 DEF Cleaning
    <3>4. Shown(new, selected')
      <4>1. ASSUME 1..Len(current) = {} PROVE current = <<>>
        BY <1>3, <4>1 DEF IInv, TypeOK
      <4> QED
        BY <1>4, <4>1 DEF Shown
    <3> QED
      BY <1>1, <3>1, <3>2, <3>3, <3>4
  <2>2. CASE ~favoriteView'
    BY <1>1, <1>6, <1>8, <2>2 DEF IInv, ViewInv
  <2> QED
    BY <2>1, <2>2
<1> QED
  BY <1>7, <1>9, <1>10, <1>11, <1>12 DEF IInv

\* A callback of the view on the screen.
LEMMA CountTypes ==
  ASSUME IInv, NEW v \in 1..viewed, NEW i \in views[v].waiting, NEW held \in Seq(Trips),
         Count(v, i, held)
  PROVE  /\ v \in 1..MaxViews /\ i \in 1..Len(views[v].ids)
         /\ views' \in [1..MaxViews -> View]
         /\ \A q \in 1..MaxViews : q # v => views'[q] = views[q]
         /\ views'[v].ids = views[v].ids /\ views'[v].waiting = views[v].waiting \ {i}
         /\ views'[v].ct = views[v].ct + 1 /\ views'[v].holdSelected = held
         /\ selected' \in [own : BOOLEAN, list : Seq(Trips)]
         /\ \A q \in 1..MaxViews : views'[q].waiting \subseteq 1..Len(views'[q].ids)
<1>1. v \in 1..MaxViews /\ views \in [1..MaxViews -> View]
      /\ \A q \in 1..MaxViews : views[q].waiting \subseteq 1..Len(views[q].ids)
  BY ViewOf DEF IInv, TypeOK
<1>2. views[v] \in View
  BY <1>1
<1> DEFINE new == [views[v] EXCEPT !.waiting = @ \ {i}, !.ct = @ + 1, !.holdSelected = held]
<1>3. /\ new \in View /\ new.ids = views[v].ids /\ new.waiting = views[v].waiting \ {i}
      /\ new.ct = views[v].ct + 1 /\ new.holdSelected = held
  <2>1. /\ views[v].ids \in Seq(Trips) /\ views[v].ct + 1 \in Nat
        /\ views[v].waiting \ {i} \in SUBSET Nat
    BY <1>2 DEF View
  <2>2. PICK x \in View : x = views[v]
    BY <1>2
  <2>3. PICK w \in SUBSET Nat : w = views[v].waiting \ {i}
    BY <2>1
  <2>4. PICK n \in Nat : n = views[v].ct + 1
    BY <2>1
  <2> DEFINE y == [x EXCEPT !.waiting = w, !.ct = n, !.holdSelected = held]
  <2>5. y \in View /\ y.ids = x.ids /\ y.waiting = w /\ y.ct = n /\ y.holdSelected = held
    BY DEF View
  <2>6. new = y
    BY <2>2, <2>3, <2>4, Zenon
  <2> HIDE DEF y, new
  <2> QED
    BY <2>2, <2>3, <2>4, <2>5, <2>6
<1>4. views' = [views EXCEPT ![v] = new]
  BY <1>1, <1>2 DEF Count
<1> HIDE DEF new
<1>5. views' \in [1..MaxViews -> View] /\ views'[v] = new
      /\ \A q \in 1..MaxViews : q # v => views'[q] = views[q]
  BY <1>1, <1>3, <1>4
<1>6. \A q \in 1..MaxViews : views'[q].waiting \subseteq 1..Len(views'[q].ids)
  BY <1>1, <1>3, <1>5
<1>7. selected' \in [own : BOOLEAN, list : Seq(Trips)]
  <2>1. Reverse(held) \in Seq(Trips)
    BY ReverseSet
  <2> QED
    BY <2>1 DEF Count, IInv, TypeOK
<1> QED
  BY <1>1, <1>3, <1>5, <1>6, <1>7

\* It is counted: as many answers as positions that no longer wait.
LEMMA CountFinds ==
  ASSUME IInv, Careful, NEW v \in 1..viewed, NEW i \in views[v].waiting, NEW held \in Seq(Trips),
         Count(v, i, held)
  PROVE  /\ v = viewed /\ viewed > 0 /\ viewed \in 1..MaxViews /\ favoriteView
         /\ views[viewed].ct \in Nat /\ Len(views[viewed].ids) \in Nat
         /\ Answered(views[viewed]) /\ Cleaning(views[viewed], current, favorites)
         /\ views'[v].ct = Len(views'[v].ids) - Cardinality(views'[v].waiting)
         /\ views'[v].waiting = {} => views'[v].ct = Len(views'[v].ids)
         /\ \A q \in 1..MaxViews : views'[q].waiting # {} => q = v
<1>1. v \in 1..MaxViews /\ views[v] \in View /\ views[v].waiting \subseteq 1..Len(views[v].ids)
  BY ViewOf DEF IInv
<1>2. v = viewed /\ favoriteView /\ \A q \in 1..MaxViews : views[q].waiting # {} => q = v
  BY <1>1 DEF IInv, OneView
<1>3. viewed > 0
  BY <1>1, <1>2
<1>4. Answered(views[viewed]) /\ Cleaning(views[viewed], current, favorites)
  BY <1>3 DEF IInv, ViewInv
<1>5. views[v].ct \in Nat /\ Len(views[v].ids) \in Nat
  BY <1>1 DEF View
<1>6. IsFiniteSet(views[v].waiting)
  <2>1. IsFiniteSet(1..Len(views[v].ids))
    BY <1>5, FS_Interval
  <2> QED
    BY <1>1, <2>1, FS_Subset
<1>7. Cardinality(views[v].waiting \ {i}) = Cardinality(views[v].waiting) - 1
      /\ Cardinality(views[v].waiting) \in Nat /\ Cardinality({}) = 0
  BY <1>6, FS_RemoveElement, FS_CardinalityType, FS_EmptySet
<1>8. /\ views'[v].ct = views[v].ct + 1 /\ views'[v].waiting = views[v].waiting \ {i}
      /\ views'[v].ids = views[v].ids
      /\ \A q \in 1..MaxViews : q # v => views'[q] = views[q]
  BY CountTypes
<1>9. views[v].ct = Len(views[v].ids) - Cardinality(views[v].waiting)
  BY <1>2, <1>4 DEF Answered
<1>10. views'[v].ct = Len(views'[v].ids) - Cardinality(views'[v].waiting)
  BY <1>5, <1>7, <1>8, <1>9
<1>11. ASSUME views'[v].waiting = {}
       PROVE  views'[v].ct = Len(views'[v].ids)
  <2>1. Cardinality(views'[v].waiting) = 0
    BY <1>7, <1>11
  <2> QED
    BY <1>5, <1>8, <1>10, <2>1
<1>12. \A q \in 1..MaxViews : views'[q].waiting # {} => q = v
  BY <1>2, <1>8
<1> QED
  BY <1>1, <1>2, <1>3, <1>4, <1>5, <1>10, <1>11, <1>12

LEMMA TripCounted ==
  ASSUME IInv, NEW v \in 1..viewed, NEW i \in views[v].waiting, TripFetched(v, i)
  PROVE  IInv'
<1> DEFINE t == views[v].ids[i]
           held == Append(views[v].holdSelected, t)
<1>1. /\ Count(v, i, held)
      /\ UNCHANGED <<trips, favorites, current, page, favoriteView, viewed, presses, wanted,
                     hasty, failed>>
  BY DEF TripFetched, past
<1>2. v \in 1..MaxViews /\ views[v] \in View /\ views[v].waiting \subseteq 1..Len(views[v].ids)
  BY ViewOf DEF IInv
<1>3. /\ views[v].ids \in Seq(Trips) /\ views[v].holdSelected \in Seq(Trips)
      /\ views[v].ct \in Nat /\ i \in 1..Len(views[v].ids) /\ t \in Trips
      /\ Len(views[v].ids) \in Nat /\ Len(views[v].holdSelected) \in Nat
  BY <1>2 DEF View
<1>4. /\ held \in Seq(Trips) /\ Len(held) = Len(views[v].holdSelected) + 1
      /\ held[Len(held)] = t /\ Len(held) \in 1..Len(held)
      /\ \A j \in 1..Len(held) : j = Len(held) \/ (/\ j \in 1..Len(views[v].holdSelected)
                                                  /\ held[j] = views[v].holdSelected[j])
      /\ \A j \in 1..Len(views[v].holdSelected) :
           j \in 1..Len(held) /\ held[j] = views[v].holdSelected[j]
  <2>1. PICK h \in Seq(Trips) : h = views[v].holdSelected
    BY <1>3
  <2>2. PICK u \in Trips : u = t
    BY <1>3
  <2> DEFINE g == Append(h, u)
  <2>3. g \in Seq(Trips) /\ Len(g) = Len(h) + 1 /\ Len(h) \in Nat
    OBVIOUS
  <2>4. g[Len(g)] = u /\ \A j \in 1..Len(h) : g[j] = h[j]
    OBVIOUS
  <2>5. g = held
    BY <2>1, <2>2
  <2> HIDE DEF g
  <2>6. Len(g) \in 1..Len(g) /\ (\A j \in 1..Len(g) : j = Len(g) \/ j \in 1..Len(h))
        /\ \A j \in 1..Len(h) : j \in 1..Len(g)
    BY <2>3
  <2> HIDE DEF t, held
  <2> QED
    BY <2>1, <2>2, <2>3, <2>4, <2>5, <2>6
<1> HIDE DEF held
<1>5. /\ v \in 1..MaxViews
      /\ views' \in [1..MaxViews -> View]
      /\ views'[v].ids = views[v].ids /\ views'[v].waiting = views[v].waiting \ {i}
      /\ views'[v].ct = views[v].ct + 1 /\ views'[v].holdSelected = held
      /\ selected' \in [own : BOOLEAN, list : Seq(Trips)]
      /\ \A q \in 1..MaxViews : views'[q].waiting \subseteq 1..Len(views'[q].ids)
  BY <1>1, <1>4, CountTypes
<1>15. /\ Len(held) = views'[v].ct <=> Len(views[v].holdSelected) = views[v].ct
       /\ Len(held) < views'[v].ct <=> Len(views[v].holdSelected) < views[v].ct
       /\ Len(held) \in Nat /\ views'[v].ct \in Nat
  <2>1. Len(views[v].holdSelected) \in Nat /\ views[v].ct \in Nat
    BY <1>3
  <2>2. Len(held) = Len(views[v].holdSelected) + 1
    BY <1>4
  <2>3. views'[v].ct = views[v].ct + 1
    BY <1>5
  <2> QED
    BY <2>1, <2>2, <2>3
<1>6. TypeOK'
  BY <1>1, <1>5 DEF IInv, TypeOK
<1>7. ASSUME Careful'
      PROVE  /\ Careful /\ v = viewed /\ viewed > 0 /\ favoriteView /\ Viewing
             /\ Answered(views[v]) /\ Cleaning(views[v], current, favorites)
             /\ views'[v].ct = Len(views'[v].ids) - Cardinality(views'[v].waiting)
             /\ views'[v].waiting = {} => views'[v].ct = Len(views'[v].ids)
             /\ \A q \in 1..MaxViews : views'[q].waiting # {} => q = v
  <2>1. Careful
    BY <1>1, <1>7 DEF Careful
  <2> QED
    BY <1>1, <1>4, <1>5, <2>1, CountFinds DEF Viewing
<1>8. ListsInv'
  BY <1>1, <1>7 DEF IInv, ListsInv
<1>9. PageInv'
  BY <1>1, <1>7 DEF IInv, PageInv
<1>10. OneView'
  BY <1>1, <1>7 DEF OneView
<1>11. ASSUME Careful'
       PROVE  Answered(views'[v])
  <2>1. Len(held) <= views'[v].ct
    <3>1. Len(views[v].holdSelected) <= views[v].ct
      BY <1>7, <1>11 DEF Answered
    <3> QED
      BY <1>15, <3>1, <1>3
  <2>2. ASSUME NEW j \in 1..Len(held)
        PROVE  Contains(views[v].ids, held[j])
    <3>1. CASE j = Len(held)
      BY <1>3, <1>4, <3>1 DEF Contains
    <3>2. CASE j # Len(held)
      BY <1>4, <1>7, <1>11, <3>2 DEF Answered
    <3> QED
      BY <3>1, <3>2
  <2>3. ASSUME Len(held) = views'[v].ct, NEW j \in (1..Len(views[v].ids)) \ views'[v].waiting
        PROVE  Contains(held, views[v].ids[j])
    <3>1. CASE j = i
      <4>1. Len(held) \in 1..Len(held)
        BY <1>3, <1>4
      <4> QED
        BY <1>4, <3>1, <4>1 DEF Contains
    <3>2. CASE j # i
      <4>1. Len(views[v].holdSelected) = views[v].ct
        BY <1>15, <2>3
      <4>2. j \in (1..Len(views[v].ids)) \ views[v].waiting
        BY <1>5, <2>3, <3>2
      <4>3. Contains(views[v].holdSelected, views[v].ids[j])
        BY <1>7, <1>11, <4>1, <4>2 DEF Answered
      <4> QED
        BY <1>4, <4>3 DEF Contains
    <3> QED
      BY <3>1, <3>2
  <2> QED
    BY <1>5, <1>7, <1>11, <2>1, <2>2, <2>3 DEF Answered
<1>12. ASSUME Careful'
       PROVE  Cleaning(views'[v], current, favorites)
  <2>1. views'[v].ids = views[v].ids /\ views'[v].holdSelected = held
        /\ (views'[v].waiting # {} => views[v].waiting # {})
    BY <1>5
  <2>2. Cleaning(views[v], current, favorites)
    BY <1>7, <1>12
  <2> QED
    BY <1>15, <2>1, <2>2 DEF Cleaning
<1>13. ASSUME Careful'
       PROVE  Shown(views'[v], selected')
  <2> SUFFICES ASSUME views'[v].waiting = {}, Len(held) = Len(views[v].ids)
               PROVE  ~selected'.own /\ ToSet(selected'.list) = ToSet(views[v].ids)
    BY <1>5 DEF Shown
  <2>1. Len(held) = views'[v].ct /\ Len(views[v].holdSelected) = views[v].ct
    <3>1. views'[v].ct = Len(views'[v].ids) /\ views'[v].ids = views[v].ids
      BY <1>5, <1>7, <1>13
    <3> QED
      BY <1>15, <3>1
  <2>2. current = views[v].ids
    BY <1>7, <1>13, <2>1 DEF Cleaning
  <2>3. selected' = [own |-> FALSE, list |-> Reverse(held)]
    BY <1>1, <1>5, <1>7, <1>13, <2>2 DEF Count, AllCounted
  <2>4. ToSet(held) = ToSet(views[v].ids)
    <3>1. \A j \in 1..Len(held) : Contains(views[v].ids, held[j])
      BY <1>5, <1>11, <1>13 DEF Answered
    <3>2. \A j \in 1..Len(views[v].ids) : Contains(held, views[v].ids[j])
      BY <1>5, <1>11, <1>13, <2>1 DEF Answered
    <3> QED
      BY <1>3, <1>4, <3>1, <3>2, SameMembers
  <2> QED
    BY <1>4, <2>3, <2>4, ReverseSet
<1>14. ViewInv'
  BY <1>1, <1>7, <1>11, <1>12, <1>13 DEF ViewInv
<1> QED
  BY <1>6, <1>8, <1>9, <1>10, <1>14 DEF IInv

LEMMA NilCounted ==
  ASSUME IInv, NEW v \in 1..viewed, NEW i \in views[v].waiting, NilFetched(v, i),
         Contains(current, views[v].ids[i])
  PROVE  IInv'
<1> DEFINE t == views[v].ids[i]
           held == views[v].holdSelected
<1>1. /\ Count(v, i, held) /\ favorites' = removeFromUsersFavorites(t)
      /\ failed' = (failed \/ t \in trips)
      /\ UNCHANGED <<trips, current, page, favoriteView, viewed, presses, wanted, hasty>>
  BY DEF NilFetched
<1>2. v \in 1..MaxViews /\ views[v] \in View
  BY ViewOf DEF IInv
<1>3. held \in Seq(Trips) /\ views[v].ct \in Nat /\ Len(held) \in Nat /\ Len(views[v].ids) \in Nat
  BY <1>2 DEF View
<1>4. current \in Seq(Trips) /\ Len(current) \in Nat
  BY DEF IInv, TypeOK
<1>5. /\ favorites' \in Seq(Trips)
      /\ \E k \in 1..Len(current) : current[k] = t /\ Without(favorites', current, k)
  BY <1>1, <1>4, Removed
<1> HIDE DEF t, held
<1>6. /\ views' \in [1..MaxViews -> View]
      /\ views'[v].ids = views[v].ids /\ views'[v].waiting = views[v].waiting \ {i}
      /\ views'[v].ct = views[v].ct + 1 /\ views'[v].holdSelected = held
      /\ selected' \in [own : BOOLEAN, list : Seq(Trips)]
      /\ \A q \in 1..MaxViews : views'[q].waiting \subseteq 1..Len(views'[q].ids)
  BY <1>1, <1>3, CountTypes
<1>7. TypeOK'
  <2>1. failed' \in BOOLEAN
    BY <1>1 DEF IInv, TypeOK
  <2> QED
    BY <1>1, <1>5, <1>6, <2>1 DEF IInv, TypeOK
<1>8. ASSUME Careful'
      PROVE  /\ Careful /\ t \notin trips /\ v = viewed /\ viewed > 0 /\ favoriteView /\ Viewing
             /\ Answered(views[v]) /\ Cleaning(views[v], current, favorites)
             /\ views'[v].ct = Len(views'[v].ids) - Cardinality(views'[v].waiting)
             /\ views'[v].waiting = {} => views'[v].ct = Len(views'[v].ids)
             /\ \A q \in 1..MaxViews : views'[q].waiting # {} => q = v
  <2>1. Careful /\ t \notin trips
    BY <1>1, <1>8 DEF Careful
  <2> QED
    BY <1>1, <1>2, <1>3, <2>1, CountFinds DEF Viewing
<1>9. ListsInv'
  <2> SUFFICES ASSUME Careful'
               PROVE  Holds(favorites, trips, wanted)' /\ Holds(current, trips, wanted)'
    BY DEF ListsInv
  <2>1. Holds(current, trips, wanted)
    BY <1>8 DEF IInv, ListsInv
  <2>2. PICK k \in 1..Len(current) : current[k] = t /\ Without(favorites', current, k)
    BY <1>5
  <2>3. Holds(favorites', trips, wanted \ {t})
    BY <1>4, <1>5, <2>1, <2>2, HoldsWithout
  <2>4. Holds(favorites', trips, wanted)
    BY <1>8, <2>3, HoldsOthers
  <2> QED
    BY <1>1, <2>1, <2>4
<1>10. PageInv'
  BY <1>1, <1>8 DEF IInv, PageInv
<1>11. OneView'
  BY <1>1, <1>8 DEF OneView
<1>12. ViewInv'
  <2> SUFFICES ASSUME Careful'
               PROVE  /\ Answered(views'[v]) /\ Cleaning(views'[v], current', favorites')
                      /\ Shown(views'[v], selected')
    BY <1>1, <1>8 DEF ViewInv
  <2>1. Len(held) <= views[v].ct
    BY <1>8 DEF Answered, held
  <2>2. Len(held) < views'[v].ct /\ views'[v].holdSelected = held /\ views'[v].ids = views[v].ids
        /\ views'[v].ct \in Nat
    BY <1>3, <1>6, <2>1
  <2>3. Answered(views'[v])
    <3>1. \A j \in 1..Len(held) : Contains(views[v].ids, held[j])
      BY <1>8 DEF Answered, held
    <3> QED
      BY <1>3, <1>8, <2>2, <3>1 DEF Answered
  <2>4. Cleaning(views'[v], current', favorites')
    <3>1. Len(favorites') = Len(current) - 1
      BY <1>5 DEF Without
    <3>2. Len(current) <= Len(views[v].ids)
      BY <1>8 DEF Cleaning
    <3> QED
      BY <1>1, <1>3, <1>4, <2>2, <3>1, <3>2 DEF Cleaning
  <2>5. Shown(views'[v], selected')
    BY <1>3, <1>8, <2>2 DEF Shown
  <2> QED
    BY <2>3, <2>4, <2>5
<1> QED
  BY <1>7, <1>9, <1>10, <1>11, <1>12 DEF IInv

LEMMA NilKeeps ==
  ASSUME IInv, NEW v \in 1..viewed, NEW i \in views[v].waiting, NilFetched(v, i)
  PROVE  IInv'
<1>1. CASE Contains(current, views[v].ids[i])
  BY <1>1, NilCounted
<1>2. CASE ~Contains(current, views[v].ids[i])
  <2>1. Ended /\ UNCHANGED <<presses, hasty>>
        /\ failed' = (failed \/ views[v].ids[i] \in trips)
    BY <1>2 DEF NilFetched
  <2>2. failed' \in BOOLEAN /\ (Careful' => Careful)
    BY <2>1 DEF IInv, TypeOK, Careful
  <2> QED
    BY <2>1, <2>2, EndedKeeps DEF IInv, TypeOK
<1> QED
  BY <1>1, <1>2

LEMMA NotDecodedKeeps ==
  ASSUME IInv, NEW v \in 1..viewed, NEW i \in views[v].waiting, NotDecoded(v, i)
  PROVE  IInv'
<1>1. /\ views' = [views EXCEPT ![v].waiting = @ \ {i}] /\ failed' = TRUE
      /\ UNCHANGED <<trips, favorites, current, page, favoriteView, selected, viewed, presses,
                     wanted, hasty>>
  BY DEF NotDecoded
<1>2. v \in 1..MaxViews /\ views[v] \in View /\ views \in [1..MaxViews -> View]
      /\ \A q \in 1..MaxViews : views[q].waiting \subseteq 1..Len(views[q].ids)
  BY ViewOf DEF IInv, TypeOK
<1>3. PICK w \in SUBSET Nat : w = views[v].waiting \ {i}
  BY <1>2 DEF View
<1>4. [views[v] EXCEPT !.waiting = w] \in View
      /\ [views[v] EXCEPT !.waiting = w].waiting = w
      /\ [views[v] EXCEPT !.waiting = w].ids = views[v].ids
  BY <1>2 DEF View
<1> DEFINE new == [views[v] EXCEPT !.waiting = w]
<1>5. views' = [views EXCEPT ![v] = new]
  BY <1>1, <1>2, <1>3
<1> HIDE DEF new
<1>6. new \in View /\ new.waiting = w /\ new.ids = views[v].ids
  BY <1>4 DEF new
<1>7. views' \in [1..MaxViews -> View]
      /\ \A q \in 1..MaxViews : views'[q] = IF q = v THEN new ELSE views[q]
  BY <1>2, <1>5, <1>6
<1>8. \A q \in 1..MaxViews : views'[q].waiting \subseteq 1..Len(views'[q].ids)
  BY <1>2, <1>3, <1>6, <1>7
<1>9. TypeOK'
  BY <1>1, <1>7, <1>8 DEF IInv, TypeOK
<1>10. ~Careful'
  BY <1>1 DEF Careful
<1> QED
  BY <1>9, <1>10 DEF IInv, ListsInv, PageInv, OneView, ViewInv

\* currentUser catches up with the document.
LEMMA ListenerKeeps ==
  ASSUME IInv, ListenerRefresh
  PROVE  IInv'
<1>1. /\ current # favorites /\ current' = favorites
      /\ UNCHANGED <<trips, favorites, page, favoriteView, selected, views, viewed, presses,
                     wanted, hasty, failed>>
  BY DEF ListenerRefresh, past
<1>2. TypeOK'
  BY <1>1 DEF IInv, TypeOK
<1>3. ListsInv'
  BY <1>1 DEF IInv, ListsInv, Careful
<1>4. PageInv' /\ OneView'
  BY <1>1 DEF IInv, PageInv, OneView, Careful
<1>5. ViewInv'
  <2> SUFFICES ASSUME Careful, viewed > 0
               PROVE  Cleaning(views[viewed], favorites, favorites)
    BY <1>1 DEF IInv, ViewInv, Careful
  <2> QED
    BY <1>1 DEF IInv, ViewInv, Cleaning
<1> QED
  BY <1>2, <1>3, <1>4, <1>5 DEF IInv

LEMMA DeletionKeeps ==
  ASSUME IInv, NEW t \in Trips, TripDeleted(t)
  PROVE  IInv'
<1>1. /\ trips' = trips \ {t}
      /\ UNCHANGED <<favorites, current, page, favoriteView, selected, views, viewed, presses,
                     wanted, hasty, failed>>
  BY DEF TripDeleted, past
<1>2. TypeOK'
  BY <1>1 DEF IInv, TypeOK
<1>3. \A s : Holds(s, trips, wanted) => Holds(s, trips', wanted)
  BY <1>1, HoldsFewer
<1>4. ListsInv'
  BY <1>1, <1>3 DEF IInv, ListsInv, Careful, Viewing
<1>5. PageInv' /\ OneView' /\ ViewInv'
  BY <1>1 DEF IInv, PageInv, OneView, ViewInv, Careful
<1> QED
  BY <1>2, <1>4, <1>5 DEF IInv

LEMMA NextKeeps == IInv /\ [Next]_vars => IInv'
<1> SUFFICES ASSUME IInv, [Next]_vars PROVE IInv'
  OBVIOUS
<1>1. CASE favoriteButtonPressed
  BY <1>1, HeartKeeps
<1>2. CASE favoritesButtonPressed \/ profileAppears
  BY <1>2, ViewKeeps
<1>3. CASE TripLoaded \/ TripMissing
  BY <1>3, PageEnds
<1>4. CASE ListenerRefresh
  BY <1>4, ListenerKeeps
<1>5. ASSUME NEW t \in Trips, viewWillAppear(t) \/ TripDeleted(t)
      PROVE  IInv'
  BY <1>5, PageOpens, DeletionKeeps
<1>6. ASSUME NEW v \in 1..viewed, NEW i \in views[v].waiting,
             TripFetched(v, i) \/ NilFetched(v, i) \/ NotDecoded(v, i)
      PROVE  IInv'
  BY <1>6, TripCounted, NilKeeps, NotDecodedKeeps
<1>7. CASE UNCHANGED vars
  <2>1. UNCHANGED <<trips, favorites, current, page, favoriteView, selected, views, viewed,
                    presses, wanted, hasty, failed>>
    BY <1>7 DEF vars, past
  <2>2. TypeOK'
    BY <2>1 DEF IInv, TypeOK
  <2>3. ListsInv' /\ PageInv' /\ OneView' /\ ViewInv'
    BY <2>1 DEF IInv, ListsInv, PageInv, OneView, ViewInv, Careful, Viewing
  <2> QED
    BY <2>2, <2>3 DEF IInv
<1> QED
  BY <1>1, <1>2, <1>3, <1>4, <1>5, <1>6, <1>7 DEF Next

LEMMA InvariantHolds == Spec => []IInv
BY InitKeeps, NextKeeps, PTL DEF Spec

-----------------------------------------------------------------------------
(* Theorems.                                                               *)

\* For any number of trips, presses and viewings: the heart of a loaded page agrees
\* with the stored list, for a user who waits (TripInfoViewController:37).
THEOREM HeartsTruthful == Spec => []HeartTruthful
<1>1. IInv => HeartTruthful
  <2> SUFFICES ASSUME IInv, hasty = 0, ~failed, page.read = "loaded", page.trip \in trips
               PROVE  page.favorite <=> Contains(favorites, page.trip)
    BY DEF HeartTruthful
  <2> QED
    BY DEF IInv, ListsInv, PageInv, Holds, Careful
<1> QED
  BY <1>1, InvariantHolds, PTL

\* For any number of trips, presses and viewings: no favorite of a trip that exists
\* is lost or doubled by rewriting the whole list, and the profile page shows what
\* it was asked for, for a user who waits (User:158-175, ProfilePageViewController:213-235).
THEOREM FavoritesAlwaysKept == Spec => []FavoritesInv
<1>1. IInv => FavoritesKept
  <2> SUFFICES ASSUME IInv, hasty = 0, ~failed
               PROVE  /\ ToSet(favorites) \cap trips = wanted \cap trips
                      /\ \A i, j \in DOMAIN favorites :
                           favorites[i] = favorites[j] /\ favorites[i] \in trips => i = j
    BY DEF FavoritesKept
  <2>1. Holds(favorites, trips, wanted)
    BY DEF IInv, ListsInv, Careful
  <2>2. DOMAIN favorites = 1..Len(favorites)
    BY DEF IInv, TypeOK
  <2>3. ASSUME NEW t
        PROVE  t \in ToSet(favorites) \cap trips <=> t \in wanted \cap trips
    <3>1. t \in ToSet(favorites) <=> Contains(favorites, t)
      BY <2>2 DEF ToSet, Contains
    <3> QED
      BY <2>1, <3>1 DEF Holds
  <2> QED
    BY <2>1, <2>2, <2>3 DEF Holds
<1>2. IInv => ShowsFavorites
  <2> SUFFICES ASSUME IInv, hasty = 0, ~failed, Settled, viewed > 0
               PROVE  LET v == views[viewed]
                      IN  IF favoriteView
                          THEN v.ids # <<>> /\ Len(v.holdSelected) = Len(v.ids)
                                 => ~selected.own /\ ToSet(selected.list) = ToSet(v.ids)
                          ELSE selected.own
    BY DEF ShowsFavorites
  <2>1. views[viewed].waiting = {}
    BY DEF Settled, IInv, TypeOK
  <2>2. CASE favoriteView
    BY <2>1, <2>2 DEF IInv, ViewInv, Careful, Shown
  <2>3. CASE ~favoriteView
    BY <2>3 DEF IInv, OneView, Careful
  <2> QED
    BY <2>2, <2>3
<1>3. IInv => FavoritesInv
  BY <1>1, <1>2 DEF IInv, FavoritesInv
<1> QED
  BY <1>3, InvariantHolds, PTL

-----------------------------------------------------------------------------
(* Viewings.                                                               *)

LEMMA MembersCounted ==
  ASSUME NEW s \in Seq(Trips)
  PROVE  Cardinality(ToSet(s)) \in Nat /\ Cardinality(ToSet(s)) <= Len(s)
<1>1. Len(s) \in Nat /\ DOMAIN s = 1..Len(s)
  OBVIOUS
<1>2. IsFiniteSet(1..Len(s)) /\ Cardinality(1..Len(s)) = Len(s)
  BY <1>1, OneTo
<1>3. s \in Surjection(1..Len(s), ToSet(s))
  BY <1>1 DEF Surjection, ToSet
<1>4. IsFiniteSet(ToSet(s)) /\ Cardinality(ToSet(s)) <= Len(s)
  BY <1>2, <1>3, FS_Surjection
<1> QED
  BY <1>4, FS_CardinalityType

\* Only a callback of a view ends its wait.
LEMMA WhoAnswers ==
  ASSUME IInv, Next, NEW v \in 1..viewed, views[v].waiting # {}, views'[v].waiting = {},
         views[v].ids = views'[v].ids, Careful'
  PROVE  \E i \in views[v].waiting :
           TripFetched(v, i) \/ (NilFetched(v, i) /\ Contains(current, views[v].ids[i]))
<1>1. v \in 1..MaxViews /\ views \in [1..MaxViews -> View]
      /\ views[v].waiting \subseteq 1..Len(views[v].ids)
  BY ViewOf DEF IInv, TypeOK
<1>2. ~Ended
  <2>1. ASSUME Ended PROVE FALSE
    <3>1. views'[v].ids = <<>>
      BY <1>1, <2>1 DEF Ended, NoView
    <3>2. Len(views[v].ids) = 0
      BY <3>1
    <3> QED
      BY <1>1, <3>2
  <2> QED
    BY <2>1
<1>3. ~(UNCHANGED views)
  OBVIOUS
<1>4. ~handleFavoriteTrips
  <2>1. ASSUME handleFavoriteTrips PROVE views'[v] = views[v]
    <3>1. viewed \in Nat /\ viewed + 1 # v
      BY DEF IInv, TypeOK
    <3> QED
      BY <1>1, <2>1, <3>1 DEF handleFavoriteTrips
  <2> QED
    BY <2>1
<1>5. ~favoriteButtonPressed
  BY <1>2, <1>3 DEF favoriteButtonPressed, heartFilled, heartEmptied
<1>6. ~favoritesButtonPressed /\ ~profileAppears
  BY <1>3, <1>4 DEF favoritesButtonPressed, profileAppears, ShowOwnTrips
<1>7. ~TripLoaded /\ ~TripMissing /\ ~ListenerRefresh
      /\ \A t \in Trips : ~viewWillAppear(t) /\ ~TripDeleted(t)
  BY <1>3 DEF TripLoaded, TripMissing, ListenerRefresh, viewWillAppear, TripDeleted
<1>8. PICK q \in 1..viewed : \E i \in views[q].waiting :
             TripFetched(q, i) \/ NilFetched(q, i) \/ NotDecoded(q, i)
  BY <1>5, <1>6, <1>7 DEF Next
<1>9. PICK i \in views[q].waiting : TripFetched(q, i) \/ NilFetched(q, i) \/ NotDecoded(q, i)
  BY <1>8
<1>10. ~NotDecoded(q, i)
  BY DEF NotDecoded, Careful
<1>11. TripFetched(q, i) \/ (NilFetched(q, i) /\ Contains(current, views[q].ids[i]))
  BY <1>2, <1>9, <1>10 DEF NilFetched
<1>12. \E held : views' = [views EXCEPT ![q].waiting = @ \ {i}, ![q].ct = @ + 1,
                                        ![q].holdSelected = held]
  BY <1>11 DEF TripFetched, NilFetched, Count
<1>13. q = v
  BY <1>1, <1>12
<1> QED
  BY <1>9, <1>11, <1>13

\* For any number of trips, presses and viewings: a fetch that found deleted trips ends
\* with fewer favorites than it began with, for a user who waits (User:89).
THEOREM ViewingsClean == Spec => ViewingCleans
<1>1. ASSUME IInv, Next, NEW v \in 1..viewed,
             views[v].waiting # {}, views'[v].waiting = {}, views[v].ids = views'[v].ids,
             Len(views'[v].holdSelected) < Len(views'[v].ids), hasty' = 0, ~failed'
      PROVE  Cardinality(ToSet(favorites')) < Len(views'[v].ids)
  <2>1. PICK i \in views[v].waiting :
           TripFetched(v, i) \/ (NilFetched(v, i) /\ Contains(current, views[v].ids[i]))
    BY <1>1, WhoAnswers DEF Careful
  <2>2. v \in 1..MaxViews /\ views[v] \in View
    BY <1>1, FavoritesAssumption DEF IInv, TypeOK
  <2>3. Len(views[v].holdSelected) \in Nat /\ views[v].ct \in Nat /\ Len(views[v].ids) \in Nat
        /\ views[v].holdSelected \in Seq(Trips) /\ views[v].ids \in Seq(Trips)
        /\ i \in 1..Len(views[v].ids)
    <3>1. views[v].waiting \subseteq 1..Len(views[v].ids)
      BY <1>1, <2>2 DEF IInv, TypeOK
    <3> QED
      BY <2>2, <3>1 DEF View
  <2>4. IInv'
    BY <1>1, NextKeeps
  <2>5. favorites' \in Seq(Trips) /\ Len(favorites') \in Nat
    BY <2>4 DEF IInv, TypeOK
  <2>6. Cardinality(ToSet(favorites')) \in Nat /\ Cardinality(ToSet(favorites')) <= Len(favorites')
    BY <2>5, MembersCounted
  <2>7. CASE TripFetched(v, i)
    <3> DEFINE held == Append(views[v].holdSelected, views[v].ids[i])
    <3>1. Count(v, i, held) /\ Careful /\ favorites' = favorites
      BY <1>1, <2>7 DEF TripFetched, past, Careful
    <3>2. held \in Seq(Trips) /\ Len(held) = Len(views[v].holdSelected) + 1
      BY <2>3
    <3> HIDE DEF held
    <3>3. v = viewed /\ Cleaning(views[viewed], current, favorites) /\ Answered(views[viewed])
          /\ views'[v].ct = Len(views'[v].ids)
      BY <1>1, <3>1, <3>2, CountFinds
    <3>4. views'[v].ct = views[v].ct + 1 /\ views'[v].holdSelected = held
      BY <1>1, <3>1, <3>2, CountTypes
    <3>5. Len(views[v].holdSelected) < views[v].ct
      BY <1>1, <2>3, <3>2, <3>3, <3>4
    <3>6. Len(favorites) < Len(views[v].ids)
      BY <1>1, <3>3, <3>5 DEF Cleaning
    <3> QED
      BY <1>1, <2>3, <2>5, <2>6, <3>1, <3>6
  <2>8. CASE NilFetched(v, i) /\ Contains(current, views[v].ids[i])
    <3>1. /\ Count(v, i, views[v].holdSelected) /\ Careful
          /\ favorites' = removeFromUsersFavorites(views[v].ids[i])
      BY <1>1, <2>8 DEF NilFetched, Careful
    <3>2. v = viewed /\ Cleaning(views[viewed], current, favorites)
      BY <1>1, <2>3, <3>1, CountFinds
    <3>3. Len(current) <= Len(views[v].ids)
      BY <1>1, <3>2 DEF Cleaning
    <3>4. Len(favorites') = Len(current) - 1 /\ Len(current) \in Nat
      <4>1. current \in Seq(Trips)
        BY <1>1 DEF IInv, TypeOK
      <4>2. \E k \in 1..Len(current) : Without(favorites', current, k)
        BY <2>8, <3>1, <4>1, Removed
      <4> QED
        BY <4>1, <4>2 DEF Without
    <3> QED
      BY <1>1, <2>3, <2>5, <2>6, <3>3, <3>4
  <2> QED
    BY <2>1, <2>7, <2>8
<1>2. IInv /\ [Next]_vars =>
        [\A v \in 1..viewed :
           /\ views[v].waiting # {} /\ views'[v].waiting = {} /\ views[v].ids = views'[v].ids
           /\ Len(views'[v].holdSelected) < Len(views'[v].ids)
           /\ hasty' = 0 /\ ~failed'
           => Cardinality(ToSet(favorites')) < Len(views'[v].ids)]_vars
  BY <1>1
<1> QED
  BY <1>2, InvariantHolds, PTL DEF Spec, ViewingCleans
=============================================================================

------------------------------ MODULE Favorites -----------------------------
(***************************************************************************)
(* The favorite trips of the user of one device: the heart of a trip's     *)
(* page (TripInfoViewController), the favorites of the profile page        *)
(* (ProfilePageViewController) and the list users/{uid}.favorites, which   *)
(* every change rewrites as a whole from currentUser (User.swift).         *)
(*                                                                         *)
(* A write is visible to later reads of the device that made it; the       *)
(* listener of the tab bar then fetches the document into currentUser.     *)
(* Other users may delete a trip at any time, and a read may fail.         *)
(***************************************************************************)
EXTENDS Naturals, Sequences, FiniteSets, SequencesExt

CONSTANTS Trips,
          NoTrip,
          MaxPresses,  \* bound on what the user does
          MaxHasty,    \* bound on what the user does before all is settled
          MaxViews     \* bound on the times the favorites are fetched

ASSUME FavoritesAssumption == /\ IsFiniteSet(Trips) /\ NoTrip \notin Trips
                              /\ MaxPresses \in Nat /\ MaxHasty \in Nat /\ MaxViews \in Nat

VARIABLES trips,         \* the trips that exist
          favorites,     \* users/{uid}.favorites
          current,       \* currentUser.favorites
          page,          \* the trip's page: its trip, its read and its heart
          favoriteView,  \* the profile page shows favorites
          selected,      \* selectedTripData: the user's own trips or these
          views,         \* the calls of handleFavoriteTrips
          viewed,        \* their number
          presses,
          wanted,        \* history: the trips whose heart the user filled last,
          hasty,         \* the presses made before all was settled,
          failed         \* whether a read has failed

past == <<hasty, failed>>
vars == <<trips, favorites, current, page, favoriteView, selected, views, viewed,
          presses, wanted, past>>

NoPage == [trip |-> NoTrip, read |-> "loaded", favorite |-> FALSE]
NoView == [ids |-> <<>>, waiting |-> {}, ct |-> 0, holdSelected |-> <<>>]
OwnTrips == [own |-> TRUE, list |-> <<>>]

View == [ids : Seq(Trips), waiting : SUBSET Nat, ct : Nat, holdSelected : Seq(Trips)]

TypeOK ==
  /\ trips \in SUBSET Trips /\ wanted \in SUBSET Trips
  /\ favorites \in Seq(Trips) /\ current \in Seq(Trips)
  /\ page \in [trip : Trips \cup {NoTrip}, read : {"loading", "loaded", "missing"},
               favorite : BOOLEAN]
  /\ favoriteView \in BOOLEAN
  /\ selected \in [own : BOOLEAN, list : Seq(Trips)]
  /\ views \in [1..MaxViews -> View]
  /\ \A v \in 1..MaxViews : views[v].waiting \subseteq 1..Len(views[v].ids)
  /\ viewed \in 0..MaxViews /\ presses \in 0..MaxPresses
  /\ hasty \in 0..MaxHasty /\ failed \in BOOLEAN

\* A user with some favorites, none of them deleted yet, opens the app.
Init == /\ trips = Trips
        /\ favorites \in {SetToSeq(S) : S \in SUBSET Trips}
        /\ current = favorites
        /\ page = NoPage
        /\ favoriteView = FALSE /\ selected = OwnTrips
        /\ views = [v \in 1..MaxViews |-> NoView] /\ viewed = 0
        /\ presses = 0 /\ wanted = ToSet(favorites)
        /\ hasty = 0 /\ failed = FALSE

-----------------------------------------------------------------------------
Settled == /\ current = favorites
           /\ page.read # "loading"
           /\ \A v \in 1..MaxViews : views[v].waiting = {}

Press == /\ presses < MaxPresses
         /\ presses' = presses + 1
         /\ hasty' = hasty + (IF Settled THEN 0 ELSE 1)
         /\ hasty' <= MaxHasty
         /\ UNCHANGED failed

\* A trip's page is opened, from wherever trips are listed, or the same appears again.
viewWillAppear(t) ==
  /\ Press
  /\ \E heart \in {FALSE, page.trip = t /\ page.favorite} :
       page' = [trip |-> t, read |-> "loading", favorite |-> heart]
  /\ UNCHANGED <<trips, favorites, current, favoriteView, selected, views, viewed, wanted>>

\* Mutant: the heart is left as the page was made.
FavoriteAsMade(t) == FALSE

IsFavorite(t) == Contains(current, t)

\* loadTripData: a read that fails ends like one that finds no trip.
TripLoaded ==
  /\ page.read = "loading" /\ page.trip \in trips
  /\ page' = [page EXCEPT !.read = "loaded", !.favorite = IsFavorite(page.trip)]
  /\ UNCHANGED <<trips, favorites, current, favoriteView, selected, views, viewed, presses,
                 wanted, past>>

TripMissing ==
  /\ page.read = "loading"
  /\ page' = [page EXCEPT !.read = "missing"]
  /\ failed' = (failed \/ page.trip \in trips)
  /\ UNCHANGED <<trips, favorites, current, favoriteView, selected, views, viewed, presses,
                 wanted, hasty>>

-----------------------------------------------------------------------------

addToUsersFavorites(t) == Append(current, t)

\* Mutants: nothing is removed; the favorite after the one meant is.
RemovesNothing(t) == current
RemovesNext(t) == LET i == SelectInSeq(current, LAMBDA x : x = t)
                  IN  RemoveAt(current, IF i = Len(current) THEN i ELSE i + 1)

removeFromUsersFavorites(t) == RemoveAt(current, SelectInSeq(current, LAMBDA x : x = t))

\* The app ends on "firstIndex(of: tripId)!" and is started again.
Ended == /\ current' = favorites
         /\ page' = NoPage
         /\ favoriteView' = FALSE /\ selected' = OwnTrips
         /\ views' = [v \in 1..MaxViews |-> NoView]
         /\ UNCHANGED <<trips, favorites, viewed, wanted>>

heartFilled ==
  /\ page.trip # NoTrip /\ ~page.favorite
  /\ Press
  /\ page' = [page EXCEPT !.favorite = TRUE]
  /\ favorites' = addToUsersFavorites(page.trip)
  /\ wanted' = wanted \cup {page.trip}
  /\ UNCHANGED <<trips, current, favoriteView, selected, views, viewed>>

heartEmptied ==
  /\ page.favorite
  /\ Press
  /\ IF ~Contains(current, page.trip) THEN Ended
     ELSE /\ page' = [page EXCEPT !.favorite = FALSE]
          /\ favorites' = removeFromUsersFavorites(page.trip)
          /\ wanted' = wanted \ {page.trip}
          /\ UNCHANGED <<trips, current, favoriteView, selected, views, viewed>>

favoriteButtonPressed == heartFilled \/ heartEmptied

-----------------------------------------------------------------------------
\* One read per favorite; without favorites nothing at all happens.
handleFavoriteTrips ==
  /\ viewed < MaxViews
  /\ viewed' = viewed + 1
  /\ views' = [views EXCEPT ![viewed + 1] = [NoView EXCEPT !.ids = current,
                                                           !.waiting = 1..Len(current)]]
  /\ UNCHANGED selected

ShowOwnTrips == selected' = OwnTrips /\ UNCHANGED <<views, viewed>>

favoritesButtonPressed ==
  /\ Press
  /\ favoriteView' = ~favoriteView
  /\ IF favoriteView' THEN handleFavoriteTrips ELSE ShowOwnTrips
  /\ UNCHANGED <<trips, favorites, current, page, wanted>>

\* viewWillAppear and setUpProfilePage of the user's own page.
profileAppears ==
  /\ Press
  /\ IF favoriteView THEN handleFavoriteTrips ELSE ShowOwnTrips
  /\ UNCHANGED <<trips, favorites, current, page, favoriteView, wanted>>

\* ct's didSet compares it with currentUser.favorites as it is now.
AllCounted(ct) == ct = Len(current)

\* A callback of fetchTrip ends with "ct = ct + 1".
Count(v, i, held) ==
  /\ views' = [views EXCEPT ![v].waiting = @ \ {i}, ![v].ct = @ + 1,
                            ![v].holdSelected = held]
  /\ selected' = IF AllCounted(views[v].ct + 1) THEN [own |-> FALSE, list |-> Reverse(held)]
                                                ELSE selected

TripFetched(v, i) ==
  /\ i \in views[v].waiting /\ views[v].ids[i] \in trips
  /\ Count(v, i, Append(views[v].holdSelected, views[v].ids[i]))
  /\ UNCHANGED <<trips, favorites, current, page, favoriteView, viewed, presses, wanted, past>>

\* fetchTrip answers nil for a trip that does not exist and for a read that failed.
NilFetched(v, i) ==
  LET t == views[v].ids[i]
  IN  /\ i \in views[v].waiting
      /\ failed' = (failed \/ t \in trips)
      /\ UNCHANGED <<presses, hasty>>
      /\ IF ~Contains(current, t) THEN Ended
         ELSE /\ favorites' = removeFromUsersFavorites(t)
              /\ Count(v, i, views[v].holdSelected)
              /\ UNCHANGED <<trips, current, page, favoriteView, viewed, wanted>>

\* "Error decoding": a trip whose cover was never written; no callback.
NotDecoded(v, i) ==
  /\ i \in views[v].waiting /\ views[v].ids[i] \in trips
  /\ views' = [views EXCEPT ![v].waiting = @ \ {i}]
  /\ failed' = TRUE
  /\ UNCHANGED <<trips, favorites, current, page, favoriteView, selected, viewed, presses,
                 wanted, hasty>>

\* The tab bar's listener and its fetchUser.
ListenerRefresh ==
  /\ current # favorites
  /\ current' = favorites
  /\ UNCHANGED <<trips, favorites, page, favoriteView, selected, views, viewed, presses,
                 wanted, past>>

\* The trip's owner deletes it (module TripEditor).
TripDeleted(t) ==
  /\ trips' = trips \ {t} /\ t \in trips
  /\ UNCHANGED <<favorites, current, page, favoriteView, selected, views, viewed, presses,
                 wanted, past>>

Next == \/ favoriteButtonPressed \/ favoritesButtonPressed \/ profileAppears
        \/ TripLoaded \/ TripMissing \/ ListenerRefresh
        \/ \E t \in Trips : viewWillAppear(t) \/ TripDeleted(t)
        \/ \E v \in 1..viewed : \E i \in views[v].waiting :
             TripFetched(v, i) \/ NilFetched(v, i) \/ NotDecoded(v, i)

Spec == Init /\ [][Next]_vars

-----------------------------------------------------------------------------
\* "is this trip is one of the user's favorites" (TripInfoViewController:37):
\* the heart of a loaded page agrees with the stored list, although each is
\* derived from currentUser at another moment, for a user who waits.
HeartTruthful ==
  hasty = 0 /\ ~failed /\ Settled /\ page.read = "loaded" /\ page.trip \in trips
    => (page.favorite <=> Contains(favorites, page.trip))

\* No rewrite of the whole list, not even those that clear deleted trips away,
\* loses or doubles a favorite of a trip that exists, for a user who waits.
FavoritesKept ==
  hasty = 0 /\ ~failed /\ Settled
    => /\ ToSet(favorites) \cap trips = wanted \cap trips
       /\ \A i, j \in DOMAIN favorites :
            favorites[i] = favorites[j] /\ favorites[i] \in trips => i = j

\* "Trip does not exist, removing from favorites" (User:89): a fetch that
\* found deleted trips ends with fewer favorites than it began with, although its
\* rewrites start from the same currentUser and undo each other.
ViewingCleans ==
  [][\A v \in 1..viewed :
       /\ views[v].waiting # {} /\ views'[v].waiting = {} /\ views[v].ids = views'[v].ids
       /\ Len(views'[v].holdSelected) < Len(views'[v].ids)
       /\ hasty' = 0 /\ ~failed'
       => Cardinality(ToSet(favorites')) < Len(views'[v].ids)]_vars

\* "toggle to trips of favorites" (ProfilePageViewController:116): once a fetch
\* that found every trip has ended the page shows exactly the favorites it was
\* begun for, and in the other view the user's own trips.
ShowsFavorites ==
  hasty = 0 /\ ~failed /\ Settled /\ viewed > 0
    => LET v == views[viewed]
       IN  IF favoriteView
           THEN v.ids # <<>> /\ Len(v.holdSelected) = Len(v.ids)
                  => ~selected.own /\ ToSet(selected.list) = ToSet(v.ids)
           ELSE selected.own

\* The lists hold ids of trips, the counters count, no favorite is lost and the page
\* shows what it was asked for (User:158-175, ProfilePageViewController:213-235).
FavoritesInv == TypeOK /\ FavoritesKept /\ ShowsFavorites
=============================================================================

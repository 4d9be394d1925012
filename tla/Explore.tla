------------------------------ MODULE Explore -------------------------------
(***************************************************************************)
(* The explore page (ExploreViewController): all entries, or the entries   *)
(* of one location.  The query text is a property the main thread writes,  *)
(* a background queue reads when the load is issued, and the answer reads  *)
(* once more and clears.                                                   *)
(***************************************************************************)
EXTENDS Naturals, FiniteSets

CONSTANTS Places,      \* texts and place names a user may search for
          PlaceTitle,  \* placemark.title of the place found for a row's text
          NoText,      \* the empty string
          NoName,      \* the query for entries whose locationName is the empty string
          MaxTouches,  \* bound on what the user does
          MaxHasty     \* bound on what the user does before all answers are in

ASSUME ExploreAssumption == /\ NoText \notin Places /\ NoName \notin Places \cup {NoText}
                            /\ PlaceTitle \in [Places -> Places]
                            /\ MaxTouches \in Nat /\ MaxHasty \in Nat

VARIABLES barText,      \* what the search bar shows
          searchQuery,  \* "Search query for filtering"
          isFiltered,   \* "True if page is filtered, false if not"
          entries,      \* the query whose result is in the list of entries
          searching,    \* the search view is in front
          dispatched,   \* loadEntryData calls waiting on the background queue
          building,     \* blocks that found a query text and have not read it yet
          asked,        \* queries without an answer: how many of each
          lookups,      \* place lookups (MKLocalSearch) without an answer
          reloads,      \* blocks waiting on the main queue
          spinning,     \* the refresh control spins
          wanted,       \* history: the row picked, until the next touch
          touches, hasty, failed  \* history: touches, those before all answers
                                  \* were in, whether a call ended in an error

past == <<touches, hasty, failed>>
exploreVars == <<barText, searchQuery, isFiltered, entries, searching, dispatched, building, asked,
                 lookups, reloads, spinning, wanted, past>>

Texts == Places \cup {NoText}
Queries == Texts \cup {NoName}

ExploreTypeOK ==
  /\ barText \in Texts /\ searchQuery \in Texts /\ entries \in Queries /\ wanted \in Texts
  /\ isFiltered \in BOOLEAN /\ searching \in BOOLEAN /\ spinning \in BOOLEAN
  /\ dispatched \in Nat /\ building \in Nat /\ reloads \in Nat
  /\ touches \in 0..MaxTouches /\ hasty \in 0..MaxHasty /\ failed \in BOOLEAN
  /\ asked \in [Queries -> Nat]
  /\ lookups \in SUBSET Places

Settled == dispatched = 0 /\ building = 0 /\ reloads = 0 /\ lookups = {} /\ \A q \in Queries : asked[q] = 0

Touch == /\ touches < MaxTouches
         /\ touches' = touches + 1
         /\ hasty' = IF Settled THEN hasty ELSE hasty + 1
         /\ hasty' <= MaxHasty
         /\ UNCHANGED failed

\* viewDidLoad has dispatched the first load.
ExploreInit == /\ barText = NoText /\ searchQuery = NoText /\ entries = NoText /\ wanted = NoText
               /\ isFiltered = FALSE /\ searching = FALSE /\ spinning = FALSE
               /\ dispatched = 1 /\ building = 0 /\ reloads = 0
               /\ touches = 0 /\ hasty = 0 /\ failed = FALSE
               /\ asked = [q \in Queries |-> 0]
               /\ lookups = {}

-----------------------------------------------------------------------------
\* exitSearch(loadEntries:transition:)
exitSearch(load, transition) ==
  /\ dispatched' = IF load THEN dispatched + 1 ELSE dispatched
  /\ searching' = IF transition THEN FALSE ELSE searching

\* The list is transparent, and not touched, while the search view is in front.
PullToRefresh ==
  /\ Touch
  /\ ~searching /\ ~spinning
  /\ wanted' = NoText
  /\ spinning' = TRUE
  /\ dispatched' = dispatched + 1
  /\ UNCHANGED <<barText, searchQuery, isFiltered, entries, searching, building, asked, lookups, reloads>>

\* While the page is filtered the keyboard is put away at once.
searchBarTextDidBeginEditing ==
  /\ Touch
  /\ wanted' = NoText
  /\ ~isFiltered /\ ~searching
  /\ searching' = TRUE
  /\ UNCHANGED <<barText, searchQuery, isFiltered, entries, dispatched, building, asked, lookups, reloads,
                 spinning>>

\* Typing needs the search view; the clear button of the bar does not.
textDidChange(text) ==
  /\ Touch
  /\ wanted' = NoText
  /\ searching \/ text = NoText
  /\ text # barText
  /\ barText' = text
  /\ searchQuery' = text
  /\ IF text = NoText /\ isFiltered THEN exitSearch(TRUE, FALSE)
                                    ELSE UNCHANGED <<dispatched, searching>>
  /\ UNCHANGED <<building, isFiltered, entries, asked, lookups, reloads, spinning>>

searchButtonClicked ==
  /\ Touch
  /\ wanted' = NoText
  /\ searching /\ barText # NoText
  /\ exitSearch(TRUE, TRUE)
  /\ UNCHANGED <<building, barText, searchQuery, isFiltered, entries, asked, lookups, reloads, spinning>>

\* Setting the text of the bar in code does not call textDidChange.
cancelButtonClicked ==
  /\ Touch
  /\ wanted' = NoText
  /\ searching
  /\ barText' = NoText
  /\ exitSearch(FALSE, TRUE)
  /\ UNCHANGED <<building, searchQuery, isFiltered, entries, asked, lookups, reloads, spinning>>

didSelectRow(place) ==
  /\ Touch
  /\ searching
  /\ barText' = place
  /\ lookups' = lookups \cup {place}
  /\ wanted' = place
  /\ UNCHANGED <<searchQuery, isFiltered, entries, searching, dispatched, building, asked, reloads,
                 spinning>>

-----------------------------------------------------------------------------
\* The bar keeps the text of the row, the query takes the title of the place.
PlaceFound(place) ==
  /\ place \in lookups
  /\ lookups' = lookups \ {place}
  /\ searchQuery' = PlaceTitle[place]
  /\ exitSearch(TRUE, TRUE)
  /\ UNCHANGED <<building, barText, isFiltered, entries, asked, reloads, spinning, wanted, past>>

PlaceFailed(place) ==
  /\ failed' = TRUE
  /\ place \in lookups
  /\ lookups' = lookups \ {place}
  /\ UNCHANGED <<barText, searchQuery, isFiltered, entries, searching, dispatched, building, asked, reloads,
                 spinning, wanted, touches, hasty>>

\* Mutant: the background block does not use the query text.
LoadAll ==
  /\ dispatched > 0
  /\ dispatched' = dispatched - 1
  /\ asked' = [asked EXCEPT ![NoText] = @ + 1]
  /\ UNCHANGED <<building, barText, searchQuery, isFiltered, entries, searching, lookups, reloads,
                 spinning, wanted, past>>

\* The background queue runs loadEntryData: an empty searchQuery asks for all entries.
loadEntryData ==
  /\ dispatched > 0
  /\ dispatched' = dispatched - 1
  /\ IF searchQuery = NoText
       THEN asked' = [asked EXCEPT ![NoText] = @ + 1] /\ building' = building
       ELSE building' = building + 1 /\ asked' = asked
  /\ UNCHANGED <<barText, searchQuery, isFiltered, entries, searching, lookups, reloads,
                 spinning, wanted, past>>

\* Signed out in the meantime: "if let _ = user" and nothing else.
LoadSignedOut ==
  /\ dispatched > 0
  /\ dispatched' = dispatched - 1
  /\ failed' = TRUE
  /\ UNCHANGED <<barText, searchQuery, isFiltered, entries, searching, building, asked, lookups, reloads,
                 spinning, wanted, touches, hasty>>

\* A filtered query reads searchQuery a second time, without a lock: the main
\* thread may have changed or cleared it since.
BuildQuery ==
  /\ building > 0
  /\ building' = building - 1
  /\ asked' = [asked EXCEPT ![IF searchQuery = NoText THEN NoName ELSE searchQuery] = @ + 1]
  /\ UNCHANGED <<barText, searchQuery, isFiltered, entries, searching, dispatched, lookups,
                 reloads, spinning, wanted, past>>

\* Mutant: the flag is computed after the query text was cleared.
FlagAfterClear(query) == FALSE

FilterFlag(query) == query # NoText

\* Mutant: the spinner is left to the next load.
BlocksPosted(n) == n

\* DispatchQueue.main.async { endRefreshing; reloadData }
Posted(n) == n + 1

\* The answer to q: the entries are replaced, the flag and the query text are
\* those of this moment.
EntriesFetched(q) ==
  /\ asked[q] > 0
  /\ asked' = [asked EXCEPT ![q] = @ - 1]
  /\ entries' = q
  /\ isFiltered' = FilterFlag(searchQuery)
  /\ searchQuery' = NoText
  /\ reloads' = Posted(reloads)
  /\ UNCHANGED <<building, barText, searching, dispatched, lookups, spinning, wanted, past>>

\* On an error nothing happens, the refresh control included.
FetchFailed(q) ==
  /\ failed' = TRUE
  /\ asked[q] > 0
  /\ asked' = [asked EXCEPT ![q] = @ - 1]
  /\ UNCHANGED <<building, barText, searchQuery, isFiltered, entries, searching, dispatched, lookups,
                 reloads, spinning, wanted, touches, hasty>>

Reload ==
  /\ reloads > 0
  /\ reloads' = reloads - 1
  /\ spinning' = FALSE
  /\ UNCHANGED <<barText, searchQuery, isFiltered, entries, searching, dispatched, building, asked, lookups,
                 wanted, past>>

User == \/ PullToRefresh
        \/ searchBarTextDidBeginEditing
        \/ \E t \in Texts : textDidChange(t)
        \/ searchButtonClicked
        \/ cancelButtonClicked
        \/ \E p \in Places : didSelectRow(p)

Lookup == \E p \in Places : PlaceFound(p)
ExploreAnswer == \E q \in Queries : EntriesFetched(q)

ExploreNext == \/ User
               \/ Lookup \/ ExploreAnswer \/ loadEntryData \/ BuildQuery \/ Reload
               \/ LoadSignedOut
               \/ \E p \in Places : PlaceFailed(p)
               \/ \E q \in Queries : FetchFailed(q)

ExploreSpec == ExploreInit /\ [][ExploreNext]_exploreVars

\* Queues run their blocks and services answer; the user need not do anything.
ExploreFairSpec == /\ ExploreSpec
                   /\ WF_exploreVars(Lookup)
                   /\ WF_exploreVars(loadEntryData) /\ WF_exploreVars(BuildQuery)
                   /\ WF_exploreVars(Reload)
                   /\ \A q \in Queries : WF_exploreVars(EntriesFetched(q))

-----------------------------------------------------------------------------
\* "True if page is filtered, false if not" (ExploreViewController:49): for a user
\* who waits for every answer the flag that locks the search bar agrees with the
\* entries on the page, errors included.
FilterFlagTruthful == Settled /\ hasty = 0 => (isFiltered <=> entries # NoText)

\* The page's fields keep their types, every call is answered once at most, and the
\* filter flag is truthful (ExploreViewController:152-192).
FilterInv == ExploreTypeOK /\ FilterFlagTruthful

\* Every pull stops spinning, also when loads overlap, unless a query failed.
SpinnerEnds == spinning ~> (~spinning \/ failed)

\* A row picked from the suggestions by a user who waits ends with the entries of
\* its place, unless the user does something else first: the name travels from the
\* lookup through searchQuery and the background queue to the query.
RowTakesEffect ==
  \A p \in Places : wanted = p ~> (entries = PlaceTitle[p] \/ wanted # p \/ hasty > 0 \/ failed)
=============================================================================

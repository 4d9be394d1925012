# Wanderlust: a verification project

Wanderlust (`src/WanderlustApp`) is an iOS travel diary in Swift. Users keep trips made of
entries (a place, a text, photos), follow one another, and read a feed of the entries of
the users they follow. There is no server code: every phone reads and writes Firestore
documents, Firebase Storage files and Firebase Auth accounts directly, and the app's logic
lives in the callbacks of those calls. The Firestore client itself is vendored as source
(`src/WanderlustApp/Pods/FirebaseFirestore`, C++), and what the app may rely on when it
writes without looking at the answer is decided there. This directory has TLA+ modules for
the app's logic and for the client's write path, the TLC configurations that check them and
TLAPS proofs about all ten of them, two of which are shown to refine an abstract one.

Paths below are relative to `src/WanderlustApp/WanderlustApp`, those of the Firestore client
to `src/WanderlustApp/Pods/FirebaseFirestore/Firestore/core/src`.

## 1. Inventory

| Component | State | Operations | Correct when |
| --- | --- | --- | --- |
| Follow graph and privacy (`Models/User.swift`, `Profile/`, `Settings/…/AccountPrivacyTableViewCell`) | `users/{uid}`: `followers`, `following`, `requests`, `public`; copies in `currentUser`, `otherUser` and the lists of two screens | follow, request, accept, deny, two ways to unfollow, privacy switch | nobody follows or reads a private account without consent; the two documents of a follow agree |
| Feed fan-out (`Entries/…/CustomAnnotation`, profile and followers pages) | `users/{uid}/newsfeed`, `entries` | publish an entry, delete one or those of a trip, fill after follow or accept, clear after unfollow | feeds list the entries of followed users, nothing of others, nothing deleted |
| News feed page (`Newsfeed/`) | `postList`, the table's rows, `totalPics`, cache | load, refresh, picture downloads | a reload shows one query's posts complete and sorted; refreshes end |
| Explore page (`Explore/`) | `searchQuery`, `isFiltered`, entries, suggestions, two dispatch queues | search, suggestions, cancel, pull | flag and entries agree; a picked place is shown; refreshes end |
| Trip editor (`Trips/`, entry order page) | the view controller, `CustomAnnotation` objects, `trips`, `entries`, `users/{uid}.trips` | make, edit, add, delete, reorder, save, delete trip | trip lists, `tripID`s and `entryOrder`s agree; saves end; deletions last |
| Entry photos (`CustomAnnotation`, `EditEntryViewController`) | files `n` or `images<n>`, `mediaList`, `imageUrls` | download, save by two routines, delete | the document lists the stored photos of the last save once |
| Entry covers (`EditEntryViewController`, `EntryInfoViewController`) | one file per path, `coverPhoto` | upload from two pages | a cover's url leads to the photo chosen |
| Favorites (`User.swift`, `TripInfo`, profile page) | `users/{uid}.favorites`, the heart, the list shown | tap the heart, view favorites, clear deleted trips | heart and list agree; nothing that exists is lost |
| Session (`Login/`, tab bar) | Auth's user, `currentUser`, snapshot listeners | sign up, in, out; listeners | `currentUser` is the newest document of whoever is signed in |
| Account settings (`Settings/`, sign-up) | `username`, `bio`, email, password, the settings table | change each, sign up | usernames differ; pages close only when stored |
| Firestore client: write path (`core/sync_engine`, `local/…mutation_queue`, `remote/remote_store`, `remote/stream`, `remote/write_stream`, `auth/…credentials_provider_apple`, FIRAuth) | the mutation queue in LevelDB, per account; write pipeline, stream state, timers, token requests; three serial queues | write, handshake, answer, error, backoff, idle, network change, sign-in and sign-out, relaunch | no write is lost, reordered, confirmed by another's answer or sent under another account; the queue empties |
| Trip and entry pages, location search, cells, app start | labels, images, texts | one read each | not modelled (section 8) |

**How they interact.** All pages share the global `currentUser`, which a snapshot listener
refreshes with one more read after every change of the user's document. Almost every button
takes a list out of `currentUser` or out of a page's copy of another user, changes it and
writes the whole list back. The trip editor hands `CustomAnnotation` objects to the entry
editor, which changes them in place; saving a trip calls `addEntryToFirestore` on each, which
uploads photos, writes the entry and fans it out into followers' feeds. Each of these writes
is filed by the Firestore client in a queue that outlives the app and is sent in order when
there is a network; hence the queues of writes in `FollowGraph` and `Accounts`. A deleted trip or
entry leaves references in favorites and feeds, which other components clean up or trip over.

**What is hard.**

- *Interleaving.* Callbacks of one phone and handlers of several phones rewrite the same
  lists from old copies.
- *Joining callbacks.* Loads and saves count callbacks with `didSet` observers and compare
  the counter with something that may have changed since: another list, a counter all loads
  share, `currentUser.favorites`.
- *Partial failure.* Most error branches print and return, so the counter never gets there;
  a save is up to five callbacks long and iOS may end the app after each of them. The writes of
  one handler are queued one by one, and a killed app may have queued some of them.
- *Answers without names.* The server's answers to writes name no write; the client takes
  each for the front of its pipeline, through lost connections, refusals that overtake the
  answers before them, timers, restarts, and changes of account that cross three dispatch queues.
- *Stale reads.* The text field, the search text or the privacy of an account is read again
  after the answer to a query built from its old value.

## 2. Modules

| Module | Models | Used with |
| --- | --- | --- |
| `FollowSpec` | abstract: every follow button is atomic | instanced by `FollowRefinement` |
| `FollowGraph` | the follow protocol, feeds, local caches, callbacks and queued writes | `MCFollowGraph` |
| `FollowRefinement` | the refinement mapping from `FollowGraph` to `FollowSpec` | `MCFollowGraph` |
| `FollowGraphProofs` | theorems about `FollowGraph`, and the refinement of `FollowSpec` | TLAPS |
| `NewsFeed` | one feed page: overlapping loads, two counters | `MCNewsFeed` |
| `NewsFeedProofs` | theorems about `NewsFeed` and `Explore` | TLAPS |
| `Explore` | search text, flag, background and main queue | `MCExplore` |
| `TripEditor` | editor, save chain, trip deletion, failure and crash | `MCTripEditor` |
| `TripEditorProofs` | theorems about `TripEditor` | TLAPS |
| `EntryPhotos` | files and `mediaList` of one entry | `MCEntryPhotos` |
| `EntryPhotosProofs` | theorems about `EntryPhotos` and `EntryCovers` | TLAPS |
| `EntryCovers` | covers of several entries and their paths | `MCEntryCovers` |
| `Session` | sign-in, listeners, `currentUser` | `MCSession` |
| `SessionProofs` | theorems about `Session` | TLAPS |
| `Favorites` | hearts, favorites view, clearing of deleted trips | `MCFavorites` |
| `FavoritesProofs` | theorems about `Favorites` | TLAPS |
| `Accounts` | sign-up names and the settings pages | `MCAccounts` |
| `AccountsProofs` | theorems about `Accounts` | TLAPS |
| `WriteQueue` | abstract: what the Firestore client promises about writes | instanced by `FirestoreWrites` |
| `FirestoreWrites` | the client's mutation queue, write pipeline, stream and tokens | `MCFirestoreWrites` |
| `FirestoreWritesProofs` | theorems about `FirestoreWrites`: pipeline, tokens and answers, and the refinement of `WriteQueue` | TLAPS |

State and actions carry the names of the Swift properties and functions they stand for.
A handler is one action; everything it does before returning is in that action, and each
completion handler is an action of its own which takes its call out of the set of calls that
are not answered. `PROJECT.json` maps each definition to its lines.

How each module corresponds to the code:

- **FollowGraph.** `followers … entries` are the server; `me[c]` is the `currentUser` of
  device c; `page`, `requestList`, `followList` the copies view controllers hold; `calls` the
  callbacks to come; `pending[c]` the writes device c has queued. Reads are overlaid with the
  device's own queue, as Firestore does. Lists are sets: the code asks whether a name is in,
  appends one, filters one out. `fetching[c]` counts the fetches the snapshot listener has begun:
  a snapshot begins one, and its callback sets `currentUser`. A trip's deletion is one
  `DeleteTripEntry` for each entry (an iteration of `deleteTrip`'s loop; what it does to trips is in
  `TripEditor`): the feed documents at once, the entry in the callback of a read. `asked`, `approved`,
  `everPublic`, `kept` (follows that ended from the following list, where the feed is not cleared),
  `missed` (what failed fills would have listed) and `torn` (entries whose writes were cut short)
  are history. With `Serialized` a button is pressed only when the app is settled; with
  `MayRestart` iOS may end the app at any moment. `Killed` also stands for the callbacks that
  unwrap the `nil` of a failed read (accept, clear, unfollow and the listener). What is left of the
  queue after it is any prefix: Firestore puts writes into LevelDB one by one on a queue of its own,
  and nothing tells the app how far it is, so the model allows more cuts than a given build makes.
- **NewsFeed.** `load[l]` is one activation of `loadFeedWithFirebase`: its query, the
  documents it waits for (`tempPostList`), its downloads and its `doneCounter`. `totalPics`
  is shared by all, as in the class. `QueryFailed`, failed pictures, the cache, and the entry that is
  missing or cannot be read, which ends the app (`EntryMissing`), are there. `Time` is the whole
  second of a post, which posts may share.
- **Explore.** `dispatched` and `building` are blocks of `loadEntryData` on the background
  queue before and after the first of its two reads of `searchQuery`; `asked` are queries,
  `reloads` blocks on the main queue. The list of entries is abstracted to the query it
  answers.
- **TripEditor.** `vc` is the editor (list, map, delete list, phase), `ann` the annotation
  objects, `counts` the `tempEntryList.count` each press of save closes over. `calls` are
  reads and uploads, answered in any order; `acks` the completion handlers of writes, in
  the order of the writes. `used` are the ids that have been drawn and `saving` that a save is under
  way. Every call may come to nothing (`CallFailed`). The cover of a new trip is written with
  `setData(merge: true)` (`EditTripViewController:273`), which would bring a trip back that was
  deleted meanwhile; `deleteTrip` is on the page of a trip that has a cover, and the model opens it
  only once the callbacks of the editor are through, so that this does not arise.
- **EntryPhotos / EntryCovers.** Files are numbered, or named by path; a photo is a model
  value. The entry's page downloads its photos one by one; they come in any order or not at all,
  and join the list that a save compares its counter with. Its save uploads the cover first and then
  the photos that are on the page by that time. `index` is the `currentIndex` of each save, `urls` the
  shared `imageUrls`. In `EntryCovers` each save is a job that puts the photo, asks for the url and
  sets the cover; jobs overlap. An entry of a trip's editor keeps its new cover in memory (`pins`)
  until the trip is saved.
- **Session.** `version` counts the writes to a document; a listener reports a version and
  a separate fetch sets `me`, to `nil` if the read failed (`ReadFailed`). Listeners are never removed
  by the app; the one of the login page (`LoginViewController:63`), which stays as well, and the tab
  bar's do the same and are one.
- **Favorites.** `views[v]` is one activation of `handleFavoriteTrips` with its `ct` and
  `holdSelected`; `current` is `currentUser.favorites`, which trails `favorites` until
  `ListenerRefresh`. `NilFetched` stands for both a trip that is gone and a failed read,
  because `fetchTrip` answers `nil` for both.
- **Accounts.** `page[u]` is the page with its text field and text view, `calls` the queries
  and Auth calls, `writes[u]` a device's Firestore writes in order. A call whose page is gone
  has `here = FALSE`: its alert and its `popViewController` do nothing, but it still reads the
  page's text field.
- **FirestoreWrites.** `client` is the memory of the worker queue (`SyncEngine`, `RemoteStore`,
  `Stream` and `WriteStream`), which runs one operation at a time: one action per operation, and
  the methods an operation calls (`Start`, `Close`, `Stop`, `FillWritePipeline`,
  `DisableNetworkInternal` and so on) are operators on `client`, composed as the C++ composes
  them. `queue` is the table of mutations in LevelDB. FIRAuth's queue, the main queue and the
  worker queue are `asks`/`fetching`, `mainQueue` and `workQueue`; each token request carries
  the `close_count_` and the `token_counter` it was made under. `sound` becomes false when a
  `HARD_ASSERT` would end the process. The server is external: it reads a call's requests in
  order, commits or refuses each, and reads no further after a refusal. The client reads the
  refusal after the answers before it, or, when it has written something the server did not read,
  at once and without those answers (`EndsRefused`, `grpc_stream.cc:313`). All writes go to one
  document. Of the server it is assumed that it does not end a stream with status OK while writes
  wait (`remote_store.cc:453` asserts it) and that its answers can be parsed. FIRAuth knows its user
  at a launch; that it reads it a moment later is `AuthChange`.
- **WriteQueue.** The promise: a queue per account that outlives the app and is resolved from its
  front; the server is taken through it in order, and again from the front after each restart. `Drop`
  takes the front away after a refusal, also when answers before the refusal were lost.
  This is what `FollowGraph`'s `pending` and `Accounts`' `writes` stand on. Those two
  apply a write once; the client may apply it again (section 6).

**History variables.** Several promises of the code are kept only for a user who waits for
an answer, or while no call fails. Rather than switching such behaviour off, the models
always contain it and record that it happened: `hasty` (presses before all
was settled), `failed` (a read, upload or download failed), `lost` (of a trip: a call of a save, the
upload of a cover, the reads of entries to delete), `crashed`, `torn` (in `TripEditor`: the process
ended while a trip listed an entry that was not stored), `late` (a photo came during the uploads of
a save), `missed` and `torn` of `FollowGraph`, `disturbed` (loads
overlapped or failed), `clashed` (a path saved to twice at once), `switched` (a second account
used in one launch), `cutOff`, `unread` (the last read of the profile failed), `crossed`
(two users after a username at once). They
guard no action (except to bound `hasty`), and each property names the ones it depends on. What
the models do once a condition is broken is listed in section 6.

## 3. Runs

`tlc -config X.cfg MCModule`. Every run sets `CHECK_DEADLOCK FALSE`: users may stop at any
time, and behaviours end when the bounds are used up.

| Run | Instance | Distinct states | Shows |
| --- | --- | --- | --- |
| `graph_interleaved` | 2 users, 1 entry, 4 presses, any interleaving, failures, kills; the author starts private (`PrivateAuthorSpec`) | 900 893 | types and consent (`GraphInv`), `OwnFeedMatchesEntries` |
| `graph_serialized` | 2 users, 1 entry, 5 presses, one at a time, fair | 123 560 | the two documents of a follow agree, feeds complete and without deleted entries, refinement of `FollowSpec`, an accept reaches the requester |
| `graph_lost_update` | 3 users, 4 presses, any interleaving, symmetric | stops | *violation* of `MirrorWhenQuiet`: a follow is lost |
| `feed` | 3 posts (two pictures, one, none), two of one second, 2 loads, fair | 43 958 | rows sorted and of one query, reloads complete, counter balanced, refresh ends |
| `explore` | 2 places, 7 touches, 3 of them hasty, fair | 140 421 | flag truthful, picked row takes effect, refresh ends |
| `trip` | 3 entries, 2 trips, 6 presses, 1 hasty, fair | 617 919 | trips and stored, numbered entries refer to each other, one trip per entry, deletions last, covers are there, map and list agree, saves end |
| `photos` | 2 pictures, 5 presses, 1 hasty, fair | 889 471 | documents list stored photos, once, and saves end |
| `covers` | 2 entries, 2 pictures, 4 saves, overlapping | 424 708 | own covers are right, covers are stored |
| `session` | 2 accounts, 6 steps, fair | 204 883 | `currentUser` is and converges to who is signed in; profiles exist |
| `favorites` | 2 trips, 5 presses, 1 hasty, 2 viewings | 2 554 917 | hearts truthful, favorites kept, viewings clean up, the list shown is right |
| `accounts` | 2 users, 2 texts, 3 visits or hasty steps | 667 087 | usernames unique, pages close when stored, passwords need the old one, everybody who waits is owed an answer |
| `writes` | 2 accounts, pipeline of 3, 4 writes, 2 troubles, 5 of both, fair | 1 068 336 | order, nothing lost, right account, no assertion fails, answers and completions are of the right write, refinement of `WriteQueue`, the queue empties |

Properties that belong together are checked as one formula, whose parts are named in the
module: `GraphInv` is `TypeOK` and `ConsentInv`; `FeedsExactWhenQuiet` is
`FeedCompleteWhenQuiet` and `DeletedLeavesFollowersFeeds`; `TableInv` has `RowsSorted`,
`ReloadsComplete` and `RowsOutdatedOnlyInBetween`; `EntriesMatchTrips` has `EntriesNumbered` and
`NoOrphans`; `DeletionsLast` has `DeletedStayDeleted` and `DeletedTripLeavesNoEntries`;
`TripInv` has `OneTripPerEntry`, `TripHasCover` and `MapMatchesList`; `FavoritesInv` has
`FavoritesKept` and `ShowsFavorites`; `WritesInv` is `TypeOK` and `PipelineInv`; `FilterInv`,
`AlbumInv`, `CoversInv`, `SessionInv` and `AccountsInv` are `TypeOK` and one property each.

**Bounds.** A lost update needs two devices and one list of a third user, hence the three
users of `graph_lost_update`; consent needs one asker and one owner, and four presses reach
ask, accept, publish, and one more rewrite. Serialized, opening a profile counts as well: five
presses reach open, ask, accept, publish, delete (of the entry or of its trip, with a read that
fails or not), and open, follow, unfollow, follow again around an entry. Longer rounds, such as an
entry that outlives its deletion in the feed of somebody who left from the following list and came
back (seven), are left to the theorems, which cover any number. One fetch of a listener at a time is
enough where users take turns; the theorems allow any number. Two loads are enough for
two counters to meet one total; the three posts are the three cases of the counter (several,
one and no picture), and two of them share a second. Six presses in the trip editor are: make a trip
of an entry, save, edit, add one, save; or a trip of two entries, save, and reorder or delete in a
second visit; three entries and two trips leave room for an entry of another trip. One hasty press puts two saves (or a save and a deletion) in flight at once.
Two favorites are the least for which one clean-up undoes another, and for a deleted and an
existing trip to be answered in both orders. Two users with two texts make every second
choice of a username a conflict. In `writes`, four writes and a pipeline of three (ten in the code)
are the least for which a batch waits behind a full pipeline, and a refusal can overtake an answer
while a later write fails; two troubles are the least for which an account
leaves and comes back, or a second error meets what the first one left (a timer, a token
request, unread answers). Bounds appear as guards on what users do, never on answers.

## 4. Fairness

Only the platform is fair: callbacks of issued calls come (`WF` on the callback actions),
queued writes are applied, blocks on dispatch queues run, and in `Session` listeners report (in
`FollowGraph` nothing relies on them, and they owe nothing: a listener that heard an error is
silent). No user action is
fair, so liveness is never bought by a user who presses again. Weak fairness is enough as an
outstanding callback stays enabled until it has run. Firestore and the dispatch queues
justify it: each call is answered or fails, and a failure of a call is an action too; where
a failure ends a chain without an answer the liveness property says so (`failed`, `lost`, `late`,
`disturbed`).

In `FirestoreWrites` the client's own queues and timers, FIRAuth and the server are fair together:
`Fairness` is weak fairness of `SystemStep`, in whatever order its steps come. It is written out,
with the state predicate `Busy` in the place of `ENABLED <<SystemStep>>_vars`, because TLC evaluates
the predicate far faster; that the two agree was checked as an invariant on a smaller instance.
Broken streams, failed tokens, changes of network or account, and launches are not fair, and are
bounded by `MaxTroubles`; `MaxEvents` bounds writes and troubles together.

## 5. Proofs

Each proof module states an inductive invariant `IInv` (or names one per property), shows that
`Init` implies it and that every action preserves it - a lemma per action or group of
actions - and derives the theorems by one temporal step. All theorems are for every value of
the constants; the only assumptions are the named `ASSUME`s of the modules, which TLC evaluates
in every run.

### The follow graph (`FollowGraphProofs`)

- `GraphCorrect`: `Spec => []GraphInv` (types and `ConsentInv`).
- `PrivateAccountsStayPrivate`: `Spec => [](FollowersConsented /\ FeedConsented)`: no follower,
  request or feed entry of an account that was never public without a request that was made
  and accepted.
- `OwnFeedAlwaysMatches`: `Spec => []OwnFeedMatchesEntries`: once a device has sent all its
  writes and reads no entry to delete it, its owner's feed and the entries collection agree on
  the owner's entries, but for those whose writes were cut short.

*Why a strengthening.* `FollowersConsented` alone is not inductive: `acceptRequest` writes back
the screen's copy of the list, `unfollowUser` the page's, and a callback may add a name long
after the press. `ConsentInv` says the same of every place a name can travel through: the
server's documents, `currentUser` of each device, each page's `otherUser`, the lists of the
followers screen, each outstanding callback (an `accept` is of a request that was approved; a
`fill` is of an account the reader may read) and each queued write. Each step then copies
names from one consented place to another, and consent only grows (`ConsentGrows`).

*Argument.* Types first (`TypeStep`). `LatestExists` (by
well-founded induction on queue positions) gives that a read that finds queued writes answers
with one of them, so that `ViewConsented` holds of what `fetchUser` returns. Then one lemma per
group of actions, in it one step per action, in that one per conjunct it disturbs; shared facts
are lemmas (`IssueConsented`, `ResumeConsented`, `FanOutConsented`).

`OwnFeedMatchesEntries` speaks only of devices with an empty queue; between the two writes of
`addToFirebase` or `deleteEntry` the stored feed and the stored entries disagree.
`OwnFeedInv` therefore compares what they will be once the queue is through: `Says` lays a queue
over a stored fact (the newest write of it wins), and `FeedsAgree` says that the two laid-over
facts are equal for every entry and its author that is not torn and waits for no deletion; the
callback that ends such a wait (`EntryDropped`) makes them equal, a failed read and a kill
put the entry among the torn. A commit leaves what `Says` answers alone (`SaysSent`),
a write of something else too (`SaysAppended`), and a batch that writes a fact all one way
decides it (`SaysReplaced`). `WritesOwned` keeps other devices out of the author's own feed and
entries; it needs that no page is ever of its own visitor (`OwnPages`) and that the outstanding
callbacks keep to that (`CallsOwned`).

**Users who take turns.** With `Serialized` a button is pressed only when the app is settled, but
the two writes of a button, its callbacks, the listeners and the screens still come in every
order.

- `FollowsMirrored`: `Serialized => (Spec => []MirrorWhenQuiet)`, and `FeedsExact`: `Serialized =>
  (Spec => []FeedsExactWhenQuiet)`. Both say something of quiet states only, and between two quiet
  states the documents disagree. `TurnInv` says that some device c is `Alone`: all others have
  neither calls nor queued writes, and the following holds of what the documents will be once c's
  queue has landed (`Fans`, `Idols`, `Fed`, `EntryStands`, each laid over a stored list with
  `Reads` or `Says`). `Mirror`: the two lists of each follow agree, but for a requester who has
  been accepted and whose own document is still to be read. `CallsFit`: a callback finds what
  the button that asked for it left; the callback of the following list's unfollow, which
  rewrites the list from `currentUser`, is the only one outstanding and `currentUser` still is
  the document. `Complete`: a follower's feed has each entry that stands, or a fill is due, or a fill of it failed
  (`missed`), or its own deletion waits for a read or lost it (`torn`).
  `Exact`: what a feed lists stands, and the feed's owner is its author or follows the author, or a
  clear is due, or `kept` has the follow. One
  lemma per button and per callback says how each of the four moves (`FansBecome`, `FansStay` and
  their like); a commit and a read leave all of them alone. When all is quiet any device may be
  the one that is alone (`QuietTurns`), so the next press starts from `Alone` of its own device.
- `FollowSpecImplemented`: `Serialized => (Spec => ImplementsFollowSpec)`. The mapping reads what
  the queued writes will leave (`Landed`), so a button is one abstract step when it is pressed, and
  the commits, callbacks and reads after it are stutters; the unfollow of the following list is its
  callback, which writes the lists. `Shows` ties the mapping to the views of the device that
  is alone, `Moves` lists the abstract steps in terms of them.

*Assumptions.* `OwnerAssumption` (each entry id has one owner: ids are UUIDs drawn on the
phone), `FiniteAssumption` (users and entries are finite sets), `BoundsAssumption` (limits are
naturals, modes Booleans).

### Firestore's write path (`FirestoreWritesProofs`)

- `PipelineCorrect`: `Spec => []WritesInv`. The pipeline is the front of the account's queue and
  batch ids grow along every queue. `QueuesInv` has the order and says that an account's queue
  holds its own writes, under ids that are no larger than the number of writes made; `ClientInv`
  that the next id is a fresh one and that the client is `Steady` for the account it serves: the
  pipeline is the front of that account's queue, and the open call belongs to the account and
  carries its writes. `LoadNextBatchId` takes the largest id in use (`MaxExists`, by well-founded
  induction); `NextBatches`, which reads by id, continues where the pipeline ends
  (`SeenAreFirst`, by cardinality). The operations of the stream have a lemma each: what the
  method returns is `Steady` if it was given that.
- `WritesSentAsAuthor`: `Spec => []SentAsAuthor`. A token request may outlive two changes of
  account, so the argument needs all three queues. `CountersOld`: no token is newer than the
  provider's counter. `NoticesInv`: FIRAuth's user is the one the provider knows, or will know when
  the notices on the main queue have run. `FreshTokens`: a token asked for under the present counter
  is the provider's user's when no notice comes before it. `WorkInv`: a token on the worker queue
  belongs to the account that the client will serve when the token's turn comes.

The rest of the module is about what happens to answers.

- `NoAssertionFails`: `Spec => []AssertionsHold`, and `AnswersAreForTheFront`: `Spec =>
  []AnswersMatchPipeline`. Neither is inductive, and each needs the other: an answer that finds
  no batch fails an assertion, and a call opened twice would mix up the answers. Their common
  invariant is `AnswersInv`, which adds three things to `IInv`. `Tidy`: a call is open exactly
  in state `Open`, the backoff timer runs only in `Backoff`, the idle timer only over an empty
  pipeline, and a stream that has not greeted the server has something to send. `Match`: answers
  and requests of the call are the pipeline, or the handshake. `TokensInv`: of all places a
  token request can be - the client's list, FIRAuth, the main queue, the worker queue - one at
  most holds a request for the present `close_count_`, and only while the stream is `Starting`;
  this is why a late token cannot open a second call. Each method of the stream has a lemma: it
  starts at most one request and only for a stream that had none (`Asked`), or none at all
  (`Quiet`).
- `CompletionsHearTruth`: `Spec => []CompletionsTellTruth`, and `WritesAreKept`: `Spec =>
  []NothingLost`. `TruthInv` adds to `AnswersInv` that an unread answer says what the server did
  (`TrueAnswers`), that the writes of a queue grow (`Ordered`), that a filed write is queued or
  settled and an account's earlier writes are settled first (`Filed`), and that a registered
  completion is that of a queued batch (`Waiting`).
- `KeepsThePromise`: `Spec => ImplementsWriteQueue`, the refinement. `Shaped` adds that nothing
  follows a refusal, so that the unread answers are some commits and perhaps one refusal at the
  end, which are the `passed` and `refusing` of `WriteQueue`. A server's verdict is then
  `Commit` or `Refuse` (`ServerPasses`), a result read `Confirm` (`ResultConfirms`), a refusal
  read `Drop` (`ErrorDrops`); whatever loses the call is `Restart`, and what moves tokens is a
  stutter.

*Assumptions.* `UsersAssumption`, `PipelineAssumption`, `BoundsAssumption`,
`NoStreamAssumption`: some account, a pipeline of at least one place, natural bounds, and "no
call" is no account and no call.

### The news feed (`NewsFeedProofs`)

- `TableCorrect`: `Spec => []TableInv`, and `TotalAlwaysBalanced`: `Spec => []TotalBalanced`. That a
  reload shows complete posts depends on a comparison of a counter of one load with a total of
  all. `CounterInv` says what the total is: the pictures of the documents fetched by loads that
  are not over, each once (`Owed`, a set of pairs of a load and a picture, whose cardinality is
  followed through each step). The counter of a load is the number of its pictures that have
  arrived (`ShapeInv`), so it can meet the total only when its own pictures are all there and no
  other load is owed any: with loads overlapping it may never meet it, but it cannot meet it early.
  `OrderlyInv` says that while nothing was disturbed one load at most is under way, and has lost
  no picture. `ListsInv` has that both lists are sorted, as far as whole seconds tell, and of one load.

*Assumptions.* `FeedAssumption`: finitely many posts, each with the second of its saving and a finite set of
pictures.

### Accounts (`AccountsProofs`)

- `UsernamesAlwaysUnique`: `Spec => []AccountsInv`. Uniqueness says nothing of names that have
  been checked and not been written. `FreshNames` says that those are not taken; for it to last
  one user only may be after a name (`OneClaim`), with one call or one write (`Alone`), the text
  field must still hold what was checked (`Checked`: `changeSettingInFirestore` reads it again),
  a document must not come into being by the write of a bio (`Profiled`), and who has no account
  is on the sign-up page (`Member`).
- `PasswordsChangedByOwners`: `Spec => PasswordOnlyByOwner`, an action property. `Proven` says that
  an outstanding `updatePassword` carries the password that is stored; it lasts
  because of `Alone`.
- `AnswersOwed`: `Spec => []DoneAnswers`, from the types alone: `OwedFrom` reduces each step to
  what becomes of the one answer that is owed.

*Assumptions.* `AccountsAssumption`: no text typed is a text that is not empty, the bound is a
natural.

### Session (`SessionProofs`)

- `ProfilesAlwaysExist`: `Spec => []SessionInv`, and `CurrentUserAlwaysSignedIn`: `Spec =>
  []CurrentUserIsSignedIn`. `OneAccount` says whose calls, listeners and `currentUser` there can
  be while one account is used; `Arriving`, what is still under way when the tabs show somebody
  else; `Registered` and `Profiles`, that an account without a document was cut off or is being
  written; `SignUps`, that a sign-up shares its account with no sign-in, listener or read.

### Trips (`TripEditorProofs`)

- `ListsAndEntriesAgree`: `Spec => []EntriesMatchTrips`; `DeletionsStand`: `Spec =>
  []DeletionsLast`; and `TripsSound`: `Spec => []TripInv`. All three speak mostly of settled states,
  while a save may have a dozen uploads, reads and completion handlers under way. Their common
  invariant has two layers, `BaseInv /\ (hasty = 0 => CarefulInv)`.

  `BaseInv` holds for every user. Besides types: a trip's deletion has no editor's work beside it
  (`DeletionsAlone`), what is under way for a trip is for a stored one (`NamesInv`), and a trip
  without a cover has the upload under way, or lost it (`CoverInv`).

  `CarefulInv` is about a user who waits. What is drawn once is used once (`UsedInv`); an
  entry is on one list (`ListsInv`) and carries no other trip's id (`OwnersInv`); what is on the
  delete list stays off the other list, and off the store once a save has run (`DeletedInv`). Then, what
  can be under way: the load of one trip, which has every entry that is not on the map yet still
  to be answered (`LoadingInv`, `LoadedInv`); a save (`SavingInv`); or nothing but covers, names
  and orders (`RestInv`). A save is in one of three phases. In `Uploads` the entries counted, those
  whose handler is to come and those still uploading add up to the list, so the counter meets the
  list's length with the last of them and not before; it is followed by cardinality
  (`Uploading`). `Asking` has the one read of the user's document, `Updating` the one update of the
  trip. The `tripID` updates of a save's beginning may still be under way in each of the three, which
  is why their handlers are told apart throughout (`Naming`). A call that fails takes the user out of
  what is claimed of saves (`lost`), or an entry out of what is claimed of deletions. Last, what the documents say: `NumberedInv`,
  that a trip's entries carry its id and their positions, or those that do not are being named and
  ordered; `WholeInv`, that an entry with a trip's id is on its list or in the editor's hands; and `GoneInv`,
  that an entry without a trip is being deleted.

*Argument.* A lemma per action, but many actions are alike for most of the parts. `Opened`,
`Edited`, `PageOnly`, `Orderly` and `Finished` say what such actions have in common, and one lemma
for each says what follows; the steps of a save and its end are proved from what they do to
counter, calls and handlers.

*What the proof found.* `NoOrphans` was once stated without `torn`, and `trip` agreed up to
seven presses. The invariant for it could not be proved, and with nine presses TLC shows why: if
the process ends during a save whose trip was written before its new entries, the next editor of
this trip never gets all its entries, its list stays empty, and a save with one more entry drops those that are
stored (section 6).

*Assumptions.* `TripAssumption`: `NoTrip` is no trip, `NoDoc` no document, bounds are naturals. Nothing
is assumed of the sizes of `Entries` and `Trips`.

### Favorites (`FavoritesProofs`)

- `HeartsTruthful`: `Spec => []HeartTruthful`; `FavoritesAlwaysKept`: `Spec => []FavoritesInv`; and
  `ViewingsClean`: `Spec => ViewingCleans`, an action property. Three lists of favorites go about:
  the stored one, `currentUser`'s, and the one a viewing was started with. `ListsInv` says of which
  trips each is right and when: the stored list always, `currentUser`'s whenever a callback may
  still rewrite the list from it. Both are right only of trips that exist, because a deleted trip may come
  back in either. `OneView` has that for a user who waits nothing but the viewing on screen
  waits for trips. `Answered` says what its callbacks have counted and collected, and `Cleaning`
  that the lists are untouched until one found its trip missing, and shorter afterwards: the
  removals are each taken from `currentUser`, so all that can be said of their sum is that it is
  one removal or more.

*Assumptions.* `FavoritesAssumption`: finitely many trips, `NoTrip` none of them, bounds are naturals.

### Explore, photos and covers

The proofs about the explore page stand beside those about the feed page, and the covers' beside the
photos'. A module of proofs can extend two components because no name is in both: `Explore` and
`EntryCovers` call their specifications `ExploreSpec` and `CoversSpec`.


- `NewsFeedProofs`, `FilterAlwaysTruthful`: `ExploreSpec => []FilterInv`. The touches of a user who
  waits leave one thing under way at a time (`OneAtATime`), which travels from the lookup over
  the background queue to the query and the reload; a query built from `searchQuery` still
  agrees with it when it is answered.
- `EntryPhotosProofs`, `DocumentsListStoredPhotos`: `Spec => []AlbumInv`. `Kept` says of both
  lists of urls what `MediaStored` says of the document, and that files go away only of an entry
  that is gone; `Counted` bounds each press's counter by the photos whose url is to come, by
  cardinality.
- `EntryPhotosProofs`, `DocumentsListWhatWasChosen`: `Spec => []MediaFaithful`. `Saving` follows a
  save nothing disturbs, from the upload of the cover: each photo is still to be stored, stored, or
  stored and listed, no two jobs work on one file, and counter and jobs add up to the photos on the
  page, so the callback that finds the counter full is the last one. Downloads that are still under
  way when a save begins are jobs of their own, and the page has room for what they bring (`Room`).
- `EntryPhotosProofs`, `CoversAlwaysStored`: `CoversSpec => []CoversInv`. `CoverStored` is not inductive,
  since a save sets the cover some callbacks after it was given the url: `UrlsLead` adds that a save
  past its url has a file at its path.
- `EntryPhotosProofs`, `OwnCoverAlwaysChosen`: `CoversSpec => []OwnCoverIsChosen`. `OwnInv` says, as long
  as no path was saved to twice at once and no call failed, that one job at most is at work on
  a path, that what it put stays there, and that an entry's own cover is the photo chosen or one
  that is just being saved.

*Assumptions.* `ExploreAssumption`, `PhotosAssumption`, `CoversAssumption`, and those of
`Session`: the special values are no members of the sets they stand beside, sets are finite
where they are counted, bounds are naturals.

### What is left to TLC

*Out of the prover's reach:* liveness under fairness
(`AcceptReachesRequester`, `RefreshEnds`, `SpinnerEnds`, `SaveEnds`, `SaveIsStored`, `CurrentUserConverges`,
`QueueDrains`).
*Only model-checked so far:* `ClosesWhenStored` of `Accounts` and `RowTakesEffect` of `Explore`.

## 6. What the models show of the code

One run ends in a counterexample and is listed as a finding:

- `graph_lost_update`: two users follow a third at the same time; the second whole-list write
  of `followers` erases the first follower, whose own `following` keeps the name.

The conditions of the other properties mark further behaviour of the code. Dropping a
condition makes TLC exhibit it:

- *Feed.* Overlapping loads add into one `totalPics` that no `doneCounter` meets, so the
  spinner never stops; the same after a failed download, and for a feed without pictures,
  since the counter is compared only when a picture arrives.
- *Explore.* With two loads in flight `isFiltered` is set from the present search text and may
  disagree with the entries, which locks the search bar over an unfiltered page. After a
  failed query the spinner stays.
- *Trip editor.* A second press of save makes a second trip with the same entries; an entry
  added during a save makes it wait for ever; an upload that ends after a deletion stores the
  entry again; a save whose upload, write or read of the user's document fails never ends, and after
  a reorder leaves the old `entryOrder`s beside the new list; a cover that cannot be uploaded leaves a new
  trip without one, on no page; a failed download leaves the list empty and the next save drops the entries; an
  app that ends during a save leaves a trip without a cover, or one that lists an entry which is not
  stored (the next save of that trip drops the others) or whose `tripID` is not set (its editor
  then ends the app, `EditTripViewController:122`); during a deletion, or where a read of
  it fails, entries without a trip are left.
- *Photos.* Two saves of an entry append to one list and the document lists photos twice. A photo
  of the page that arrives while a save uploads changes the number its counter is compared with, and
  the save never ends. Photos that fail to load are
  gone from the document after the next save.
- *Covers.* The trip editor never sets `entryID`, so the covers of all entries made there go to
  one path, `…/entryCovers/nil` (`EditEntryViewController:231`, under a comment that says
  otherwise at :226), and each replaces the one before; `OwnCoverIsChosen` is about entries
  whose path is their own. Of two overlapping saves to one path the later upload and the later
  write of the document may be of different saves.
- *Session.* After a second account has signed in without a relaunch, the first one's listener
  may set `currentUser` back. A read of the profile that fails sets `currentUser` to `nil` behind
  the login page. An app that ends between account and profile leaves an
  account at whose sign-ins the tab bar unwraps `nil`.
- *Favorites.* A second tap before `currentUser` is refreshed loses the first or unwraps a
  missing index; a failed read removes the favorite of a trip that exists; of two deleted
  trips the second removal restores the first, until the next viewing; an empty list is
  never shown, and a viewing that removes a trip may show the list short or not at all.
- *Accounts.* Two overlapping claims get the same username; the text checked and the text
  written differ if the user types on; an empty bio cannot be replaced. The branch that re-authenticates with
  a password written in the code (`EditAccountSettingsViewController:131`) is never taken, because FIRAuth's
  name for the error is another one (`FIRAuthErrorUtils.m:965`): an alert is shown instead.
- *Firestore.* The client's side holds without conditions, with three remarks. After the server has refused a
  write, the client may write once more before it notices; that write fails, the call is finished
  at once, and answers not read yet are thrown away (`grpc_stream.cc:232`, `:313`). The refusal is then
  given to the front of the pipeline: a committed write hears an error and is not sent again, and the
  refused one is sent, and refused, again (`Overtaken` in `CompletionsTellTruth`). `write_stream.h` says
  that the handshake carries the stream token on hand; `write_stream.cc:73` sends none, so
  after a break every write still in the pipeline is sent again, those included whose answer
  was lost, and the server may for a while show an older write. `write_stream.h` says the delegate
  is not called after `Stop`, and `Stop` calls it once more, with nothing to do. Dropping the
  check of `token_counter` alone breaks nothing in the instance: every change of account also
  restarts the stream, which raises `close_count_`.
- *Follow graph.* The following list's unfollow leaves the feed alone: an entry that its author
  then deletes stays in that feed, also if the two follow again later, which is the exception `kept` in
  `DeletedLeavesFollowersFeeds`; a follow whose query for the feed fails leaves the feed without the
  entries of that time; a trip's deletion whose read of an entry fails, or that a kill cuts, leaves an
  entry that is in no feed, and a kill between the writes of `addToFirebase` one that is stored and not
  in all feeds; a page that was open
  before an account went private still follows it directly; the follow button pressed before
  the page has loaded ends the app.

## 7. Plan

Done, in this order: `FollowGraph` with its proofs and `FollowSpec`; `NewsFeed`; `TripEditor`;
`EntryPhotos`; `EntryCovers` with its proofs; `Explore`; `Session`; `Favorites`; `Accounts`;
`FirestoreWrites` with its proofs and `WriteQueue`; the proofs about `Explore`, `Session`,
`EntryPhotos` and `Accounts`; those about `NewsFeed`, about users who take turns, about `Favorites` and about `TripEditor`.

What would come next:

1. The rest of the Firestore client: its read path (`WatchStream`, targets, local views) under the
   reads and listeners that the app's modules take as external.
2. Compositions: `TripEditor` with `EntryPhotos` (a save whose uploads fail one by one);
   `FollowGraph` with `Favorites` (both rewrite fields of one document from one `currentUser`).
3. Abstract specifications: a trip store in which a save is atomic, implemented by
   `TripEditor`; an album implemented by `EntryPhotos`.
4. Theorems: `ClosesWhenStored` of `Accounts`, `RowTakesEffect` of `Explore`.

## 8. Not modelled

- Layout, cells, fonts, segues that only show a page, map gestures, image scaling: no state
  that another part reads.
- Trip and entry pages: one read each into labels and pins. Their delete and edit buttons
  are in `TripEditor` and `EntryCovers`.
- `changeProfilePicture`: one upload, then one write.
- The location search of the trip editor, which hands over a text; the same search is modelled
  for the explore page.
- Of the Firestore client: the read path, waitForPendingWrites, transactions, disabling the
  network and termination, none of which but the reads this app uses.
- The other pods: gRPC, TLS, LevelDB, protobuf, image decoding, by far the largest part of the
  repository's lines and not its own logic. Together with them the modules here cover a small
  share of the repository; of the app's own code they cover the controllers and models that
  keep state. Storage, Auth, MapKit and the dispatch queues are external and appear
  as the app uses them: which answers, in which order, from which data.
- Security rules of the Firebase project, which are not in the repository.

------------------------------ MODULE NewsFeed ------------------------------
(***************************************************************************)
(* Loading the news feed (NewsFeedViewController).  One load is a query    *)
(* for feed documents, one read per document, one download per picture;    *)
(* all answers arrive as callbacks.  Two counters join them: the local     *)
(* tempPostList.count and doneCounter, the latter compared with totalPics, *)
(* a property of the view controller that all loads share.                 *)
(***************************************************************************)
EXTENDS Naturals, Sequences, FiniteSets, SequencesExt

CONSTANTS Posts,       \* entries that may be in the feed
          Pics,        \* their picture urls (mediaList)
          Time,        \* timestamp.seconds: entries of one save may share it
          Limit,       \* "number of feeds to return"
          MaxLoads     \* bound on the loads started

ASSUME FeedAssumption == /\ IsFiniteSet(Posts)
                         /\ Time \in [Posts -> Nat]
                         /\ \A p \in Posts : IsFiniteSet(Pics[p])
                         /\ Limit \in Nat /\ MaxLoads \in Nat

VARIABLES load,        \* the state of each call of loadFeedWithFirebase
          totalPics,   \* "total number of pictures (used to deal with synchronization problem)"
          postList,    \* the source of the table view
          rows,        \* what the table showed when it was last reloaded
          cache,       \* pictures kept from earlier loads
          refreshing,  \* the refresh control spins
          disturbed    \* history: loads of this page have overlapped or a call has failed

vars == <<load, totalPics, postList, rows, cache, refreshing, disturbed>>

Loads == 1..MaxLoads

Idle == [phase |-> "new", want |-> {}, got |-> {}, jobs |-> {}, have |-> {}, done |-> 0]

Photos(ps) == UNION {{<<p, url>> : url \in Pics[p]} : p \in ps}

TypeOK ==
  /\ load \in [Loads -> [phase : {"new", "query", "docs", "photos", "shown", "failed"},
                         want : SUBSET Posts, got : SUBSET Posts,
                         jobs : SUBSET Photos(Posts), have : SUBSET Photos(Posts), done : Nat]]
  /\ totalPics \in Nat
  /\ postList \in Seq(Posts)
  /\ rows \in Seq(Posts)
  /\ cache \in SUBSET UNION {Pics[p] : p \in Posts}
  /\ refreshing \in BOOLEAN
  /\ disturbed \in BOOLEAN

UnderWay(l) == load[l].phase \in {"query", "docs"} \/ load[l].jobs # {}

Init == /\ load = [l \in Loads |-> Idle]
        /\ totalPics = 0
        /\ postList = <<>>
        /\ rows = <<>>
        /\ cache = {}
        /\ refreshing = FALSE
        /\ disturbed = FALSE

-----------------------------------------------------------------------------
\* viewDidLoad and "to top" leave the refresh control alone, a pull starts it.  All
\* three are possible while a load is under way.
loadFeedWithFirebase(l) ==
  /\ load[l].phase = "new"
  /\ l > 1 => load[l - 1].phase # "new"
  /\ disturbed' = (disturbed \/ \E j \in Loads : UnderWay(j))
  /\ load' = [load EXCEPT ![l].phase = "query"]
  /\ refreshing' \in {TRUE, refreshing}
  /\ UNCHANGED <<totalPics, postList, rows, cache>>

\* The feed may have changed since the last load: any posts may be found.
QueryAnswered(l, found) ==
  /\ load[l].phase = "query"
  /\ Cardinality(found) <= Limit
  /\ load' = [load EXCEPT ![l].phase = IF found = {} THEN "shown" ELSE "docs",
                          ![l].want = found]
  /\ IF found = {} THEN postList' = <<>> /\ rows' = <<>> /\ refreshing' = FALSE
                   ELSE UNCHANGED <<postList, rows, refreshing>>
  /\ UNCHANGED <<totalPics, cache, disturbed>>

\* "if querySnapshot != nil": an error ends the load without a word.
QueryFailed(l) ==
  /\ load[l].phase = "query"
  /\ load' = [load EXCEPT ![l].phase = "failed"]
  /\ disturbed' = TRUE
  /\ UNCHANGED <<totalPics, postList, rows, cache, refreshing>>

\* Mutant: the comparison of the sort is the wrong way round.
OldestFirst(ps) ==
  {s \in SetToSeqs(ps) : \A i, j \in DOMAIN s : i < j => Time[s[i]] <= Time[s[j]]}

\* What the sort makes of entries that arrived in any order: those of the same second
\* are in any order as well.
NewestFirst(ps) ==
  {s \in SetToSeqs(ps) : \A i, j \in DOMAIN s : i < j => Time[s[i]] >= Time[s[j]]}

\* The pictures found in the cache.
Cached(ps) == {ph \in Photos(ps) : ph[2] \in cache}

\* Mutant: the counter is not reset for the next load.
DoneKeepsTotal(complete, total, list) ==
  IF complete
  THEN totalPics' = total /\ rows' = list /\ refreshing' = FALSE
  ELSE totalPics' = total /\ UNCHANGED <<rows, refreshing>>

\* doneCounter's didSet, after the pictures of the step are counted.
DoneDidSet(complete, total, list) ==
  IF complete
  THEN totalPics' = 0 /\ rows' = list /\ refreshing' = FALSE
  ELSE totalPics' = total /\ UNCHANGED <<rows, refreshing>>

\* One entry arrived.  The last one sorts the list and starts loadPhotosFromStorage,
\* which counts the cached pictures at once.
EntryFetched(l, p) ==
  LET ld    == load[l]
      got   == ld.got \cup {p}
      total == totalPics + Cardinality(Pics[p])
      all   == got = ld.want
      hits  == Cached(got)
      done  == all /\ total \in 1..Cardinality(hits)
  IN
  /\ ld.phase = "docs"
  /\ p \in ld.want \ ld.got
  /\ load' = [load EXCEPT ![l] =
                IF ~all THEN [ld EXCEPT !.got = got]
                ELSE [ld EXCEPT !.got = got, !.have = hits, !.done = Cardinality(hits),
                                !.jobs = Photos(got) \ hits,
                                !.phase = IF done THEN "shown" ELSE "photos"]]
  /\ IF all THEN postList' \in NewestFirst(got) ELSE UNCHANGED postList
  /\ DoneDidSet(done, total, postList')
  /\ UNCHANGED <<cache, disturbed>>

\* "doc!.data()", "data!": an entry that is gone or cannot be read ends the app.  The
\* next page starts from nothing.
EntryMissing(l, p) ==
  /\ load[l].phase = "docs"
  /\ p \in load[l].want \ load[l].got
  /\ load' = [j \in Loads |-> IF load[j].phase = "new" THEN load[j]
                               ELSE [Idle EXCEPT !.phase = "failed"]]
  /\ totalPics' = 0
  /\ postList' = <<>> /\ rows' = <<>> /\ cache' = {}
  /\ refreshing' = FALSE /\ disturbed' = FALSE

\* doneCounter after a download ended; an error returns before the counter.
Counted(ld, ok) == IF ok THEN ld.done + 1 ELSE ld.done

\* A download ended; the counters are compared only when it succeeded.
PhotoLoaded(l, ph, ok) ==
  LET ld   == load[l]
      n    == Counted(ld, ok)
      done == n > ld.done /\ n = totalPics
  IN
  /\ disturbed' = (disturbed \/ ~ok)
  /\ ph \in ld.jobs
  /\ load' = [load EXCEPT ![l] =
                [ld EXCEPT !.jobs = @ \ {ph}, !.done = n,
                           !.have = IF ok THEN @ \cup {ph} ELSE @,
                           !.phase = IF done THEN "shown" ELSE @]]
  /\ cache' = IF ok THEN cache \cup {ph[2]} ELSE cache
  /\ DoneDidSet(done, totalPics, postList)
  /\ UNCHANGED postList

Answer(l) == \/ \E found \in SUBSET Posts : QueryAnswered(l, found)
             \/ \E p \in Posts : EntryFetched(l, p) \/ EntryMissing(l, p)
             \/ \E ph \in load[l].jobs, ok \in BOOLEAN : PhotoLoaded(l, ph, ok)

Next == \E l \in Loads : \/ loadFeedWithFirebase(l)
                         \/ QueryFailed(l)
                         \/ Answer(l)

Spec == Init /\ [][Next]_vars

\* Firestore and Storage call back in the end; the user need not refresh again.
FairSpec == Spec /\ \A l \in Loads : WF_vars(Answer(l))

-----------------------------------------------------------------------------
\* However loads overlap and fail, the table shows the posts of one query, each
\* once, newest on top (loadFeedWithFirebase: "sorted by time, where the newest
\* is on top") as far as whole seconds tell.
RowsSorted ==
  /\ \A i, j \in DOMAIN rows : i < j => rows[i] # rows[j] /\ Time[rows[i]] >= Time[rows[j]]
  /\ rows # <<>> => \E l \in Loads : ToSet(rows) = load[l].want

\* The table is reloaded only once every picture of the load that ends has been
\* appended, although the counter it is compared with belongs to all loads.
ReloadsComplete ==
  \A l \in Loads : load[l].phase = "shown" => load[l].have = Photos(load[l].want)

\* postList is replaced before the table is reloaded: the rows on the screen differ
\* from the list behind them only while some load still waits for its pictures.
RowsOutdatedOnlyInBetween ==
  rows # postList => \E l \in Loads : load[l].phase = "photos"

\* The counters and lists of the page keep their types; the table is sorted, complete
\* and, between loads, what postList says (NewsFeedViewController:64-133).
TableInv == TypeOK /\ RowsSorted /\ ReloadsComplete /\ RowsOutdatedOnlyInBetween

\* Loads that neither overlap nor fail leave the counter they share balanced, so
\* the next refresh starts from 0, cached pictures included.
TotalBalanced == ~disturbed /\ (\A l \in Loads : ~UnderWay(l)) => totalPics = 0

\* A feed without a single picture: the counter is never compared.
NoPictures == \E l \in Loads : load[l].phase = "photos" /\ Photos(load[l].want) = {}

\* totalPics is there "to deal with synchronization problem"
\* (NewsFeedViewController:31): a refresh stops spinning, load after load, unless
\* loads overlapped, a call failed or a feed had no pictures.
RefreshEnds == refreshing ~> (~refreshing \/ disturbed \/ NoPictures)
=============================================================================

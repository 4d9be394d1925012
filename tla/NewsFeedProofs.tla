--------------------------- MODULE NewsFeedProofs ---------------------------
(***************************************************************************)
(* The counter that all loads of the news feed share, and the table it     *)
(* guards: proofs for any number of posts, pictures and loads, overlapping *)
(* and failing as they may.                                                *)
(***************************************************************************)
EXTENDS NewsFeed, Explore, FiniteSetTheorems, WellFoundedInduction, TLAPS

\* What a load has in each phase.
Shaped(ld) ==
  /\ ld.got \subseteq ld.want
  /\ ld.phase \in {"new", "query", "failed"} => ld.want = {}
  /\ ld.phase \in {"new", "query", "docs", "failed"} => ld.jobs = {} /\ ld.have = {}
  /\ ld.phase = "docs" => ld.got # ld.want
  /\ ld.phase = "photos" => ld.got = ld.want
  /\ ld.phase = "shown" => ld.have = Photos(ld.want) /\ ld.jobs = {}
  /\ ld.have \subseteq Photos(ld.got)
  /\ ld.jobs \subseteq Photos(ld.got) \ ld.have
  /\ ld.done = Cardinality(ld.have)

ShapeInv == \A l \in Loads : Shaped(load[l])

\* The pictures a load has put into totalPics and not yet taken out.
Owes(l) == IF load[l].phase \in {"docs", "photos"} THEN Photos(load[l].got) ELSE {}

Owed == {o \in Loads \X Photos(Posts) : o[2] \in Owes(o[1])}

\* totalPics has the pictures of all loads that wait, each once.
CounterInv == totalPics = Cardinality(Owed)

\* While loads neither overlap nor fail, at most one is under way, and one that is
\* not waits for no picture.
OrderlyInv ==
  ~disturbed =>
    /\ \A j, l \in Loads : UnderWay(j) /\ UnderWay(l) => j = l
    /\ \A l \in Loads : load[l].phase = "photos" =>
         /\ load[l].have \cup load[l].jobs = Photos(load[l].want)
         /\ load[l].jobs = {} => Photos(load[l].want) = {}

\* Each post once, in the order of the seconds.
Sorted(s) == \A i, j \in DOMAIN s : i < j => s[i] # s[j] /\ Time[s[i]] >= Time[s[j]]

Listed(s) ==
  /\ Sorted(s)
  /\ s # <<>> => \E l \in Loads : /\ load[l].phase \in {"photos", "shown"}
                                  /\ ToSet(s) = load[l].want

ListsInv == Listed(rows) /\ Listed(postList)

IInv == /\ TypeOK
        /\ ShapeInv
        /\ CounterInv
        /\ OrderlyInv
        /\ ListsInv
        /\ RowsOutdatedOnlyInBetween

-----------------------------------------------------------------------------
(* Pictures.                                                               *)

LEMMA PhotosMonotone ==
  ASSUME NEW A, NEW B \in SUBSET A
  PROVE  Photos(B) \subseteq Photos(A)
BY DEF Photos

LEMMA PhotosFinite == IsFiniteSet(Photos(Posts))
<1> DEFINE Urls == {Pics[p] : p \in Posts}
<1>1. IsFiniteSet(Urls) /\ \A T \in Urls : IsFiniteSet(T)
  <2>1. [p \in Posts |-> Pics[p]] \in Surjection(Posts, Urls)
    BY DEF Surjection
  <2>2. IsFiniteSet(Posts) /\ \A p \in Posts : IsFiniteSet(Pics[p])
    BY FeedAssumption
  <2> QED
    BY <2>1, <2>2, FS_Surjection
<1>2. IsFiniteSet(Posts \X UNION Urls)
  <2>1. IsFiniteSet(UNION Urls)
    BY <1>1, FS_UNION
  <2> QED
    BY <2>1, FeedAssumption, FS_Product
<1>3. Photos(Posts) \subseteq Posts \X UNION Urls
  BY DEF Photos
<1> QED
  BY <1>2, <1>3, FS_Subset

LEMMA SomePhotosFinite ==
  ASSUME NEW A \in SUBSET Photos(Posts)
  PROVE  IsFiniteSet(A) /\ Cardinality(A) \in Nat
BY PhotosFinite, FS_Subset, FS_CardinalityType

LEMMA OwedFinite == IsFiniteSet(Loads \X Photos(Posts))
<1>1. IsFiniteSet(Loads)
  BY FeedAssumption, FS_Interval DEF Loads
<1> QED
  BY <1>1, PhotosFinite, FS_Product

\* What a load owes for a post.
Added(l, p) == {<<l, <<p, url>>>> : url \in Pics[p]}

NoneOf(l, p, A) == \A o \in A : o[1] = l => o[2][1] # p

\* A post's pictures are new in any set that had none of them.
LEMMA PostCounted ==
  ASSUME NEW A, IsFiniteSet(A), NEW l, NEW p \in Posts, NoneOf(l, p, A)
  PROVE  Cardinality(A \cup Added(l, p)) = Cardinality(A) + Cardinality(Pics[p])
<1> DEFINE B == Added(l, p)
<1>0. \A o : o \in B <=> \E url \in Pics[p] : o = <<l, <<p, url>>>>
  BY DEF Added
<1> HIDE DEF B
<1> DEFINE f == [url \in Pics[p] |-> <<l, <<p, url>>>>]
<1>1. IsFiniteSet(Pics[p])
  BY FeedAssumption
<1>2. f \in Bijection(Pics[p], B)
  <2>1. f \in [Pics[p] -> B] /\ \A url \in Pics[p] : f[url] = <<l, <<p, url>>>>
    BY <1>0
  <2>2. \A a, b \in Pics[p] : f[a] = f[b] => a = b
    BY <2>1
  <2>3. \A o \in B : \E url \in Pics[p] : f[url] = o
    BY <1>0, <2>1
  <2> HIDE DEF f
  <2> QED
    BY <2>1, <2>2, <2>3 DEF Bijection, Injection, Surjection, IsInjective
<1>3. IsFiniteSet(B) /\ Cardinality(B) = Cardinality(Pics[p])
  <2>1. ExistsBijection(Pics[p], B)
    BY <1>2 DEF ExistsBijection
  <2> QED
    BY <1>1, <2>1, FS_Bijection
<1>4. A \cap B = {}
  BY <1>0 DEF NoneOf
<1>5. /\ IsFiniteSet(A \cup B)
      /\ Cardinality(A \cup B) = Cardinality(A) + Cardinality(B) - Cardinality(A \cap B)
  BY <1>3, FS_Union
<1>6. Cardinality(A) \in Nat /\ Cardinality(B) \in Nat /\ Cardinality({}) = 0
  BY <1>3, FS_CardinalityType, FS_EmptySet
<1>7. Cardinality(A \cap B) = 0
  BY <1>4, <1>6
<1> QED
  BY <1>3, <1>5, <1>6, <1>7 DEF B

-----------------------------------------------------------------------------
(* The order of the table.                                                 *)

LEMMA NewestFirstSorts ==
  ASSUME NEW ps \in SUBSET Posts, NEW s \in NewestFirst(ps)
  PROVE  s \in Seq(Posts) /\ ToSet(s) = ps /\ Sorted(s)
<1> DEFINE n == Cardinality(ps)
<1>1. s \in SetToSeqs(ps) /\ \A i, j \in DOMAIN s : i < j => Time[s[i]] >= Time[s[j]]
  BY DEF NewestFirst
<1>2. IsFiniteSet(ps) /\ n \in Nat
  BY FeedAssumption, FS_Subset, FS_CardinalityType
<1>3. s \in [1..n -> ps] /\ \A i, j \in 1..n : i # j => s[i] # s[j]
  BY <1>1 DEF SetToSeqs
<1>4. s \in Injection(1..n, ps)
  BY <1>3 DEF Injection, IsInjective
<1>5. IsFiniteSet(1..n) /\ Cardinality(1..n) = n
  BY <1>2, FS_Interval
<1>6. s \in Surjection(1..n, ps)
  BY <1>2, <1>4, <1>5, FS_Injection
<1>7. DOMAIN s = 1..n /\ ToSet(s) = ps
  BY <1>3, <1>6 DEF Surjection, ToSet
<1>8. s \in Seq(Posts)
  BY <1>2, <1>3
<1>9. Sorted(s)
  <2> SUFFICES ASSUME NEW i \in DOMAIN s, NEW j \in DOMAIN s, i < j
               PROVE  s[i] # s[j] /\ Time[s[i]] >= Time[s[j]]
    BY DEF Sorted
  <2>1. i \in 1..n /\ j \in 1..n /\ i # j
    BY <1>2, <1>7
  <2> QED
    BY <1>1, <1>3, <2>1
<1> QED
  BY <1>7, <1>8, <1>9

-----------------------------------------------------------------------------
(* The counter.                                                            *)

LEMMA PairsCounted ==
  ASSUME NEW l, NEW P \in SUBSET Photos(Posts)
  PROVE  Cardinality({l} \X P) = Cardinality(P)
<1>1. IsFiniteSet({l}) /\ Cardinality({l}) = 1
  BY FS_Singleton
<1>2. IsFiniteSet(P) /\ Cardinality(P) \in Nat
  BY SomePhotosFinite
<1>3. Cardinality({l} \X P) = Cardinality({l}) * Cardinality(P)
  BY <1>1, <1>2, FS_Product
<1> QED
  BY <1>1, <1>2, <1>3

\* If a load's pictures are as many as all loads owe, no other load owes any.
LEMMA OnlyOneOwes ==
  ASSUME NEW X \in SUBSET (Loads \X Photos(Posts)), NEW l \in Loads,
         NEW P \in SUBSET Photos(Posts), {l} \X P \subseteq X,
         NEW have \in SUBSET P, Cardinality(have) >= Cardinality(X)
  PROVE  have = P /\ X = {l} \X P
<1>1. IsFiniteSet(X) /\ Cardinality(X) \in Nat
  BY OwedFinite, FS_Subset, FS_CardinalityType
<1>2. /\ IsFiniteSet(P) /\ Cardinality(P) \in Nat
      /\ Cardinality(have) \in Nat
  BY SomePhotosFinite
<1>3. Cardinality({l} \X P) = Cardinality(P)
  BY PairsCounted
<1>4. /\ Cardinality({l} \X P) <= Cardinality(X)
      /\ Cardinality(X) = Cardinality({l} \X P) => X = {l} \X P
  BY <1>1, FS_Subset
<1>5. /\ Cardinality(have) <= Cardinality(P)
      /\ Cardinality(P) = Cardinality(have) => P = have
  BY <1>2, FS_Subset
<1> QED
  BY <1>1, <1>2, <1>3, <1>4, <1>5

LoadType == [phase : {"new", "query", "docs", "photos", "shown", "failed"},
             want : SUBSET Posts, got : SUBSET Posts,
             jobs : SUBSET Photos(Posts), have : SUBSET Photos(Posts), done : Nat]

LEMMA LoadChanges ==
  ASSUME load \in [Loads -> LoadType], NEW l \in Loads, NEW ld \in LoadType,
         load' = [load EXCEPT ![l] = ld]
  PROVE  /\ load' \in [Loads -> LoadType]
         /\ load'[l] = ld
         /\ \A j \in Loads : j # l => /\ load'[j] = load[j]
                                      /\ UnderWay(j)' = UnderWay(j)
                                      /\ Owes(j)' = Owes(j)
<1>1. load' \in [Loads -> LoadType] /\ load'[l] = ld
      /\ \A j \in Loads : j # l => load'[j] = load[j]
  OBVIOUS
<1> QED
  BY <1>1 DEF UnderWay, Owes

\* A load that changes nothing it owes leaves the counter right.
LEMMA OwedKept ==
  ASSUME \A j \in Loads : Owes(j)' = Owes(j)
  PROVE  Owed' = Owed
BY DEF Owed

LEMMA ListsKept ==
  ASSUME NEW s, s \in Seq(Posts), Listed(s),
         \A j \in Loads : load[j].phase \in {"photos", "shown"} =>
           load'[j].phase \in {"photos", "shown"} /\ load'[j].want = load[j].want
  PROVE  s # <<>> => \E j \in Loads : /\ load'[j].phase \in {"photos", "shown"}
                                      /\ ToSet(s) = load'[j].want
BY DEF Listed, Sorted

-----------------------------------------------------------------------------
(* Every step.                                                             *)

LEMMA InitKeeps == Init => IInv
<1> SUFFICES ASSUME Init PROVE IInv
  OBVIOUS
<1>1. load = [l \in Loads |-> Idle] /\ \A l \in Loads : load[l] = Idle
  BY DEF Init
<1>2. TypeOK
  <2>1. Idle \in LoadType
    BY DEF Idle, LoadType
  <2>2. load \in [Loads -> LoadType]
    BY <1>1, <2>1
  <2>3. <<>> \in Seq(Posts)
    OBVIOUS
  <2> QED
    BY <2>2, <2>3 DEF Init, TypeOK, LoadType
<1>3. ShapeInv
  <2>1. Cardinality({}) = 0
    BY FS_EmptySet
  <2> QED
    BY <1>1, <2>1 DEF ShapeInv, Shaped, Idle
<1>4. CounterInv
  <2>1. Owed = {}
    BY <1>1 DEF Owed, Owes, Idle
  <2> QED
    BY <2>1, FS_EmptySet DEF CounterInv, Init
<1>5. OrderlyInv /\ ListsInv /\ RowsOutdatedOnlyInBetween
  BY <1>1 DEF Init, OrderlyInv, UnderWay, Idle, ListsInv, Listed, Sorted, RowsOutdatedOnlyInBetween
<1> QED
  BY <1>2, <1>3, <1>4, <1>5 DEF IInv

LEMMA LoadStarts ==
  ASSUME IInv, NEW l \in Loads, loadFeedWithFirebase(l)
  PROVE  IInv'
<1> DEFINE ld == [load[l] EXCEPT !.phase = "query"]
<1>1. /\ load \in [Loads -> LoadType] /\ load[l].phase = "new" /\ Shaped(load[l])
      /\ UNCHANGED <<totalPics, postList, rows, cache>>
  BY DEF IInv, TypeOK, LoadType, ShapeInv, loadFeedWithFirebase
<1>2. /\ ld \in LoadType /\ ld.phase = "query"
      /\ ld.want = load[l].want /\ ld.got = load[l].got /\ ld.jobs = load[l].jobs
      /\ ld.have = load[l].have /\ ld.done = load[l].done
  BY <1>1 DEF LoadType
<1>3. load' = [load EXCEPT ![l] = ld]
  BY DEF loadFeedWithFirebase
<1> HIDE DEF ld
<1>4. /\ load' \in [Loads -> LoadType] /\ load'[l] = ld
      /\ \A j \in Loads : j # l => /\ load'[j] = load[j]
                                   /\ UnderWay(j)' = UnderWay(j)
                                   /\ Owes(j)' = Owes(j)
  BY <1>1, <1>2, <1>3, LoadChanges
<1>5. TypeOK'
  BY <1>1, <1>4 DEF IInv, TypeOK, LoadType, loadFeedWithFirebase
<1>6. ShapeInv'
  BY <1>1, <1>2, <1>4 DEF IInv, ShapeInv, Shaped
<1>7. CounterInv'
  <2>1. Owes(l)' = Owes(l)
    BY <1>1, <1>2, <1>4 DEF Owes
  <2>2. Owed' = Owed
    BY <1>4, <2>1, OwedKept
  <2> QED
    BY <1>1, <2>2 DEF IInv, CounterInv
<1>8. OrderlyInv'
  <2> SUFFICES ASSUME ~disturbed'
               PROVE  OrderlyInv'
    BY DEF OrderlyInv
  <2>1. ~disturbed /\ \A j \in Loads : ~UnderWay(j)
    BY DEF loadFeedWithFirebase
  <2>2. \A j \in Loads : UnderWay(j)' => j = l
    BY <1>4, <2>1
  <2>3. \A j \in Loads : load'[j].phase = "photos" => j # l
    BY <1>2, <1>4
  <2> QED
    BY <1>4, <2>1, <2>2, <2>3 DEF IInv, OrderlyInv
<1>9. ListsInv' /\ RowsOutdatedOnlyInBetween'
  BY <1>1, <1>2, <1>4 DEF IInv, ListsInv, Listed, Sorted, RowsOutdatedOnlyInBetween
<1> QED
  BY <1>5, <1>6, <1>7, <1>8, <1>9 DEF IInv

LEMMA QueryEnds ==
  ASSUME IInv, NEW l \in Loads,
         QueryFailed(l) \/ \E found \in SUBSET Posts : QueryAnswered(l, found)
  PROVE  IInv'
<1>1. /\ load \in [Loads -> LoadType] /\ load[l].phase = "query" /\ Shaped(load[l])
      /\ UNCHANGED <<totalPics, cache>>
      /\ disturbed => disturbed'
  BY DEF IInv, TypeOK, LoadType, ShapeInv, QueryFailed, QueryAnswered
<1> DEFINE Ends(ld) ==
      /\ load' = [load EXCEPT ![l] = ld]
      /\ ld.got = {} /\ ld.jobs = {} /\ ld.have = {} /\ ld.done = load[l].done
      /\ \/ ld.phase = "failed" /\ ld.want = {} /\ disturbed' = TRUE
            /\ UNCHANGED <<postList, rows, refreshing>>
         \/ ld.phase = "docs" /\ ld.want # {} /\ UNCHANGED disturbed
            /\ UNCHANGED <<postList, rows, refreshing>>
         \/ ld.phase = "shown" /\ ld.want = {} /\ UNCHANGED disturbed
            /\ postList' = <<>> /\ rows' = <<>> /\ refreshing' = FALSE
<1>2. PICK ld \in LoadType : Ends(ld)
  <2>1. load[l].want = {} /\ load[l].got = {} /\ load[l].jobs = {} /\ load[l].have = {}
    BY <1>1 DEF Shaped
  <2>2. CASE QueryFailed(l)
    <3> DEFINE ld == [load[l] EXCEPT !.phase = "failed"]
    <3>1. /\ ld \in LoadType /\ ld.phase = "failed" /\ ld.want = {} /\ ld.got = {}
          /\ ld.jobs = {} /\ ld.have = {} /\ ld.done = load[l].done
      BY <1>1, <2>1 DEF LoadType
    <3>2. load' = [load EXCEPT ![l] = ld]
      BY <2>2 DEF QueryFailed
    <3>3. disturbed' = TRUE /\ UNCHANGED <<postList, rows, refreshing>>
      BY <2>2 DEF QueryFailed
    <3> HIDE DEF ld
    <3> QED
      BY <3>1, <3>2, <3>3
  <2>3. ASSUME NEW found \in SUBSET Posts, QueryAnswered(l, found)
        PROVE  \E ld \in LoadType : Ends(ld)
    <3> DEFINE phase == IF found = {} THEN "shown" ELSE "docs"
               ld == [load[l] EXCEPT !.phase = phase, !.want = found]
    <3>1. /\ ld \in LoadType /\ ld.phase = phase /\ ld.want = found /\ ld.got = {}
          /\ ld.jobs = {} /\ ld.have = {} /\ ld.done = load[l].done
      BY <1>1, <2>1 DEF LoadType
    <3>2. load' = [load EXCEPT ![l] = ld]
      BY <2>3 DEF QueryAnswered
    <3>3. /\ UNCHANGED disturbed
          /\ IF found = {} THEN postList' = <<>> /\ rows' = <<>> /\ refreshing' = FALSE
                           ELSE UNCHANGED <<postList, rows, refreshing>>
      BY <2>3 DEF QueryAnswered
    <3> HIDE DEF ld
    <3> QED
      BY <3>1, <3>2, <3>3
  <2> QED
    BY <2>2, <2>3
<1>3. /\ load' \in [Loads -> LoadType] /\ load'[l] = ld
      /\ \A j \in Loads : j # l => /\ load'[j] = load[j]
                                   /\ UnderWay(j)' = UnderWay(j)
                                   /\ Owes(j)' = Owes(j)
  BY <1>1, <1>2, LoadChanges
<1>4. TypeOK'
  <2>1. <<>> \in Seq(Posts)
    OBVIOUS
  <2> QED
    BY <1>1, <1>2, <1>3, <2>1 DEF IInv, TypeOK, LoadType
<1>5. Photos({}) = {} /\ Cardinality({}) = 0
  BY FS_EmptySet DEF Photos
<1>6. ShapeInv'
  <2>1. ld.done = Cardinality({})
    BY <1>1, <1>2 DEF Shaped
  <2>2. Shaped(ld)
    BY <1>2, <1>5, <2>1 DEF Shaped
  <2> QED
    BY <1>3, <2>2 DEF IInv, ShapeInv
<1>7. CounterInv'
  <2>1. Owes(l)' = {} /\ Owes(l) = {}
    BY <1>1, <1>2, <1>3, <1>5 DEF Owes
  <2>2. Owed' = Owed
    BY <1>3, <2>1, OwedKept
  <2> QED
    BY <1>1, <2>2 DEF IInv, CounterInv
<1>8. OrderlyInv'
  <2> SUFFICES ASSUME ~disturbed'
               PROVE  OrderlyInv'
    BY DEF OrderlyInv
  <2>1. ~disturbed /\ UnderWay(l)
    BY <1>1 DEF UnderWay
  <2>2. \A j \in Loads : UnderWay(j)' => j = l
    BY <1>3, <2>1 DEF IInv, OrderlyInv
  <2>3. \A j \in Loads : load'[j].phase = "photos" => j # l
    BY <1>2, <1>3
  <2> QED
    BY <1>3, <2>1, <2>2, <2>3 DEF IInv, OrderlyInv
<1>9. ListsInv'
  <2>1. \A j \in Loads : load[j].phase \in {"photos", "shown"} => j # l
    BY <1>1
  <2>2. Listed(<<>>)'
    BY DEF Listed, Sorted
  <2> QED
    BY <1>2, <1>3, <2>1, <2>2 DEF IInv, ListsInv, Listed, Sorted
<1>10. RowsOutdatedOnlyInBetween'
  BY <1>1, <1>2, <1>3 DEF IInv, RowsOutdatedOnlyInBetween
<1> QED
  BY <1>4, <1>6, <1>7, <1>8, <1>9, <1>10 DEF IInv

LEMMA OwedSettled ==
  ASSUME NEW l \in Loads, NEW P, Owed \subseteq {l} \X P, Owes(l)' = {},
         \A j \in Loads : j # l => Owes(j)' = Owes(j)
  PROVE  Owed' = {}
<1> SUFFICES ASSUME NEW o \in Owed'
             PROVE  FALSE
  OBVIOUS
<1>1. o \in Loads \X Photos(Posts) /\ o[2] \in Owes(o[1])'
  BY DEF Owed
<1>2. o[1] \in Loads /\ o[1] # l
  BY <1>1
<1>3. o \in Owed
  BY <1>1, <1>2 DEF Owed
<1> QED
  BY <1>2, <1>3

\* X is what is owed when load l comes to owe P.
Owing(l, P, X) ==
  /\ X \in SUBSET (Loads \X Photos(Posts))
  /\ \A o \in Loads \X Photos(Posts) :
       o \in X <=> IF o[1] = l THEN o[2] \in P ELSE o[2] \in Owes(o[1])

\* The counter with the pictures of the post that has arrived.
LEMMA EntryCounted ==
  ASSUME IInv, NEW l \in Loads, NEW p \in load[l].want \ load[l].got, load[l].phase = "docs",
         NEW X, X = Owed \cup Added(l, p)
  PROVE  /\ Owing(l, Photos(load[l].got \cup {p}), X)
         /\ {l} \X Photos(load[l].got \cup {p}) \subseteq X
         /\ totalPics + Cardinality(Pics[p]) = Cardinality(X)
<1> DEFINE got == load[l].got
<1>1. /\ got \in SUBSET Posts /\ p \in Posts
      /\ totalPics = Cardinality(Owed)
  BY DEF IInv, TypeOK, CounterInv
<1>2. Owes(l) = Photos(got)
  BY DEF Owes
<1>3. \A o \in Owed : o \in Loads \X Photos(Posts) /\ o[2] \in Owes(o[1])
  BY DEF Owed
<1>5. \A ph : ph \in Photos(got \cup {p}) <=> ph \in Photos(got) \/ \E url \in Pics[p] : ph = <<p, url>>
  BY DEF Photos
<1>6. /\ \A ph \in Photos(got) : ph[1] \in got
      /\ \A url \in Pics[p] : <<p, url>> \in Photos(Posts)
      /\ Photos(got) \subseteq Photos(Posts)
  BY <1>1 DEF Photos
<1>4. \A o : o \in Added(l, p) <=> \E url \in Pics[p] : o = <<l, <<p, url>>>>
  BY DEF Added
<1>7. NoneOf(l, p, Owed)
  BY <1>2, <1>3, <1>6 DEF NoneOf
<1>8. IsFiniteSet(Owed)
  BY <1>3, OwedFinite, FS_Subset
<1>9. totalPics + Cardinality(Pics[p]) = Cardinality(X)
  <2>1. p \in Posts
    BY <1>1
  <2>2. Cardinality(Owed \cup Added(l, p)) = Cardinality(Owed) + Cardinality(Pics[p])
    BY <1>7, <1>8, <2>1, PostCounted
  <2> QED
    BY <1>1, <2>2
<1> HIDE DEF got
<1>11. X \in SUBSET (Loads \X Photos(Posts))
  BY <1>3, <1>4, <1>6
<1>12. \A o \in Loads \X Photos(Posts) :
         o \in X <=> IF o[1] = l THEN o[2] \in Photos(got \cup {p}) ELSE o[2] \in Owes(o[1])
  <2> TAKE o \in Loads \X Photos(Posts)
  <2>1. o \in Owed <=> o[2] \in Owes(o[1])
    BY DEF Owed
  <2>2. o \in Added(l, p) <=> o[1] = l /\ \E url \in Pics[p] : o[2] = <<p, url>>
    BY <1>4
  <2> QED
    BY <1>2, <1>5, <2>1, <2>2
<1>13. {l} \X Photos(got \cup {p}) \subseteq X
  <2>1. got \cup {p} \in SUBSET Posts
    BY <1>1 DEF got
  <2>2. {l} \X Photos(got \cup {p}) \subseteq Loads \X Photos(Posts)
    BY <2>1, PhotosMonotone
  <2> QED
    BY <1>12, <2>2
<1> QED
  BY <1>9, <1>11, <1>12, <1>13 DEF got, Owing

LEMMA OwedNow ==
  ASSUME NEW X, NEW l \in Loads, NEW P, Owing(l, P, X), Owes(l)' = P, \A j \in Loads : j # l => Owes(j)' = Owes(j)
  PROVE  Owed' = X
<1>1. X \in SUBSET (Loads \X Photos(Posts))
  BY DEF Owing
<1>2. \A o \in Loads \X Photos(Posts) : o \in X <=> o[2] \in Owes(o[1])'
  BY DEF Owing
<1> QED
  BY <1>1, <1>2 DEF Owed

\* An entry arrives and others are awaited.
LEMMA EntryAdded ==
  ASSUME IInv, NEW l \in Loads, NEW p \in Posts, EntryFetched(l, p),
         load[l].got \cup {p} # load[l].want
  PROVE  IInv'
<1> DEFINE ld == [load[l] EXCEPT !.got = load[l].got \cup {p}]
<1>1. /\ load \in [Loads -> LoadType] /\ load[l].phase = "docs" /\ Shaped(load[l])
      /\ p \in load[l].want \ load[l].got /\ totalPics \in Nat
      /\ UNCHANGED <<postList, rows, cache, disturbed, refreshing>>
      /\ totalPics' = totalPics + Cardinality(Pics[p])
      /\ load' = [load EXCEPT ![l] = ld]
  BY DEF IInv, TypeOK, LoadType, ShapeInv, EntryFetched, DoneDidSet
<1>2. /\ ld \in LoadType /\ ld.phase = "docs" /\ ld.got = load[l].got \cup {p}
      /\ ld.want = load[l].want /\ ld.jobs = load[l].jobs
      /\ ld.have = load[l].have /\ ld.done = load[l].done
  BY <1>1 DEF LoadType
<1> HIDE DEF ld
<1>3. /\ load' \in [Loads -> LoadType] /\ load'[l] = ld
      /\ \A j \in Loads : j # l => /\ load'[j] = load[j]
                                   /\ UnderWay(j)' = UnderWay(j)
                                   /\ Owes(j)' = Owes(j)
  BY <1>1, <1>2, LoadChanges
<1>4. PICK X : X = Owed \cup Added(l, p)
  OBVIOUS
<1>5. /\ Owing(l, Photos(load[l].got \cup {p}), X)
      /\ totalPics + Cardinality(Pics[p]) = Cardinality(X)
  <2>1. p \in load[l].want \ load[l].got /\ load[l].phase = "docs"
    BY <1>1
  <2> QED
    BY <1>4, <2>1, EntryCounted
<1>6. TypeOK'
  <2>1. Cardinality(Pics[p]) \in Nat
    BY FeedAssumption, FS_CardinalityType
  <2> QED
    BY <1>1, <1>3, <2>1 DEF IInv, TypeOK, LoadType
<1>7. ShapeInv'
  <2>1. Shaped(ld)
    BY <1>1, <1>2 DEF Shaped
  <2> QED
    BY <1>3, <2>1 DEF IInv, ShapeInv
<1>8. CounterInv'
  <2>1. Owes(l)' = Photos(load[l].got \cup {p})
    BY <1>2, <1>3 DEF Owes
  <2>2. Owed' = X
    BY <1>3, <1>5, <2>1, OwedNow
  <2> QED
    BY <1>1, <1>5, <2>2 DEF CounterInv
<1>9. OrderlyInv'
  <2>1. UnderWay(l)' /\ UnderWay(l)
    BY <1>1, <1>2, <1>3 DEF UnderWay
  <2> QED
    BY <1>1, <1>2, <1>3, <2>1 DEF IInv, OrderlyInv
<1>10. ListsInv' /\ RowsOutdatedOnlyInBetween'
  BY <1>1, <1>2, <1>3 DEF IInv, ListsInv, Listed, Sorted, RowsOutdatedOnlyInBetween
<1> QED
  BY <1>6, <1>7, <1>8, <1>9, <1>10 DEF IInv

\* While nothing has gone wrong, what is owed is owed by the load under way.
LEMMA OthersOweNothing ==
  ASSUME IInv, ~disturbed, NEW l \in Loads, UnderWay(l), NEW j \in Loads, j # l
  PROVE  Owes(j) = {}
<1>1. ~UnderWay(j)
  BY DEF IInv, OrderlyInv
<1>2. /\ load[j].phase # "docs"
      /\ load[j].phase = "photos" => load[j].got = load[j].want /\ Photos(load[j].want) = {}
  BY <1>1 DEF IInv, OrderlyInv, UnderWay, ShapeInv, Shaped
<1> QED
  BY <1>2 DEF Owes

\* The last entry arrives: the list is sorted, the cached pictures are counted.
LEMMA LastEntryAdded ==
  ASSUME IInv, NEW l \in Loads, NEW p \in Posts, EntryFetched(l, p),
         load[l].got \cup {p} = load[l].want
  PROVE  IInv'
<1> DEFINE want  == load[l].want
           P     == Photos(want)
           hits  == Cached(want)
           total == totalPics + Cardinality(Pics[p])
           done  == total \in 1..Cardinality(hits)
           phase == IF done THEN "shown" ELSE "photos"
           ld    == [load[l] EXCEPT !.got = want, !.have = hits, !.done = Cardinality(hits),
                                    !.jobs = P \ hits, !.phase = phase]
<1>1. /\ load \in [Loads -> LoadType] /\ load[l].phase = "docs" /\ Shaped(load[l])
      /\ p \in load[l].want \ load[l].got /\ totalPics \in Nat /\ want \in SUBSET Posts
      /\ UNCHANGED <<cache, disturbed>>
      /\ load' = [load EXCEPT ![l] = ld]
      /\ postList' \in NewestFirst(want)
      /\ totalPics' = IF done THEN 0 ELSE total
      /\ rows' = IF done THEN postList' ELSE rows
      /\ refreshing' = IF done THEN FALSE ELSE refreshing
  <2>1. /\ load \in [Loads -> LoadType] /\ load[l].phase = "docs" /\ Shaped(load[l])
        /\ p \in load[l].want \ load[l].got /\ totalPics \in Nat /\ want \in SUBSET Posts
        /\ UNCHANGED <<cache, disturbed>>
    BY DEF IInv, TypeOK, LoadType, ShapeInv, EntryFetched
  <2>2. load[l].got \cup {p} = want
    OBVIOUS
  <2>3. load' = [load EXCEPT ![l] = ld]
    <3> HIDE DEF want
    <3>1. CASE done
      BY <2>2, <3>1 DEF EntryFetched
    <3>2. CASE ~done
      BY <2>2, <3>2 DEF EntryFetched
    <3> QED
      BY <3>1, <3>2
  <2>4. postList' \in NewestFirst(want)
    BY <2>2 DEF EntryFetched
  <2>5. /\ totalPics' = IF done THEN 0 ELSE total
        /\ rows' = IF done THEN postList' ELSE rows
        /\ refreshing' = IF done THEN FALSE ELSE refreshing
    <3> HIDE DEF want
    <3>1. CASE done
      BY <2>2, <3>1 DEF EntryFetched, DoneDidSet
    <3>2. CASE ~done
      BY <2>2, <3>2 DEF EntryFetched, DoneDidSet
    <3> QED
      BY <3>1, <3>2
  <2> QED
    BY <2>1, <2>3, <2>4, <2>5
<1>2. P \in SUBSET Photos(Posts) /\ hits \in SUBSET P
  BY <1>1, PhotosMonotone DEF Cached
<1>3. /\ IsFiniteSet(P) /\ Cardinality(P) \in Nat
      /\ IsFiniteSet(hits) /\ Cardinality(hits) \in Nat
      /\ Cardinality(Pics[p]) \in Nat
  BY <1>2, SomePhotosFinite, FS_Subset, FS_CardinalityType, FeedAssumption
<1>4. /\ ld \in LoadType /\ ld.phase = phase /\ ld.got = want /\ ld.want = want
      /\ ld.jobs = P \ hits /\ ld.have = hits /\ ld.done = Cardinality(hits)
  <2> HIDE DEF P, hits, done
  <2> QED
    BY <1>1, <1>2, <1>3 DEF LoadType
<1> HIDE DEF ld, hits
<1>5. /\ load' \in [Loads -> LoadType] /\ load'[l] = ld
      /\ \A j \in Loads : j # l => /\ load'[j] = load[j]
                                   /\ UnderWay(j)' = UnderWay(j)
                                   /\ Owes(j)' = Owes(j)
  BY <1>1, <1>4, LoadChanges
<1>6. PICK X : X = Owed \cup Added(l, p)
  OBVIOUS
<1>7. Owing(l, P, X) /\ {l} \X P \subseteq X /\ total = Cardinality(X)
  <2>1. p \in load[l].want \ load[l].got /\ load[l].phase = "docs"
    BY <1>1
  <2> QED
    BY <1>6, <2>1, EntryCounted
<1>8. X \in SUBSET (Loads \X Photos(Posts)) /\ total \in Nat
  BY <1>1, <1>3, <1>7 DEF Owing
<1>9. done => hits = P /\ X = {l} \X P
  <2> SUFFICES ASSUME done
               PROVE  hits = P /\ X = {l} \X P
    OBVIOUS
  <2>1. Cardinality(hits) >= Cardinality(X)
    BY <1>3, <1>7, <1>8
  <2> HIDE DEF P, done, total
  <2> QED
    BY <1>2, <1>7, <1>8, <2>1, OnlyOneOwes
<1>10. postList' \in Seq(Posts) /\ ToSet(postList') = want /\ Sorted(postList')
  BY <1>1, NewestFirstSorts
<1> HIDE DEF P, done, total, want
<1>11. TypeOK'
  BY <1>1, <1>5, <1>8, <1>10 DEF IInv, TypeOK, LoadType
<1>12. ShapeInv'
  <2>1. Shaped(ld)
    BY <1>2, <1>4, <1>9 DEF Shaped, P
  <2> QED
    BY <1>5, <2>1 DEF IInv, ShapeInv
<1>13. CounterInv'
  <2>1. CASE done
    <3>1. Owes(l)' = {}
      BY <1>4, <1>5, <2>1 DEF Owes
    <3>2. Owed \subseteq {l} \X P
      BY <1>6, <1>9, <2>1
    <3>3. Owed' = {}
      BY <1>5, <3>1, <3>2, OwedSettled
    <3> QED
      BY <1>1, <2>1, <3>3, FS_EmptySet DEF CounterInv
  <2>2. CASE ~done
    <3>1. Owes(l)' = P
      BY <1>4, <1>5, <2>2 DEF Owes, P
    <3>2. Owed' = X
      BY <1>5, <1>7, <3>1, OwedNow
    <3> QED
      BY <1>1, <1>7, <2>2, <3>2 DEF CounterInv
  <2> QED
    BY <2>1, <2>2
<1>14. OrderlyInv'
  <2> SUFFICES ASSUME ~disturbed'
               PROVE  OrderlyInv'
    BY DEF OrderlyInv
  <2>1. ~disturbed /\ UnderWay(l)
    BY <1>1 DEF UnderWay
  <2>2. \A j \in Loads : UnderWay(j)' => j = l
    BY <1>5, <2>1 DEF IInv, OrderlyInv
  <2>3. hits \cup (P \ hits) = P
    BY <1>2
  <2>4. ASSUME ld.phase = "photos", P \ hits = {}
        PROVE  P = {}
    <3>1. \A j \in Loads : j # l => Owes(j) = {}
      BY <2>1, OthersOweNothing
    <3>2. X \subseteq {l} \X P
      <4>1. ASSUME NEW o \in X PROVE o \in {l} \X P
        <5>1. o \in Loads \X Photos(Posts)
          BY <1>8
        <5>2. o[1] = l /\ o[2] \in P
          BY <1>7, <3>1, <5>1 DEF Owing
        <5> QED
          BY <5>1, <5>2
      <4> QED
        BY <4>1
    <3>3. Cardinality(X) = Cardinality(P)
      <4>1. X = {l} \X P
        BY <1>7, <3>2
      <4> QED
        BY <1>2, <4>1, PairsCounted
    <3>4. hits = P /\ ~done
      BY <1>2, <1>4, <2>4
    <3>5. total = 0
      BY <1>3, <1>7, <1>8, <3>3, <3>4 DEF done
    <3> QED
      BY <1>3, <1>7, <3>3, <3>5, FS_EmptySet
  <2> QED
    BY <1>4, <1>5, <2>1, <2>2, <2>3, <2>4 DEF IInv, OrderlyInv, P
<1>15. ListsInv'
  <2>1. \A j \in Loads : load[j].phase \in {"photos", "shown"} => j # l
    BY <1>1
  <2>2. Listed(rows)'
    <3>1. CASE done
      BY <1>1, <1>4, <1>5, <1>10, <3>1 DEF Listed, Sorted
    <3>2. CASE ~done
      BY <1>1, <1>5, <2>1, <3>2 DEF IInv, ListsInv, Listed, Sorted
    <3> QED
      BY <3>1, <3>2
  <2>3. Listed(postList)'
    BY <1>1, <1>4, <1>5, <1>10 DEF Listed, Sorted
  <2> QED
    BY <2>2, <2>3 DEF ListsInv
<1>16. RowsOutdatedOnlyInBetween'
  BY <1>1, <1>4, <1>5 DEF RowsOutdatedOnlyInBetween
<1> QED
  BY <1>11, <1>12, <1>13, <1>14, <1>15, <1>16 DEF IInv

\* What a load owes is part of what is owed.
LEMMA OwedByWaiting ==
  ASSUME NEW l \in Loads, NEW P \in SUBSET Photos(Posts), Owes(l) = P
  PROVE  {l} \X P \subseteq Owed
BY DEF Owed

\* Alone, a load owes all that is owed.
LEMMA OwedByOne ==
  ASSUME IInv, ~disturbed, NEW l \in Loads, UnderWay(l),
         NEW P \in SUBSET Photos(Posts), Owes(l) = P
  PROVE  Owed = {l} \X P
<1>1. \A j \in Loads : j # l => Owes(j) = {}
  BY OthersOweNothing
<1>2. Owed \subseteq {l} \X P
  <2>1. ASSUME NEW o \in Owed
        PROVE  o \in {l} \X P
    <3>1. o \in Loads \X Photos(Posts) /\ o[2] \in Owes(o[1])
      BY DEF Owed
    <3>2. o[1] = l /\ o[2] \in P
      BY <1>1, <3>1
    <3> QED
      BY <3>1, <3>2
  <2> QED
    BY <2>1
<1> QED
  BY <1>2, OwedByWaiting

\* A download ends, and with it perhaps the load.
LEMMA PhotoEnds ==
  ASSUME IInv, NEW l \in Loads, NEW ph \in load[l].jobs, NEW ok \in BOOLEAN,
         PhotoLoaded(l, ph, ok)
  PROVE  IInv'
<1> DEFINE P     == Photos(load[l].want)
           n     == IF ok THEN load[l].done + 1 ELSE load[l].done
           done  == ok /\ n = totalPics
           have  == IF ok THEN load[l].have \cup {ph} ELSE load[l].have
           phase == IF done THEN "shown" ELSE load[l].phase
           ld    == [load[l] EXCEPT !.jobs = load[l].jobs \ {ph}, !.done = n,
                                    !.have = have, !.phase = phase]
<1>1. /\ load \in [Loads -> LoadType] /\ Shaped(load[l])
      /\ totalPics \in Nat /\ UNCHANGED postList
      /\ disturbed' = (disturbed \/ ~ok)
      /\ totalPics = Cardinality(Owed)
  BY DEF IInv, TypeOK, LoadType, ShapeInv, CounterInv, PhotoLoaded
<1>2. /\ load[l] \in LoadType /\ load[l].phase = "photos" /\ load[l].got = load[l].want
      /\ load[l].done = Cardinality(load[l].have) /\ load[l].done \in Nat
      /\ load[l].have \subseteq P /\ load[l].jobs \subseteq P \ load[l].have
      /\ P \in SUBSET Photos(Posts)
  <2>1. load[l] \in LoadType
    BY <1>1
  <2>2. load[l].phase = "photos" /\ load[l].got = load[l].want
    BY <1>1, <2>1 DEF Shaped, LoadType
  <2> QED
    BY <1>1, <2>1, <2>2, PhotosMonotone DEF Shaped, LoadType
<1>3. (n > load[l].done /\ n = totalPics) <=> done
  BY <1>2
<1>4. /\ load' = [load EXCEPT ![l] = ld]
      /\ totalPics' = IF done THEN 0 ELSE totalPics
      /\ rows' = IF done THEN postList ELSE rows
      /\ refreshing' = IF done THEN FALSE ELSE refreshing
      /\ cache' = IF ok THEN cache \cup {ph[2]} ELSE cache
  BY <1>3 DEF PhotoLoaded, DoneDidSet, Counted
<1>5. n \in Nat /\ have \in SUBSET P
  BY <1>2
<1>6. /\ ld \in LoadType /\ ld.phase = phase /\ ld.got = load[l].want /\ ld.want = load[l].want
      /\ ld.jobs = load[l].jobs \ {ph} /\ ld.have = have /\ ld.done = n
  <2> HIDE DEF P, have, n, done
  <2> QED
    BY <1>2, <1>5 DEF LoadType
<1> HIDE DEF ld
<1>7. /\ load' \in [Loads -> LoadType] /\ load'[l] = ld
      /\ \A j \in Loads : j # l => /\ load'[j] = load[j]
                                   /\ UnderWay(j)' = UnderWay(j)
                                   /\ Owes(j)' = Owes(j)
  BY <1>1, <1>4, <1>6, LoadChanges
<1>8. n = Cardinality(have)
  <2>1. IsFiniteSet(load[l].have)
    BY <1>2, SomePhotosFinite
  <2>2. ph \notin load[l].have /\ load[l].done = Cardinality(load[l].have)
    BY <1>2
  <2>3. Cardinality(load[l].have \cup {ph}) = Cardinality(load[l].have) + 1
    BY <2>1, <2>2, FS_AddElement
  <2> QED
    BY <2>2, <2>3
<1>9. Owes(l) = P /\ {l} \X P \subseteq Owed /\ Owed \in SUBSET (Loads \X Photos(Posts))
  <2>1. Owes(l) = P
    BY <1>2 DEF Owes
  <2>2. Owed \in SUBSET (Loads \X Photos(Posts))
    BY DEF Owed
  <2> QED
    BY <1>2, <2>1, <2>2, OwedByWaiting
<1>10. done => have = P /\ Owed = {l} \X P
  <2> SUFFICES ASSUME done
               PROVE  have = P /\ Owed = {l} \X P
    OBVIOUS
  <2>1. Cardinality(have) >= Cardinality(Owed)
    BY <1>1, <1>8
  <2> HIDE DEF P, done, n, have
  <2> QED
    BY <1>2, <1>5, <1>9, <2>1, OnlyOneOwes
<1>11. TypeOK'
  <2>1. ph[2] \in UNION {Pics[p] : p \in Posts}
    BY <1>2 DEF Photos
  <2> HIDE DEF done
  <2> QED
    BY <1>1, <1>4, <1>7, <2>1 DEF IInv, TypeOK, LoadType
<1>12. ShapeInv'
  <2>1. ld.have \subseteq P /\ ld.jobs \subseteq P \ ld.have
    BY <1>2, <1>5, <1>6
  <2>2. ld.done = Cardinality(ld.have)
    BY <1>6, <1>8
  <2>3. phase = "shown" => have = P
    BY <1>2, <1>10
  <2>4. phase \in {"shown", "photos"}
    BY <1>2
  <2> HIDE DEF have, n, phase
  <2>5. Shaped(ld)
    BY <1>6, <2>1, <2>2, <2>3, <2>4 DEF Shaped
  <2> QED
    BY <1>7, <2>5 DEF IInv, ShapeInv
<1> HIDE DEF have, n
<1>13. CounterInv'
  <2>1. CASE done
    <3>1. Owes(l)' = {}
      BY <1>6, <1>7, <2>1 DEF Owes
    <3>2. Owed' = {}
      BY <1>7, <1>10, <2>1, <3>1, OwedSettled
    <3> QED
      BY <1>4, <2>1, <3>2, FS_EmptySet DEF CounterInv
  <2>2. CASE ~done
    <3>1. Owes(l)' = Owes(l)
      BY <1>2, <1>6, <1>7, <2>2 DEF Owes
    <3>2. Owed' = Owed
      BY <1>7, <3>1, OwedKept
    <3> QED
      BY <1>1, <1>4, <2>2, <3>2 DEF CounterInv
  <2> QED
    BY <2>1, <2>2
<1>14. OrderlyInv'
  <2> SUFFICES ASSUME ~disturbed'
               PROVE  OrderlyInv'
    BY DEF OrderlyInv
  <2>1. ~disturbed /\ UnderWay(l) /\ ok
    BY <1>1 DEF UnderWay
  <2>2. \A j \in Loads : UnderWay(j)' => j = l
    BY <1>7, <2>1 DEF IInv, OrderlyInv
  <2>3. load[l].have \cup load[l].jobs = P
    BY <1>2, <2>1 DEF IInv, OrderlyInv
  <2>4. ld.have \cup ld.jobs = P
    BY <1>6, <2>1, <2>3 DEF have
  <2>5. ASSUME ld.phase = "photos", ld.jobs = {}
        PROVE  FALSE
    <3>1. have = P /\ ~done
      BY <1>6, <2>4, <2>5
    <3>2. Owed = {l} \X P
      BY <1>2, <1>9, <2>1, OwedByOne
    <3>3. n = totalPics
      BY <1>1, <1>2, <1>8, <3>1, <3>2, PairsCounted
    <3> QED
      BY <2>1, <3>1, <3>3
  <2> QED
    BY <1>6, <1>7, <2>1, <2>2, <2>4, <2>5 DEF IInv, OrderlyInv
<1>15. ListsInv'
  <2>1. \A j \in Loads : load[j].phase \in {"photos", "shown"} =>
          load'[j].phase \in {"photos", "shown"} /\ load'[j].want = load[j].want
    BY <1>2, <1>6, <1>7
  <2>2. Listed(rows)'
    BY <1>4, <2>1 DEF IInv, ListsInv, Listed, Sorted
  <2>3. Listed(postList)'
    BY <1>1, <2>1 DEF IInv, ListsInv, Listed, Sorted
  <2> QED
    BY <2>2, <2>3 DEF ListsInv
<1>16. RowsOutdatedOnlyInBetween'
  BY <1>1, <1>2, <1>4, <1>6, <1>7 DEF IInv, RowsOutdatedOnlyInBetween
<1> QED
  BY <1>11, <1>12, <1>13, <1>14, <1>15, <1>16 DEF IInv

\* An entry that is not there ends the app: everything is as it was at first but for
\* the loads used up.
LEMMA MissingEnds ==
  ASSUME IInv, NEW l \in Loads, NEW p \in Posts, EntryMissing(l, p)
  PROVE  IInv'
<1> DEFINE gone == [Idle EXCEPT !.phase = "failed"]
<1>1. /\ load' = [j \in Loads |-> IF load[j].phase = "new" THEN load[j] ELSE gone]
      /\ totalPics' = 0 /\ postList' = <<>> /\ rows' = <<>> /\ cache' = {}
      /\ refreshing' = FALSE /\ disturbed' = FALSE
  BY DEF EntryMissing
<1>2. /\ gone \in LoadType /\ gone.phase = "failed" /\ gone.want = {} /\ gone.got = {}
      /\ gone.jobs = {} /\ gone.have = {} /\ gone.done = 0
  BY DEF Idle, LoadType
<1> HIDE DEF gone
<1>3. \A j \in Loads : load'[j] = gone \/ (load'[j] = load[j] /\ load[j].phase = "new")
  BY <1>1
<1>4. TypeOK'
  <2>1. load' \in [Loads -> LoadType]
    BY <1>1, <1>2 DEF IInv, TypeOK, LoadType
  <2>2. <<>> \in Seq(Posts)
    OBVIOUS
  <2> QED
    BY <1>1, <2>1, <2>2 DEF TypeOK, LoadType
<1>5. ShapeInv'
  <2>1. Cardinality({}) = 0
    BY FS_EmptySet
  <2>2. Shaped(gone)
    BY <1>2, <2>1 DEF Shaped
  <2> QED
    BY <1>3, <2>2 DEF IInv, ShapeInv
<1>6. CounterInv'
  <2>1. \A j \in Loads : Owes(j)' = {}
    BY <1>2, <1>3 DEF Owes
  <2>2. Owed' = {}
    BY <2>1 DEF Owed
  <2> QED
    BY <1>1, <2>2, FS_EmptySet DEF CounterInv
<1>7. OrderlyInv'
  <2>1. \A j \in Loads : ~UnderWay(j)'
    BY <1>2, <1>3 DEF IInv, ShapeInv, Shaped, UnderWay
  <2> QED
    BY <1>2, <1>3, <2>1 DEF OrderlyInv
<1>8. ListsInv' /\ RowsOutdatedOnlyInBetween'
  BY <1>1 DEF ListsInv, Listed, Sorted, RowsOutdatedOnlyInBetween
<1> QED
  BY <1>4, <1>5, <1>6, <1>7, <1>8 DEF IInv

LEMMA NextKeeps == IInv /\ [Next]_vars => IInv'
<1> SUFFICES ASSUME IInv, [Next]_vars PROVE IInv'
  OBVIOUS
<1>1. ASSUME NEW l \in Loads, loadFeedWithFirebase(l)
      PROVE  IInv'
  BY <1>1, LoadStarts
<1>2. ASSUME NEW l \in Loads, QueryFailed(l) \/ \E found \in SUBSET Posts : QueryAnswered(l, found)
      PROVE  IInv'
  BY <1>2, QueryEnds
<1>3. ASSUME NEW l \in Loads, NEW p \in Posts, EntryFetched(l, p)
      PROVE  IInv'
  BY <1>3, EntryAdded, LastEntryAdded
<1>4. ASSUME NEW l \in Loads, NEW ph \in load[l].jobs, NEW ok \in BOOLEAN, PhotoLoaded(l, ph, ok)
      PROVE  IInv'
  BY <1>4, PhotoEnds
<1>5. ASSUME NEW l \in Loads, NEW p \in Posts, EntryMissing(l, p)
      PROVE  IInv'
  BY <1>5, MissingEnds
<1>6. CASE UNCHANGED vars
  <2>1. TypeOK' /\ ShapeInv'
    BY <1>6 DEF vars, IInv, TypeOK, ShapeInv
  <2>2. CounterInv' /\ OrderlyInv'
    BY <1>6 DEF vars, IInv, CounterInv, Owed, Owes, OrderlyInv, UnderWay
  <2>3. ListsInv' /\ RowsOutdatedOnlyInBetween'
    BY <1>6 DEF vars, IInv, ListsInv, Listed, Sorted, RowsOutdatedOnlyInBetween
  <2> QED
    BY <2>1, <2>2, <2>3 DEF IInv
<1> QED
  BY <1>1, <1>2, <1>3, <1>4, <1>5, <1>6 DEF Next, Answer

-----------------------------------------------------------------------------
LEMMA InvariantHolds == Spec => []IInv
BY InitKeeps, NextKeeps, PTL DEF Spec

\* However many loads overlap and fail, and whatever their queries find, the table is
\* sorted, shows the posts of one query with every picture of theirs, and differs from
\* postList only while a load waits (NewsFeedViewController:64-146).
THEOREM TableCorrect == Spec => []TableInv
<1>1. IInv => TableInv
  <2> SUFFICES ASSUME IInv PROVE TableInv
    OBVIOUS
  <2>1. RowsSorted
    BY DEF IInv, ListsInv, Listed, Sorted, RowsSorted
  <2>2. ReloadsComplete
    BY DEF IInv, ShapeInv, Shaped, ReloadsComplete
  <2> QED
    BY <2>1, <2>2 DEF IInv, TableInv
<1> QED
  BY <1>1, InvariantHolds, PTL

\* The counter that all loads share is 0 again once loads that neither overlapped nor
\* failed have ended, cached pictures included (NewsFeedViewController:65-75, 133).
THEOREM TotalAlwaysBalanced == Spec => []TotalBalanced
<1>1. IInv => TotalBalanced
  <2> SUFFICES ASSUME IInv, ~disturbed, \A l \in Loads : ~UnderWay(l)
               PROVE  totalPics = 0
    BY DEF TotalBalanced
  <2>1. \A l \in Loads : Owes(l) = {}
    BY DEF IInv, OrderlyInv, ShapeInv, Shaped, UnderWay, Owes
  <2>2. Owed = {}
    BY <2>1 DEF Owed
  <2> QED
    BY <2>2, FS_EmptySet DEF IInv, CounterInv
<1> QED
  BY <1>1, InvariantHolds, PTL

-----------------------------------------------------------------------------
(***************************************************************************)
(* The explore page, the other page of entries (module Explore).  Its      *)
(* filter flag is truthful for any number of places and touches, as long   *)
(* as the user waits for every answer.                                     *)
(*                                                                         *)
(* FilterFlagTruthful speaks of settled states only.  What every step      *)
(* preserves is stronger: the touches of a user who waits leave one thing  *)
(* under way at a time, which travels from the lookup over the background  *)
(* queue to the query and the reload, and while a query that was built     *)
(* from searchQuery is under way, searchQuery still is what it was.        *)
(***************************************************************************)

NothingAsked == \A q \in Queries : asked[q] = 0

\* The one thing under way: a lookup, a dispatched load, a query being built, a
\* query asked, a reload.
LookingUp == /\ \E p \in Places : lookups = {p}
             /\ dispatched = 0 /\ building = 0 /\ reloads = 0 /\ NothingAsked
Dispatched == /\ lookups = {}
              /\ dispatched = 1 /\ building = 0 /\ reloads = 0 /\ NothingAsked
Building == /\ lookups = {}
            /\ dispatched = 0 /\ building = 1 /\ reloads = 0 /\ NothingAsked
            /\ searchQuery # NoText
Asking == /\ lookups = {}
          /\ dispatched = 0 /\ building = 0 /\ reloads = 0
          /\ \E q \in Queries : /\ asked[q] = 1
                                /\ \A r \in Queries \ {q} : asked[r] = 0
                                /\ q = NoText <=> searchQuery = NoText
Reloading == /\ lookups = {}
             /\ dispatched = 0 /\ building = 0 /\ reloads = 1 /\ NothingAsked

OneAtATime == Settled \/ LookingUp \/ Dispatched \/ Building \/ Asking \/ Reloading

\* What every step preserves.
FilterKept == /\ ExploreTypeOK
              /\ hasty = 0 => OneAtATime /\ (isFiltered <=> entries # NoText)

LEMMA FilterInit == ExploreInit => FilterKept
<1> SUFFICES ASSUME ExploreInit PROVE FilterKept
  OBVIOUS
<1>1. ExploreTypeOK
  <2>1. asked \in [Queries -> Nat]
    BY DEF ExploreInit
  <2>2. touches \in 0..MaxTouches /\ hasty \in 0..MaxHasty
    BY ExploreAssumption DEF ExploreInit
  <2> QED
    BY <2>1, <2>2 DEF ExploreInit, ExploreTypeOK, Texts, Queries
<1>2. Dispatched
  BY DEF ExploreInit, Dispatched, NothingAsked
<1>3. isFiltered <=> entries # NoText
  BY DEF ExploreInit
<1> QED
  BY <1>1, <1>2, <1>3 DEF FilterKept, OneAtATime

\* A touch counts as hasty unless the page is settled.
LEMMA TouchSettled ==
  ASSUME FilterKept, Touch
  PROVE  /\ touches' \in 0..MaxTouches /\ hasty' \in 0..MaxHasty /\ failed' = failed
         /\ hasty' = 0 => Settled /\ hasty = 0
<1>1. touches \in 0..MaxTouches /\ hasty \in 0..MaxHasty /\ MaxTouches \in Nat /\ MaxHasty \in Nat
  BY ExploreAssumption DEF FilterKept, ExploreTypeOK
<1> QED
  BY <1>1 DEF Touch

LEMMA UserKeeps ==
  ASSUME FilterKept, User
  PROVE  FilterKept'
<1>1. Touch
  BY DEF User, PullToRefresh, searchBarTextDidBeginEditing, textDidChange, searchButtonClicked,
         cancelButtonClicked, didSelectRow
<1>2. /\ touches' \in 0..MaxTouches /\ hasty' \in 0..MaxHasty /\ failed' = failed
      /\ hasty' = 0 => Settled /\ hasty = 0
  BY <1>1, TouchSettled
<1>3. CASE PullToRefresh
  BY <1>2, <1>3
  DEF PullToRefresh, FilterKept, ExploreTypeOK, OneAtATime, Settled, Dispatched, NothingAsked,
      Texts
<1>4. CASE searchBarTextDidBeginEditing
  BY <1>2, <1>4 DEF searchBarTextDidBeginEditing, FilterKept, ExploreTypeOK, OneAtATime, Settled,
                    Texts
<1>5. ASSUME NEW t \in Texts, textDidChange(t) PROVE FilterKept'
  BY <1>2, <1>5
  DEF textDidChange, exitSearch, FilterKept, ExploreTypeOK, OneAtATime, Settled, Dispatched,
      NothingAsked, Texts
<1>6. CASE searchButtonClicked
  BY <1>2, <1>6
  DEF searchButtonClicked, exitSearch, FilterKept, ExploreTypeOK, OneAtATime, Settled,
      Dispatched, NothingAsked, Texts
<1>7. CASE cancelButtonClicked
  BY <1>2, <1>7
  DEF cancelButtonClicked, exitSearch, FilterKept, ExploreTypeOK, OneAtATime, Settled, Texts
<1>8. ASSUME NEW p \in Places, didSelectRow(p) PROVE FilterKept'
  BY <1>2, <1>8
  DEF didSelectRow, FilterKept, ExploreTypeOK, OneAtATime, Settled, LookingUp, NothingAsked,
      Texts
<1> QED
  BY <1>3, <1>4, <1>5, <1>6, <1>7, <1>8 DEF User

\* A lookup that is answered hands its place to searchQuery: nothing else is under
\* way that could read it.
LEMMA LookupKeeps ==
  ASSUME FilterKept, NEW p \in Places, PlaceFound(p) \/ PlaceFailed(p)
  PROVE  FilterKept'
<1>1. p \in lookups /\ lookups' = lookups \ {p} /\ UNCHANGED <<touches, hasty>>
  BY DEF PlaceFound, PlaceFailed, past
<1>2. hasty = 0 => LookingUp /\ lookups' = {}
  BY <1>1 DEF FilterKept, OneAtATime, Settled, LookingUp, Dispatched, Building, Asking, Reloading
<1>3. CASE PlaceFound(p)
  BY <1>1, <1>2, <1>3, ExploreAssumption
  DEF PlaceFound, exitSearch, past, FilterKept, ExploreTypeOK, OneAtATime, LookingUp, Dispatched,
      NothingAsked, Texts
<1>4. CASE PlaceFailed(p)
  BY <1>1, <1>2, <1>4
  DEF PlaceFailed, FilterKept, ExploreTypeOK, OneAtATime, Settled, LookingUp, NothingAsked
<1> QED
  BY <1>3, <1>4

LEMMA AskedOnce ==
  ASSUME ExploreTypeOK, NEW q \in Queries, NEW n \in Nat, asked' = [asked EXCEPT ![q] = n]
  PROVE  /\ asked' \in [Queries -> Nat] /\ asked'[q] = n
         /\ \A r \in Queries \ {q} : asked'[r] = asked[r]
BY DEF ExploreTypeOK

\* A dispatched load becomes a query of its own, or reads searchQuery once more.
LEMMA LoadKeeps ==
  ASSUME FilterKept, loadEntryData
  PROVE  FilterKept'
<1>1. /\ dispatched > 0 /\ dispatched' = dispatched - 1
      /\ UNCHANGED <<barText, searchQuery, isFiltered, entries, searching, lookups, reloads,
                     spinning, wanted, past>>
  BY DEF loadEntryData
<1>2. hasty = 0 => Dispatched /\ dispatched' = 0
  BY <1>1 DEF FilterKept, OneAtATime, Settled, LookingUp, Dispatched, Building, Asking, Reloading
<1>3. NoText \in Queries /\ asked[NoText] + 1 \in Nat
  BY DEF FilterKept, ExploreTypeOK, Queries, Texts
<1>4. CASE searchQuery = NoText
  <2>1. asked' = [asked EXCEPT ![NoText] = asked[NoText] + 1] /\ building' = building
    BY <1>4 DEF loadEntryData
  <2>2. /\ asked' \in [Queries -> Nat] /\ asked'[NoText] = asked[NoText] + 1
        /\ \A r \in Queries \ {NoText} : asked'[r] = asked[r]
    BY <1>3, <2>1, AskedOnce DEF FilterKept
  <2>3. ExploreTypeOK'
    BY <1>1, <2>1, <2>2 DEF FilterKept, ExploreTypeOK, past
  <2>4. hasty = 0 => Asking'
    BY <1>1, <1>2, <1>3, <1>4, <2>1, <2>2 DEF Dispatched, Asking, NothingAsked
  <2> QED
    BY <1>1, <2>3, <2>4 DEF FilterKept, OneAtATime, past
<1>5. CASE searchQuery # NoText
  <2>1. building' = building + 1 /\ asked' = asked
    BY <1>5 DEF loadEntryData
  <2> QED
    BY <1>1, <1>2, <1>5, <2>1
    DEF FilterKept, ExploreTypeOK, past, OneAtATime, Dispatched, Building, NothingAsked
<1> QED
  BY <1>4, <1>5

LEMMA SignedOutKeeps ==
  ASSUME FilterKept, LoadSignedOut
  PROVE  FilterKept'
<1>1. /\ dispatched > 0 /\ dispatched' = dispatched - 1 /\ failed' = TRUE
      /\ UNCHANGED <<barText, searchQuery, isFiltered, entries, searching, building, asked, lookups,
                     reloads, spinning, wanted, touches, hasty>>
  BY DEF LoadSignedOut
<1>2. ExploreTypeOK'
  BY <1>1 DEF FilterKept, ExploreTypeOK
<1>3. hasty = 0 => Dispatched
  BY <1>1 DEF FilterKept, OneAtATime, Settled, LookingUp, Dispatched, Building, Asking, Reloading
<1>4. hasty = 0 => Settled'
  BY <1>1, <1>3 DEF Dispatched, Settled, NothingAsked
<1> QED
  BY <1>1, <1>2, <1>4 DEF FilterKept, OneAtATime

LEMMA BuildKeeps ==
  ASSUME FilterKept, BuildQuery
  PROVE  FilterKept'
<1> DEFINE q == IF searchQuery = NoText THEN NoName ELSE searchQuery
<1>1. /\ building > 0 /\ building' = building - 1
      /\ asked' = [asked EXCEPT ![q] = asked[q] + 1]
      /\ UNCHANGED <<barText, searchQuery, isFiltered, entries, searching, dispatched, lookups,
                     reloads, spinning, wanted, past>>
  BY DEF BuildQuery
<1>2. hasty = 0 => Building /\ building' = 0
  BY <1>1 DEF FilterKept, OneAtATime, Settled, LookingUp, Dispatched, Building, Asking, Reloading
<1>3. q \in Queries /\ asked[q] + 1 \in Nat
  BY DEF FilterKept, ExploreTypeOK, Queries
<1>4. searchQuery # NoText => q = searchQuery
  OBVIOUS
<1> HIDE DEF q
<1>5. /\ asked' \in [Queries -> Nat] /\ asked'[q] = asked[q] + 1
      /\ \A r \in Queries \ {q} : asked'[r] = asked[r]
  BY <1>1, <1>3, AskedOnce DEF FilterKept
<1>6. ExploreTypeOK'
  BY <1>1, <1>5 DEF FilterKept, ExploreTypeOK, past
<1>7. hasty = 0 => Asking'
  BY <1>1, <1>2, <1>3, <1>4, <1>5 DEF Building, Asking, NothingAsked
<1> QED
  BY <1>1, <1>6, <1>7 DEF FilterKept, OneAtATime, past

\* The answer sets the flag from searchQuery, which the query was built from.
LEMMA AnswerKeeps ==
  ASSUME FilterKept, NEW q \in Queries, EntriesFetched(q) \/ FetchFailed(q)
  PROVE  FilterKept'
<1>1. /\ asked[q] > 0 /\ asked' = [asked EXCEPT ![q] = asked[q] - 1]
      /\ UNCHANGED <<building, barText, searching, dispatched, lookups, spinning, wanted,
                     touches, hasty>>
  BY DEF EntriesFetched, FetchFailed, past
<1>2. asked[q] - 1 \in Nat
  BY <1>1 DEF FilterKept, ExploreTypeOK
<1>3. /\ asked' \in [Queries -> Nat] /\ asked'[q] = asked[q] - 1
      /\ \A r \in Queries \ {q} : asked'[r] = asked[r]
  BY <1>1, <1>2, AskedOnce DEF FilterKept
<1>4. hasty = 0 => /\ lookups = {} /\ dispatched = 0 /\ building = 0 /\ reloads = 0
                   /\ q = NoText <=> searchQuery = NoText
                   /\ NothingAsked'
  <2> SUFFICES ASSUME hasty = 0
               PROVE  /\ lookups = {} /\ dispatched = 0 /\ building = 0 /\ reloads = 0
                      /\ q = NoText <=> searchQuery = NoText
                      /\ NothingAsked'
    OBVIOUS
  <2>1. Asking
    BY <1>1 DEF FilterKept, OneAtATime, Settled, LookingUp, Dispatched, Building, Reloading,
                NothingAsked
  <2>2. PICK p \in Queries : /\ asked[p] = 1
                             /\ \A r \in Queries \ {p} : asked[r] = 0
                             /\ p = NoText <=> searchQuery = NoText
    BY <2>1 DEF Asking
  <2>3. p = q
    BY <1>1, <2>2
  <2> QED
    BY <1>3, <2>1, <2>2, <2>3 DEF Asking, NothingAsked
<1>5. CASE EntriesFetched(q)
  <2>1. /\ entries' = q /\ isFiltered' = (searchQuery # NoText) /\ searchQuery' = NoText
        /\ reloads' = reloads + 1 /\ UNCHANGED past
    BY <1>5 DEF EntriesFetched, FilterFlag, Posted
  <2>2. ExploreTypeOK'
    BY <1>1, <1>3, <2>1 DEF FilterKept, ExploreTypeOK, past, Texts
  <2>3. hasty = 0 => Reloading'
    BY <1>1, <1>4, <2>1 DEF Reloading
  <2>4. hasty = 0 => (isFiltered' <=> entries' # NoText)
    BY <1>4, <2>1
  <2> QED
    BY <1>1, <2>2, <2>3, <2>4 DEF FilterKept, OneAtATime
<1>6. CASE FetchFailed(q)
  <2>1. failed' = TRUE /\ UNCHANGED <<searchQuery, isFiltered, entries, reloads>>
    BY <1>6 DEF FetchFailed
  <2>2. ExploreTypeOK'
    BY <1>1, <1>3, <2>1 DEF FilterKept, ExploreTypeOK
  <2>3. hasty = 0 => Settled'
    BY <1>1, <1>4, <2>1 DEF Settled, NothingAsked
  <2> QED
    BY <1>1, <2>1, <2>2, <2>3 DEF FilterKept, OneAtATime
<1> QED
  BY <1>5, <1>6

LEMMA ReloadKeeps ==
  ASSUME FilterKept, Reload
  PROVE  FilterKept'
<1>1. /\ reloads > 0 /\ reloads' = reloads - 1 /\ spinning' = FALSE
      /\ UNCHANGED <<barText, searchQuery, isFiltered, entries, searching, dispatched, building,
                     asked, lookups, wanted, past>>
  BY DEF Reload
<1>2. hasty = 0 => Reloading /\ reloads' = 0
  BY <1>1 DEF FilterKept, OneAtATime, Settled, LookingUp, Dispatched, Building, Asking, Reloading
<1>3. ExploreTypeOK'
  <2>1. spinning' \in BOOLEAN
    BY <1>1
  <2>2. reloads' \in Nat
    BY <1>1 DEF FilterKept, ExploreTypeOK
  <2> QED
    BY <1>1, <2>1, <2>2 DEF FilterKept, ExploreTypeOK, past
<1>4. hasty = 0 => Settled'
  BY <1>1, <1>2 DEF Reloading, Settled, NothingAsked
<1> QED
  BY <1>1, <1>3, <1>4 DEF FilterKept, OneAtATime, past

LEMMA FilterStep == FilterKept /\ [ExploreNext]_exploreVars => FilterKept'
<1> SUFFICES ASSUME FilterKept, [ExploreNext]_exploreVars PROVE FilterKept'
  OBVIOUS
<1>1. CASE UNCHANGED exploreVars
  BY <1>1 DEF exploreVars, past, FilterKept, ExploreTypeOK, OneAtATime, Settled, LookingUp,
              Dispatched, Building, Asking, Reloading, NothingAsked
<1>2. CASE ExploreNext
  <2>1. CASE User \/ loadEntryData \/ LoadSignedOut \/ BuildQuery \/ Reload
    BY <2>1, UserKeeps, LoadKeeps, SignedOutKeeps, BuildKeeps, ReloadKeeps
  <2>2. ASSUME NEW p \in Places, PlaceFound(p) \/ PlaceFailed(p) PROVE FilterKept'
    BY <2>2, LookupKeeps
  <2>3. ASSUME NEW q \in Queries, EntriesFetched(q) \/ FetchFailed(q) PROVE FilterKept'
    BY <2>3, AnswerKeeps
  <2> QED
    BY <1>2, <2>1, <2>2, <2>3 DEF ExploreNext, Lookup, ExploreAnswer
<1> QED
  BY <1>1, <1>2

\* For every set of places and any number of touches: the fields keep their types,
\* and the flag that locks the search bar agrees with the entries on the page of a
\* user who waits (ExploreViewController:152-192).
THEOREM FilterAlwaysTruthful == ExploreSpec => []FilterInv
<1>1. FilterKept => FilterInv
  BY DEF FilterKept, FilterInv, FilterFlagTruthful
<1> QED
  BY <1>1, FilterInit, FilterStep, PTL DEF ExploreSpec
=============================================================================

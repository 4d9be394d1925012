------------------------- MODULE FollowGraphProofs -------------------------
EXTENDS FollowRefinement, FiniteSetTheorems, SequenceTheorems, WellFoundedInduction, TLAPS

\* The newest of a non-empty set of queue positions exists, so a read that
\* finds queued writes answers with one of them.
LEMMA LatestExists ==
  ASSUME NEW n \in Nat, NEW hits \in SUBSET (1..n), hits # {}
  PROVE  Latest(hits) \in hits /\ \A j \in hits : j <= Latest(hits)
<1> DEFINE below == {n - i : i \in hits}
           R == OpToRel(<, Nat)
<1>1. \A i \in hits : i \in Int /\ 1 <= i /\ i <= n
  OBVIOUS
<1>2. below \subseteq Nat
  BY <1>1
<1>3. below # {}
  <2>1. PICK i \in hits : TRUE
    OBVIOUS
  <2>2. n - i \in below
    BY <2>1
  <2> QED
    BY <2>2
<1>4. IsWellFoundedOn(R, Nat)
  BY NatLessThanWellFounded
<1>5. \A a, b \in Nat : a < b => <<a, b>> \in R
  BY DEF OpToRel
<1>6. \A i \in hits : n - i \in below
  OBVIOUS
<1>7. \A x \in below : \E i \in hits : x = n - i
  OBVIOUS
<1> HIDE DEF below, R
<1>8. PICK x \in below : \A y \in below : ~(<<y, x>> \in R)
  BY <1>2, <1>3, <1>4, WFMin
<1>9. \A y \in below : x <= y
  <2> TAKE y \in below
  <2>1. x \in Nat /\ y \in Nat
    BY <1>2
  <2>2. ~(y < x)
    BY <1>5, <1>8, <2>1, Zenon
  <2> QED
    BY <2>1, <2>2
<1>10. PICK i \in hits : x = n - i
  BY <1>7
<1>11. \A j \in hits : j <= i
  BY <1>1, <1>6, <1>9, <1>10
<1> QED
  BY <1>11 DEF Latest

ListField == {"followers", "following", "requests"}

\* A queued write of a field holds a value of that field.
LEMMA MutationTypes ==
  ASSUME NEW m \in Mutation
  PROVE  /\ m.op \in ListField => m.uid \in Users /\ m.val \in SUBSET Users
         /\ m.op = "public" => m.uid \in Users /\ m.val \in BOOLEAN
         /\ m.op \in {"feedSet", "feedDel"} => m.uid \in Users /\ m.entry \in Entries
         /\ m.op \in {"entrySet", "entryDel"} => m.entry \in Entries
BY DEF Mutation, ListField

\* A read of a field answers with the stored value or with the value of some
\* queued write of that field to that document.
LEMMA ReadsStoredOrQueued ==
  ASSUME pending \in [Users -> Seq(Mutation)], NEW c \in Users, NEW u \in Users, NEW field, NEW stored
  PROVE  \/ LocalField(c, field, u, stored) = stored
         \/ \E i \in DOMAIN pending[c] :
              /\ pending[c][i] \in Mutation
              /\ pending[c][i].op = field
              /\ pending[c][i].uid = u
              /\ LocalField(c, field, u, stored) = pending[c][i].val
<1> DEFINE q == pending[c]
           hits == {i \in DOMAIN q : q[i].op = field /\ q[i].uid = u}
<1>1. q \in Seq(Mutation)
  OBVIOUS
<1>2. Len(q) \in Nat /\ DOMAIN q = 1..Len(q)
  BY <1>1
<1>3. LocalField(c, field, u, stored) = IF hits = {} THEN stored ELSE q[Latest(hits)].val
  BY DEF LocalField
<1>4. hits \in SUBSET (1..Len(q))
  BY <1>2
<1>5. hits # {} => Latest(hits) \in hits
  <2> HIDE DEF hits
  <2> QED BY <1>2, <1>4, LatestExists
<1>6. ASSUME NEW i \in hits
      PROVE  i \in DOMAIN q /\ q[i] \in Mutation /\ q[i].op = field /\ q[i].uid = u
  BY <1>1
<1> HIDE DEF hits
<1> QED
  BY <1>3, <1>5, <1>6

\* fetchUser answers with a user document, now and after a step.
LEMMA ViewTyped ==
  \A c, u \in Users :
    /\ followers \in [Users -> SUBSET Users]
    /\ following \in [Users -> SUBSET Users]
    /\ requests \in [Users -> SUBSET Users]
    /\ public \in [Users -> BOOLEAN]
    /\ pending \in [Users -> Seq(Mutation)]
    => View(c, u) \in UserDoc
<1> TAKE c, u \in Users
<1> SUFFICES ASSUME followers \in [Users -> SUBSET Users],
                    following \in [Users -> SUBSET Users],
                    requests \in [Users -> SUBSET Users],
                    public \in [Users -> BOOLEAN],
                    pending \in [Users -> Seq(Mutation)]
             PROVE  View(c, u) \in UserDoc
  OBVIOUS
<1>1. ASSUME NEW f \in ListField, NEW s \in SUBSET Users
      PROVE  LocalField(c, f, u, s) \in SUBSET Users
  <2>1. \/ LocalField(c, f, u, s) = s
        \/ \E i \in DOMAIN pending[c] : /\ pending[c][i] \in Mutation
                                        /\ pending[c][i].op = f
                                        /\ LocalField(c, f, u, s) = pending[c][i].val
    BY ReadsStoredOrQueued
  <2> QED
    BY <2>1, MutationTypes
<1>2. LocalField(c, "public", u, public[u]) \in BOOLEAN
  <2>1. \/ LocalField(c, "public", u, public[u]) = public[u]
        \/ \E i \in DOMAIN pending[c] : /\ pending[c][i] \in Mutation
                                        /\ pending[c][i].op = "public"
                                        /\ LocalField(c, "public", u, public[u]) = pending[c][i].val
    BY ReadsStoredOrQueued
  <2> QED
    BY <2>1, MutationTypes
<1> QED
  BY <1>1, <1>2 DEF View, UserDoc, ListField

LEMMA ViewTypedNext ==
  (\A c, u \in Users :
     /\ followers \in [Users -> SUBSET Users]
     /\ following \in [Users -> SUBSET Users]
     /\ requests \in [Users -> SUBSET Users]
     /\ public \in [Users -> BOOLEAN]
     /\ pending \in [Users -> Seq(Mutation)]
     => View(c, u) \in UserDoc)'
BY ViewTyped, PTL

LEMMA ViewType ==
  ASSUME TypeOK, NEW c \in Users, NEW u \in Users
  PROVE  View(c, u) \in UserDoc
BY ViewTyped DEF TypeOK

\* The order a loop visits a set in is a sequence of elements of the set.
LEMMA OrderType ==
  ASSUME NEW S, NEW T \in SUBSET S, IsFiniteSet(S), NEW q \in SetToSeqs(T)
  PROVE  q \in Seq(T)
<1>1. Cardinality(T) \in Nat
  BY FS_Subset, FS_CardinalityType
<1>2. q \in [1..Cardinality(T) -> T]
  BY DEF SetToSeqs
<1> QED
  BY <1>1, <1>2

-----------------------------------------------------------------------------
(* Type correctness.                                                       *)

LEMMA IssueType ==
  ASSUME TypeOK, NEW c \in Users, NEW ws \in Seq(Mutation), Issue(c, ws)
  PROVE  pending' \in [Users -> Seq(Mutation)]
BY DEF TypeOK, Issue

LEMMA AwaitType ==
  ASSUME TypeOK, NEW c \in Users, NEW ks \in SUBSET Call, Await(c, ks)
  PROVE  calls' \in [Users -> SUBSET Call]
BY DEF TypeOK, Await

LEMMA ResumeType ==
  ASSUME TypeOK, NEW c \in Users, NEW k, NEW ks \in SUBSET Call, Resume(c, k, ks)
  PROVE  calls' \in [Users -> SUBSET Call]
BY DEF TypeOK, Resume

LEMMA PressType ==
  ASSUME TypeOK, NEW fresh, Press(fresh)
  PROVE  presses \in 0..MaxPresses /\ presses' \in 0..MaxPresses
BY BoundsAssumption DEF TypeOK, Press

\* Callbacks the actions wait for, and writes they queue, are well formed.
LEMMA Shapes ==
  /\ \A op \in {"page", "refreshMe", "refreshOther", "clear", "accept", "unfollow"} :
       \A u \in Users : \A n \in 0..MaxPresses : [op |-> op, uid |-> u, n |-> n] \in Call
  /\ \A u, v \in Users : \A n \in 0..MaxPresses :
       [op |-> "fill", uid |-> u, from |-> v, n |-> n] \in Call
  /\ \A n \in 0..MaxPresses : [op |-> "self", n |-> n] \in Call
  /\ \A n \in 0..MaxPresses : \A e \in Entries : [op |-> "drop", entry |-> e, n |-> n] \in Call
  /\ \A f \in ListField : \A u \in Users : \A v \in SUBSET Users : Write(f, u, v) \in Mutation
  /\ \A u \in Users : \A b \in BOOLEAN : Write("public", u, b) \in Mutation
  /\ \A op \in {"feedSet", "feedDel"} : \A u \in Users : \A e \in Entries :
       [op |-> op, uid |-> u, entry |-> e] \in Mutation
  /\ \A op \in {"entrySet", "entryDel"} : \A e \in Entries : EntryWrite(op, e) \in Mutation
BY DEF Call, Mutation, Write, EntryWrite, ListField

LEMMA FanOutType ==
  ASSUME NEW op \in {"feedSet", "feedDel"}, NEW c \in Users, NEW us \in Seq(Users),
         NEW e \in Entries
  PROVE  FanOut(op, c, us, e) \in Seq(Mutation)
<1>1. FeedWrites(op, us, e) \in Seq(Mutation)
  BY Shapes DEF FeedWrites
<1>2. FeedWrites(op, <<c>>, e) \in Seq(Mutation)
  BY Shapes DEF FeedWrites
<1> QED
  BY <1>1, <1>2 DEF FanOut

\* What is left of a queue after a relaunch is the front of it.
LEMMA RelaunchQueue ==
  ASSUME TypeOK, NEW c \in Users, Relaunch(c)
  PROVE  /\ pending' \in [Users -> Seq(Mutation)]
         /\ \A d \in Users \ {c} : pending'[d] = pending[d]
         /\ Len(pending'[c]) <= Len(pending[c])
         /\ \A i \in 1..Len(pending'[c]) : pending'[c][i] = pending[c][i]
         /\ torn' \in SUBSET Entries
         /\ torn \subseteq torn'
<1>1. PICK n \in 0..Len(pending[c]) : /\ pending' = [pending EXCEPT ![c] = SubSeq(@, 1, n)]
                                      /\ torn' = torn \cup CutShort(c, n)
  BY DEF Relaunch
<1>2. pending[c] \in Seq(Mutation) /\ Len(pending[c]) \in Nat
  BY DEF TypeOK
<1> DEFINE q == SubSeq(pending[c], 1, n)
<1>3. /\ q \in Seq(Mutation)
      /\ Len(q) = n
      /\ \A i \in 1..n : q[i] = pending[c][i]
  BY <1>2
<1>4. pending'[c] = q
  BY <1>1 DEF TypeOK
<1> HIDE DEF q
<1>5. pending' \in [Users -> Seq(Mutation)]
  BY <1>1, <1>3 DEF TypeOK, q
<1>6. torn' \in SUBSET Entries /\ torn \subseteq torn'
  BY <1>1 DEF TypeOK, CutShort
<1> QED
  BY <1>1, <1>2, <1>3, <1>4, <1>5, <1>6 DEF TypeOK

LEMMA RelaunchTypes ==
  ASSUME TypeOK, NEW c \in Users, Relaunch(c), presses' \in 0..MaxPresses
  PROVE  TypeOK'
<1> USE DEF server, screens
<1>1. pending' \in [Users -> Seq(Mutation)] /\ torn' \in SUBSET Entries
  BY RelaunchQueue
<1>2. /\ followers' \in [Users -> SUBSET Users]
      /\ following' \in [Users -> SUBSET Users]
      /\ requests' \in [Users -> SUBSET Users]
      /\ public' \in [Users -> BOOLEAN]
      /\ feed' \in [Users -> SUBSET Entries]
      /\ entries' \in SUBSET Entries
  BY DEF Relaunch, TypeOK
<1>3. View(c, c)' \in UserDoc
  BY <1>1, <1>2, ViewTypedNext
<1>4. me' \in [Users -> UserDoc]
  BY <1>3 DEF Relaunch, TypeOK
<1>5. fetching' \in [Users -> 0..MaxFetches]
  BY BoundsAssumption DEF Relaunch, TypeOK
<1>6. /\ page' \in [Users -> [Users -> UserDoc \cup {Unopened, Blank}]]
      /\ requestList' \in [Users -> [followers : SUBSET Users, requests : SUBSET Users]]
      /\ followList' \in [Users -> SUBSET Users]
      /\ calls' \in [Users -> SUBSET Call]
  BY DEF Relaunch, TypeOK
<1>7. /\ drawn' \in SUBSET Entries
      /\ asked' \in SUBSET (Users \X Users)
      /\ approved' \in SUBSET (Users \X Users)
      /\ everPublic' \in SUBSET Users
      /\ kept' \in SUBSET (Users \X Users)
      /\ missed' \in SUBSET (Users \X Entries)
  BY DEF Relaunch, TypeOK
<1> QED
  BY <1>1, <1>2, <1>4, <1>5, <1>6, <1>7 DEF TypeOK

LEMMA ProfileTypes ==
  ASSUME TypeOK, NEW c \in Users, ProfileStep(c)
  PROVE  TypeOK'
<1> USE DEF server, screens, history
<1>0. /\ me[c] \in UserDoc
      /\ \A p \in Users : Loaded(c, p) => page[c][p] \in UserDoc
  BY DEF TypeOK, Loaded
<1>1. ASSUME NEW p \in Users, OpenProfile(c, p) PROVE TypeOK'
  <2>1. presses \in 0..MaxPresses /\ presses' \in 0..MaxPresses
    BY <1>1, PressType DEF OpenProfile
  <2>2. calls' \in [Users -> SUBSET Call]
    BY <1>1, <2>1, AwaitType, Shapes DEF OpenProfile, Callback
  <2> QED
    BY <1>1, <2>1, <2>2 DEF OpenProfile, TypeOK
<1>2. ASSUME NEW p \in Users, RequestPressed(c, p) PROVE TypeOK'
  <2>1. presses \in 0..MaxPresses /\ presses' \in 0..MaxPresses
    BY <1>2, PressType DEF RequestPressed
  <2>2. calls' \in [Users -> SUBSET Call]
    BY <1>2, <2>1, AwaitType, Shapes DEF RequestPressed, RequestReads, Callback
  <2>3. <<modifyRequests(page[c][p].requests \cup {c}, p)>> \in Seq(Mutation)
    BY <1>0, <1>2, Shapes DEF RequestPressed, UserDoc, modifyRequests, ListField
  <2>4. pending' \in [Users -> Seq(Mutation)]
    BY <1>2, <2>3, IssueType DEF RequestPressed, TypeOK
  <2>5. asked' \in SUBSET (Users \X Users)
    BY <1>2 DEF RequestPressed, TypeOK
  <2> QED
    BY <1>2, <2>1, <2>2, <2>4, <2>5 DEF RequestPressed, TypeOK
<1>3. ASSUME NEW p \in Users, FollowPressed(c, p) PROVE TypeOK'
  <2>1. presses \in 0..MaxPresses /\ presses' \in 0..MaxPresses
    BY <1>3, PressType DEF FollowPressed
  <2>2. calls' \in [Users -> SUBSET Call]
    BY <1>3, <2>1, AwaitType, Shapes DEF FollowPressed, Callback
  <2>3. <<modifyFollowing(me[c].following \cup {p}, c),
          modifyFollowers(page[c][p].followers \cup {c}, p)>> \in Seq(Mutation)
    BY <1>0, <1>3, Shapes DEF FollowPressed, UserDoc, modifyFollowing, modifyFollowers, ListField
  <2>4. pending' \in [Users -> Seq(Mutation)]
    BY <1>3, <2>3, IssueType DEF FollowPressed
  <2> QED
    BY <1>3, <2>1, <2>2, <2>4 DEF FollowPressed, TypeOK
<1>4. ASSUME NEW p \in Users, UnfollowPressed(c, p) PROVE TypeOK'
  <2>1. presses \in 0..MaxPresses /\ presses' \in 0..MaxPresses
    BY <1>4, PressType DEF UnfollowPressed
  <2>2. calls' \in [Users -> SUBSET Call]
    BY <1>4, <2>1, AwaitType, Shapes DEF UnfollowPressed, Callback
  <2>3. unfollowUser(c, me[c].following, p, page[c][p].followers) \in Seq(Mutation)
    BY <1>0, <1>4, Shapes
    DEF UnfollowPressed, unfollowUser, UserDoc, modifyFollowing, modifyFollowers, ListField
  <2>4. pending' \in [Users -> Seq(Mutation)]
    BY <1>4, <2>3, IssueType DEF UnfollowPressed
  <2> QED
    BY <1>4, <2>1, <2>2, <2>4 DEF UnfollowPressed, TypeOK
<1>5. ASSUME NEW p \in Users, FollowPressedTooEarly(c, p) PROVE TypeOK'
  <2>1. presses' \in 0..MaxPresses
    BY <1>5, PressType DEF FollowPressedTooEarly
  <2> QED
    BY <1>5, <2>1, RelaunchTypes DEF FollowPressedTooEarly
<1> QED
  BY <1>1, <1>2, <1>3, <1>4, <1>5 DEF ProfileStep

LEMMA ListTypes ==
  ASSUME TypeOK, NEW c \in Users, ListStep(c)
  PROVE  TypeOK'
<1> USE DEF server, screens, history
<1>0. /\ me[c] \in UserDoc
      /\ requestList[c] \in [followers : SUBSET Users, requests : SUBSET Users]
  BY DEF TypeOK
<1>1. ASSUME OpenRequests(c) PROVE TypeOK'
  BY <1>0, <1>1 DEF OpenRequests, TypeOK, UserDoc
<1>2. ASSUME OpenFollowing(c) PROVE TypeOK'
  BY <1>0, <1>2 DEF OpenFollowing, TypeOK, UserDoc
<1>3. ASSUME NEW r \in Users, AcceptPressed(c, r) PROVE TypeOK'
  <2>1. presses \in 0..MaxPresses /\ presses' \in 0..MaxPresses
    BY <1>3, PressType DEF AcceptPressed
  <2>2. calls' \in [Users -> SUBSET Call]
    BY <1>3, <2>1, AwaitType, Shapes DEF AcceptPressed, AcceptReads, Callback
  <2>3. AcceptWrites(c, requestList[c], r) \in Seq(Mutation)
    BY <1>0, Shapes DEF AcceptWrites, modifyFollowers, modifyRequests, ListField
  <2>4. pending' \in [Users -> Seq(Mutation)]
    BY <1>3, <2>3, IssueType DEF AcceptPressed
  <2>5. approved' \in SUBSET (Users \X Users)
    BY <1>3 DEF AcceptPressed, TypeOK
  <2> QED
    BY <1>0, <1>3, <2>1, <2>2, <2>4, <2>5, ZenonT(40) DEF AcceptPressed, TypeOK
<1>4. ASSUME NEW r \in Users, DenyPressed(c, r) PROVE TypeOK'
  <2>1. presses \in 0..MaxPresses /\ presses' \in 0..MaxPresses
    BY <1>4, PressType DEF DenyPressed
  <2>2. <<modifyRequests(requestList[c].requests \ {r}, c)>> \in Seq(Mutation)
    BY <1>0, Shapes DEF modifyRequests, ListField
  <2>3. pending' \in [Users -> Seq(Mutation)]
    BY <1>4, <2>2, IssueType DEF DenyPressed
  <2> QED
    BY <1>0, <1>4, <2>1, <2>3 DEF DenyPressed, TypeOK
<1>5. ASSUME NEW p \in Users, ListUnfollowPressed(c, p) PROVE TypeOK'
  <2>1. presses \in 0..MaxPresses /\ presses' \in 0..MaxPresses
    BY <1>5, PressType DEF ListUnfollowPressed
  <2>2. calls' \in [Users -> SUBSET Call]
    BY <1>5, <2>1, AwaitType, Shapes DEF ListUnfollowPressed, Callback
  <2> QED
    BY <1>5, <2>1, <2>2 DEF ListUnfollowPressed, TypeOK
<1> QED
  BY <1>1, <1>2, <1>3, <1>4, <1>5 DEF ListStep

LEMMA OwnTypes ==
  ASSUME TypeOK, NEW c \in Users, OwnStep(c)
  PROVE  TypeOK'
<1> USE DEF server, screens, history
<1>0. me[c] \in UserDoc /\ me[c].followers \in SUBSET Users
  BY DEF TypeOK, UserDoc
<1>1. ASSUME NEW b \in BOOLEAN, TogglePrivacy(c, b) PROVE TypeOK'
  <2>1. presses' \in 0..MaxPresses
    BY <1>1, PressType DEF TogglePrivacy
  <2>2. <<Write("public", c, b)>> \in Seq(Mutation)
    BY Shapes
  <2>3. pending' \in [Users -> Seq(Mutation)]
    BY <1>1, <2>2, IssueType DEF TogglePrivacy
  <2> QED
    BY <1>1, <2>1, <2>3 DEF TogglePrivacy, TypeOK
<1>2. ASSUME NEW us \in SetToSeqs(me[c].followers), NEW e \in Entries,
             NEW op \in {"feedSet", "feedDel"}
      PROVE  FanOut(op, c, us, e) \in Seq(Mutation)
  <2>1. us \in Seq(me[c].followers)
    BY <1>0, FiniteAssumption, OrderType
  <2>2. us \in Seq(Users)
    BY <1>0, <2>1
  <2> QED
    BY <2>2, FanOutType
<1>3. ASSUME NEW e \in Entries, Publish(c, e) PROVE TypeOK'
  <2>1. presses' \in 0..MaxPresses
    BY <1>3, PressType DEF Publish
  <2>2. PICK us \in SetToSeqs(me[c].followers) :
          Issue(c, <<EntryWrite("entrySet", e)>> \o FanOut("feedSet", c, us, e))
    BY <1>3 DEF Publish
  <2>3. <<EntryWrite("entrySet", e)>> \o FanOut("feedSet", c, us, e) \in Seq(Mutation)
    BY <1>2, Shapes
  <2>4. pending' \in [Users -> Seq(Mutation)]
    BY <2>2, <2>3, IssueType
  <2> QED
    BY <1>3, <2>1, <2>4 DEF Publish, TypeOK
<1>4. ASSUME NEW e \in Entries, DeleteEntry(c, e) PROVE TypeOK'
  <2>1. presses' \in 0..MaxPresses
    BY <1>4, PressType DEF DeleteEntry
  <2>2. PICK us \in SetToSeqs(me[c].followers) :
          Issue(c, <<EntryWrite("entryDel", e)>> \o FanOut("feedDel", c, us, e))
    BY <1>4 DEF DeleteEntry
  <2>3. <<EntryWrite("entryDel", e)>> \o FanOut("feedDel", c, us, e) \in Seq(Mutation)
    BY <1>2, Shapes
  <2>4. pending' \in [Users -> Seq(Mutation)]
    BY <2>2, <2>3, IssueType
  <2> QED
    BY <1>4, <2>1, <2>4 DEF DeleteEntry, TypeOK
<1>5. ASSUME Killed(c) PROVE TypeOK'
  <2>1. presses' \in 0..MaxPresses
    BY <1>5, PressType DEF Killed
  <2> QED
    BY <1>5, <2>1, RelaunchTypes DEF Killed
<1>6. ASSUME NEW e \in Entries, DeleteTripEntry(c, e) PROVE TypeOK'
  <2>1. presses \in 0..MaxPresses /\ presses' \in 0..MaxPresses
    BY <1>6, PressType DEF DeleteTripEntry
  <2>2. PICK us \in SetToSeqs(me[c].followers) : Issue(c, FanOut("feedDel", c, us, e))
    BY <1>6 DEF DeleteTripEntry
  <2>3. pending' \in [Users -> Seq(Mutation)]
    BY <1>2, <2>2, IssueType
  <2>4. calls' \in [Users -> SUBSET Call]
    BY <1>6, <2>1, AwaitType, Shapes DEF DeleteTripEntry
  <2> QED
    BY <1>6, <2>1, <2>3, <2>4 DEF DeleteTripEntry, TypeOK
<1> QED
  BY <1>1, <1>3, <1>4, <1>5, <1>6 DEF OwnStep

LEMMA CallbackTypes ==
  ASSUME TypeOK, NEW c \in Users, NEW k \in calls[c],
         \/ OtherFetched(c, k)
         \/ MeFetched(c, k)
         \/ FeedFilled(c, k)
         \/ FillFails(c, k)
         \/ FeedCleared(c, k)
         \/ AcceptFetched(c, k)
         \/ UnfollowFetched(c, k)
         \/ SelfFetched(c, k)
         \/ EntryDropped(c, k)
         \/ DropFails(c, k)
  PROVE  TypeOK'
<1> USE DEF server, screens, history
<1>0. /\ k \in Call
      /\ me[c] \in UserDoc
      /\ View(c, c) \in UserDoc
      /\ \A u \in Users : View(c, u) \in UserDoc
  BY ViewType DEF TypeOK
<1>00. /\ k.op \notin {"self", "drop"} => k.uid \in Users
       /\ k.op = "fill" => k.from \in Users
       /\ k.op = "drop" => k.entry \in Entries
       /\ k.n \in 0..MaxPresses
  BY <1>0 DEF Call
<1>1. ASSUME OtherFetched(c, k) PROVE TypeOK'
  <2>1. calls' \in [Users -> SUBSET Call]
    BY <1>1, ResumeType DEF OtherFetched
  <2>2. k.uid \in Users
    BY <1>1, <1>00 DEF OtherFetched
  <2> QED
    BY <1>0, <1>1, <2>1, <2>2 DEF OtherFetched, TypeOK
<1>2. ASSUME MeFetched(c, k) PROVE TypeOK'
  <2>1. [k EXCEPT !.op = "refreshOther"] \in Call
    BY <1>0, <1>2 DEF MeFetched, Call
  <2>2. calls' \in [Users -> SUBSET Call]
    BY <1>2, <2>1, ResumeType DEF MeFetched
  <2> QED
    BY <1>0, <1>2, <2>2 DEF MeFetched, TypeOK
<1>3. ASSUME FeedFilled(c, k) PROVE TypeOK'
  <2>1. calls' \in [Users -> SUBSET Call]
    BY <1>3, ResumeType DEF FeedFilled
  <2>2. PICK newest \in SUBSET Standing(c, k.from) :
          /\ \E es \in SetToSeqs(newest) :
               Issue(c, [i \in DOMAIN es |-> [op |-> "feedSet", uid |-> k.uid, entry |-> es[i]]])
          /\ missed' = missed \ ({k.uid} \X newest)
    BY <1>3 DEF FeedFilled
  <2>3. PICK es \in SetToSeqs(newest) :
            Issue(c, [i \in DOMAIN es |-> [op |-> "feedSet", uid |-> k.uid, entry |-> es[i]]])
    BY <2>2
  <2>4. newest \in SUBSET Entries
    BY <2>2 DEF LocalEntries, Standing
  <2>5. es \in Seq(newest)
    BY <2>4, FiniteAssumption, OrderType
  <2>6. es \in Seq(Entries)
    BY <2>4, <2>5
  <2>7. k.uid \in Users
    BY <1>3, <1>00 DEF FeedFilled
  <2>8. [i \in DOMAIN es |-> [op |-> "feedSet", uid |-> k.uid, entry |-> es[i]]] \in Seq(Mutation)
    BY <2>6, <2>7, Shapes
  <2>9. pending' \in [Users -> Seq(Mutation)]
    BY <2>3, <2>8, IssueType
  <2>10. missed' \in SUBSET (Users \X Entries)
    BY <2>2 DEF TypeOK
  <2> QED
    BY <1>3, <2>1, <2>9, <2>10 DEF FeedFilled, TypeOK
<1>4. ASSUME FeedCleared(c, k) PROVE TypeOK'
  <2>1. calls' \in [Users -> SUBSET Call]
    BY <1>4, ResumeType DEF FeedCleared
  <2> DEFINE found == {e \in LocalFeed(c) : owner[e] = k.uid}
  <2>2. PICK es \in SetToSeqs(found) :
          Issue(c, [i \in DOMAIN es |-> [op |-> "feedDel", uid |-> c, entry |-> es[i]]])
    BY <1>4 DEF FeedCleared
  <2>3. found \in SUBSET Entries
    BY DEF LocalFeed
  <2> HIDE DEF found
  <2>4. es \in Seq(found)
    BY <2>2, <2>3, FiniteAssumption, OrderType
  <2>5. es \in Seq(Entries)
    BY <2>3, <2>4
  <2>6. [i \in DOMAIN es |-> [op |-> "feedDel", uid |-> c, entry |-> es[i]]] \in Seq(Mutation)
    BY <2>5, Shapes
  <2>7. pending' \in [Users -> Seq(Mutation)]
    BY <2>2, <2>6, IssueType
  <2> QED
    BY <1>4, <2>1, <2>7 DEF FeedCleared, TypeOK
<1>5. ASSUME AcceptFetched(c, k) PROVE TypeOK'
  <2>1. calls' \in [Users -> SUBSET Call]
    BY <1>5, ResumeType DEF AcceptFetched
  <2>2. k.uid \in Users
    BY <1>5, <1>00 DEF AcceptFetched
  <2>3. <<modifyFollowing(View(c, k.uid).following \cup {c}, k.uid)>> \in Seq(Mutation)
    BY <1>0, <2>2, Shapes DEF UserDoc, modifyFollowing, ListField
  <2>4. pending' \in [Users -> Seq(Mutation)]
    BY <1>5, <2>3, IssueType DEF AcceptFetched
  <2> QED
    BY <1>5, <2>1, <2>4 DEF AcceptFetched, TypeOK
<1>6. ASSUME UnfollowFetched(c, k) PROVE TypeOK'
  <2>1. calls' \in [Users -> SUBSET Call]
    BY <1>6, <1>00, Shapes, ResumeType DEF UnfollowFetched
  <2>2. k.uid \in Users
    BY <1>6, <1>00 DEF UnfollowFetched
  <2>3. unfollowUser(c, me[c].following, k.uid, View(c, k.uid).followers) \in Seq(Mutation)
    BY <1>0, <2>2, Shapes
    DEF UserDoc, unfollowUser, modifyFollowing, modifyFollowers, ListField
  <2>4. pending' \in [Users -> Seq(Mutation)]
    BY <1>6, <2>3, IssueType DEF UnfollowFetched
  <2> QED
    BY <1>6, <2>1, <2>4 DEF UnfollowFetched, TypeOK
<1>7. ASSUME SelfFetched(c, k) PROVE TypeOK'
  <2>1. calls' \in [Users -> SUBSET Call]
    BY <1>7, ResumeType DEF SelfFetched
  <2>2. View(c, c).following \in SUBSET Users
    BY <1>0 DEF UserDoc
  <2> QED
    BY <1>0, <1>7, <2>1, <2>2 DEF SelfFetched, TypeOK
<1>8. ASSUME FillFails(c, k) PROVE TypeOK'
  <2>1. calls' \in [Users -> SUBSET Call]
    BY <1>8, ResumeType DEF FillFails
  <2>2. missed' \in SUBSET (Users \X Entries)
    BY <1>00, <1>8 DEF FillFails, Standing, LocalEntries, TypeOK
  <2> QED
    BY <1>8, <2>1, <2>2 DEF FillFails, TypeOK
<1>9. ASSUME EntryDropped(c, k) PROVE TypeOK'
  <2>1. calls' \in [Users -> SUBSET Call]
    BY <1>9, ResumeType DEF EntryDropped
  <2>2. <<EntryWrite("entryDel", k.entry)>> \in Seq(Mutation)
    BY <1>00, <1>9, Shapes DEF EntryDropped
  <2>3. pending' \in [Users -> Seq(Mutation)]
    BY <1>9, <2>2, IssueType DEF EntryDropped
  <2> QED
    BY <1>9, <2>1, <2>3 DEF EntryDropped, TypeOK
<1>10. ASSUME DropFails(c, k) PROVE TypeOK'
  <2>1. calls' \in [Users -> SUBSET Call]
    BY <1>10, ResumeType DEF DropFails
  <2>2. torn' \in SUBSET Entries
    BY <1>00, <1>10 DEF DropFails, TypeOK
  <2> QED
    BY <1>10, <2>1, <2>2 DEF DropFails, TypeOK
<1> QED
  BY <1>1, <1>2, <1>3, <1>4, <1>5, <1>6, <1>7, <1>8, <1>9, <1>10

LEMMA CommitTypes ==
  ASSUME TypeOK, NEW c \in Users, Commit(c)
  PROVE  TypeOK'
<1> USE DEF server, screens, history
<1> DEFINE m == Head(pending[c])
<1>1. pending[c] \in Seq(Mutation) /\ pending[c] # <<>>
  BY DEF TypeOK, Commit
<1>2. m \in Mutation /\ Tail(pending[c]) \in Seq(Mutation)
  BY <1>1
<1>3. pending' \in [Users -> Seq(Mutation)]
  BY <1>2 DEF TypeOK, Commit
<1>4. followers' \in [Users -> SUBSET Users]
  BY <1>2, MutationTypes DEF Commit, TypeOK, ListField
<1>5. following' \in [Users -> SUBSET Users]
  BY <1>2, MutationTypes DEF Commit, TypeOK, ListField
<1>6. requests' \in [Users -> SUBSET Users]
  BY <1>2, MutationTypes DEF Commit, TypeOK, ListField
<1>7. public' \in [Users -> BOOLEAN]
  BY <1>2, MutationTypes DEF Commit, TypeOK, ListField
<1>8. feed' \in [Users -> SUBSET Entries]
  BY <1>2, MutationTypes DEF Commit, TypeOK, ListField
<1>9. entries' \in SUBSET Entries
  BY <1>2, MutationTypes DEF Commit, TypeOK, ListField
<1> QED
  BY <1>3, <1>4, <1>5, <1>6, <1>7, <1>8, <1>9 DEF Commit, TypeOK

LEMMA TypeStep ==
  ASSUME TypeOK, [Next]_vars
  PROVE  TypeOK'
<1>1. CASE UNCHANGED vars
  BY <1>1 DEF TypeOK, vars, server, screens, history
<1>0. MaxFetches \in Nat
  BY BoundsAssumption
<1>2. ASSUME NEW c \in Users, Snapshot(c) PROVE TypeOK'
  <2>1. fetching[c] \in 0..MaxFetches /\ fetching[c] + 1 \in 0..MaxFetches
    BY <1>0, <1>2 DEF Snapshot, TypeOK
  <2>2. fetching' \in [Users -> 0..MaxFetches]
    BY <1>2, <2>1 DEF Snapshot, TypeOK
  <2> QED
    BY <1>2, <2>2 DEF Snapshot, TypeOK, server, screens, history
<1>3. ASSUME NEW c \in Users, ListenerFetched(c) PROVE TypeOK'
  <2>1. fetching[c] \in 0..MaxFetches /\ fetching[c] - 1 \in 0..MaxFetches
    BY <1>0, <1>3 DEF ListenerFetched, TypeOK
  <2>2. fetching' \in [Users -> 0..MaxFetches]
    BY <1>3, <2>1 DEF ListenerFetched, TypeOK
  <2>3. me' \in [Users -> UserDoc]
    BY <1>3, ViewType DEF ListenerFetched, TypeOK
  <2> QED
    BY <1>3, <2>2, <2>3 DEF ListenerFetched, TypeOK, server, screens, history
<1> QED
  BY <1>1, <1>2, <1>3, ProfileTypes, ListTypes, OwnTypes, CallbackTypes, CommitTypes
  DEF Next, NetworkStep, ListenerStep, CallbackStep

LEMMA InitTypes == Init => TypeOK
BY BoundsAssumption DEF Init, TypeOK, UserDoc

\* Every reachable state is well typed: every queued write has the shape
\* Firestore applies, every callback names a user, and a loaded otherUser is a
\* complete user document, for any number of users and entries.
THEOREM TypeCorrect == Spec => []TypeOK
BY InitTypes, TypeStep, PTL DEF Spec

-----------------------------------------------------------------------------
(* Consent.  History only grows, so what was consented stays consented.    *)

Grows == asked \subseteq asked' /\ approved \subseteq approved' /\ everPublic \subseteq everPublic'

LEMMA ConsentGrows ==
  ASSUME Grows
  PROVE  /\ \A u \in everPublic : u \in everPublic'
         /\ \A f, u : Asked(f, u) => Asked(f, u)'
         /\ \A f, u : Consented(f, u) => Consented(f, u)'
<1>1. \A u \in everPublic : u \in everPublic'
  BY DEF Grows
<1>2. \A f, u : Asked(f, u) => Asked(f, u)'
  BY DEF Grows, Asked
<1>3. \A f, u : Consented(f, u) => Consented(f, u)'
  BY <1>2 DEF Grows, Consented
<1> QED
  BY <1>1, <1>2, <1>3

LEMMA WriteGrows ==
  ASSUME Grows, NEW m, WriteConsented(m)
  PROVE  WriteConsented(m)'
BY ConsentGrows DEF WriteConsented

LEMMA DocGrows ==
  ASSUME Grows, NEW u, NEW doc, DocConsented(u, doc)
  PROVE  DocConsented(u, doc)'
BY ConsentGrows DEF DocConsented

LEMMA CallGrows ==
  ASSUME Grows, NEW c, NEW k, CallConsented(c, k)
  PROVE  CallConsented(c, k)'
BY ConsentGrows DEF CallConsented

\* What a step leaves alone keeps its part of the invariant.
LEMMA ServerKept ==
  ASSUME Grows, ServerConsented, UNCHANGED server
  PROVE  ServerConsented'
BY ConsentGrows DEF ServerConsented, FollowersConsented, FeedConsented, server

LEMMA MeKept ==
  ASSUME Grows, MeConsented, UNCHANGED me
  PROVE  MeConsented'
BY ConsentGrows DEF MeConsented, DocConsented

LEMMA PagesKept ==
  ASSUME Grows, PagesConsented, UNCHANGED page
  PROVE  PagesConsented'
BY ConsentGrows DEF PagesConsented, DocConsented, Loaded

LEMMA ListsKept ==
  ASSUME Grows, ListsConsented, UNCHANGED requestList
  PROVE  ListsConsented'
BY ConsentGrows DEF ListsConsented

LEMMA CallsKept ==
  ASSUME Grows, CallsConsented, UNCHANGED calls
  PROVE  CallsConsented'
BY CallGrows DEF CallsConsented

LEMMA PendingKept ==
  ASSUME Grows, PendingConsented, UNCHANGED pending
  PROVE  PendingConsented'
BY WriteGrows DEF PendingConsented

\* New callbacks and new writes have to be consented when the step is done.
LEMMA AwaitConsented ==
  ASSUME Grows, TypeOK, CallsConsented, NEW c \in Users, NEW ks, Await(c, ks),
         \A k \in ks : CallConsented(c, k)'
  PROVE  CallsConsented'
BY CallGrows DEF CallsConsented, Await, TypeOK

LEMMA ResumeConsented ==
  ASSUME Grows, TypeOK, CallsConsented, NEW c \in Users, NEW k, NEW ks, Resume(c, k, ks),
         \A n \in ks : CallConsented(c, n)'
  PROVE  CallsConsented'
BY CallGrows DEF CallsConsented, Resume, TypeOK

LEMMA IssueConsented ==
  ASSUME Grows, TypeOK, PendingConsented, NEW c \in Users, NEW ws \in Seq(Mutation),
         Issue(c, ws), \A i \in DOMAIN ws : WriteConsented(ws[i])'
  PROVE  PendingConsented'
<1> DEFINE Ok == {m \in Mutation : WriteConsented(m)'}
<1>1. ASSUME NEW d \in Users PROVE pending[d] \in Seq(Ok)
  <2>1. pending[d] \in Seq(Mutation)
    BY DEF TypeOK
  <2>2. ASSUME NEW i \in DOMAIN pending[d], NEW m, m = pending[d][i]
        PROVE  m \in Ok
    <3>1. m \in Mutation /\ WriteConsented(m)
      BY <2>1, <2>2 DEF PendingConsented
    <3> QED
      BY <3>1, WriteGrows
  <2> HIDE DEF Ok
  <2>3. \A i \in DOMAIN pending[d] : pending[d][i] \in Ok
    BY <2>2
  <2> QED
    BY <2>1, <2>3
<1>2. ws \in Seq(Ok)
  <2>1. \A i \in DOMAIN ws : ws[i] \in Ok
    OBVIOUS
  <2> HIDE DEF Ok
  <2> QED
    BY <2>1
<1>3. ASSUME NEW d \in Users PROVE pending'[d] \in Seq(Ok)
  <2> HIDE DEF Ok
  <2> QED
    BY <1>1, <1>2 DEF Issue, TypeOK
<1>4. ASSUME NEW d \in Users, NEW i \in DOMAIN pending'[d], NEW m, m = pending'[d][i]
      PROVE  WriteConsented(m)'
  <2>1. m \in Ok
    <3> HIDE DEF Ok
    <3> QED BY <1>3, <1>4
  <2> QED
    BY <2>1
<1> QED
  BY <1>4 DEF PendingConsented

\* A document read through the queue is as consented as the stored one.
LEMMA ViewConsentedAlways ==
  \A c, u \in Users :
    /\ pending \in [Users -> Seq(Mutation)]
    /\ ServerConsented
    /\ PendingConsented
    => DocConsented(u, View(c, u))
<1> TAKE c, u \in Users
<1> SUFFICES ASSUME pending \in [Users -> Seq(Mutation)], ServerConsented, PendingConsented
             PROVE  DocConsented(u, View(c, u))
  OBVIOUS
<1>1. ASSUME NEW v \in Users, v \in View(c, u).followers PROVE Consented(v, u)
  BY <1>1, ReadsStoredOrQueued
  DEF View, ServerConsented, FollowersConsented, PendingConsented, WriteConsented
<1>2. ASSUME NEW v \in Users, v \in View(c, u).following PROVE Consented(u, v)
  BY <1>2, ReadsStoredOrQueued
  DEF View, ServerConsented, FollowersConsented, PendingConsented, WriteConsented
<1>3. ASSUME NEW v \in Users, v \in View(c, u).requests PROVE Asked(v, u)
  BY <1>3, ReadsStoredOrQueued
  DEF View, ServerConsented, FollowersConsented, PendingConsented, WriteConsented
<1>4. ASSUME View(c, u).public PROVE u \in everPublic
  BY <1>4, ReadsStoredOrQueued
  DEF View, ServerConsented, PendingConsented, WriteConsented
<1> QED
  BY <1>1, <1>2, <1>3, <1>4 DEF DocConsented

LEMMA ViewConsentedNext ==
  (\A c, u \in Users :
     /\ pending \in [Users -> Seq(Mutation)]
     /\ ServerConsented
     /\ PendingConsented
     => DocConsented(u, View(c, u)))'
BY ViewConsentedAlways, PTL

LEMMA ViewConsented ==
  ASSUME TypeOK, ServerConsented, PendingConsented, NEW c \in Users, NEW u \in Users
  PROVE  DocConsented(u, View(c, u))
BY ViewConsentedAlways DEF TypeOK

LEMMA MeRefreshed ==
  ASSUME TypeOK, ConsentInv, Grows, NEW c \in Users, me' = [me EXCEPT ![c] = View(c, c)]
  PROVE  MeConsented'
<1>1. DocConsented(c, View(c, c))
  BY ViewConsented DEF ConsentInv
<1>2. PICK doc : doc = View(c, c)
  OBVIOUS
<1>3. DocConsented(c, doc)'
  BY <1>1, <1>2, DocGrows
<1>4. ASSUME NEW d \in Users, NEW old, old = me[d] PROVE DocConsented(d, old)'
  BY <1>4, DocGrows DEF ConsentInv, MeConsented
<1>5. ASSUME NEW d \in Users, NEW new, new = me'[d] PROVE DocConsented(d, new)'
  BY <1>2, <1>3, <1>4, <1>5 DEF TypeOK
<1> QED
  BY <1>5 DEF MeConsented

LEMMA PageRefreshed ==
  ASSUME TypeOK, ConsentInv, Grows, NEW c \in Users, NEW p \in Users,
         page' = [page EXCEPT ![c][p] = View(c, p)]
  PROVE  PagesConsented'
<1>1. PICK doc : doc = View(c, p)
  OBVIOUS
<1>2. DocConsented(p, doc)'
  BY <1>1, ViewConsented, DocGrows DEF ConsentInv
<1>3. ASSUME NEW d \in Users, NEW q \in Users, NEW old, old = page[d][q],
             old \notin {Unopened, Blank}
      PROVE  DocConsented(q, old)'
  BY <1>3, DocGrows DEF ConsentInv, PagesConsented, Loaded
<1>4. ASSUME NEW d \in Users, NEW q \in Users, NEW new, new = page'[d][q],
             new \notin {Unopened, Blank}
      PROVE  DocConsented(q, new)'
  BY <1>1, <1>2, <1>3, <1>4 DEF TypeOK
<1> QED
  BY <1>4 DEF PagesConsented, Loaded

\* Ending the process drops copies and callbacks and rereads one's own document.
LEMMA RelaunchConsented ==
  ASSUME TypeOK, ConsentInv, NEW c \in Users, Relaunch(c)
  PROVE  ConsentInv'
<1> USE DEF server, history
<1>1. Grows
  BY DEF Relaunch, Grows
<1>2. ServerConsented'
  BY <1>1, ServerKept DEF Relaunch, ConsentInv
<1>21. PendingConsented'
  <2>1. ASSUME NEW d \in Users, NEW i \in DOMAIN pending'[d]
        PROVE  i \in DOMAIN pending[d] /\ pending'[d][i] = pending[d][i]
    <3>1. CASE d # c
      BY <2>1, <3>1, RelaunchQueue
    <3>2. CASE d = c
      <4>1. pending'[c] \in Seq(Mutation) /\ pending[c] \in Seq(Mutation)
        BY RelaunchQueue DEF TypeOK
      <4>2. i \in 1..Len(pending'[c]) /\ Len(pending'[c]) <= Len(pending[c])
        BY <2>1, <3>2, <4>1, RelaunchQueue
      <4>3. i \in DOMAIN pending[c]
        BY <4>1, <4>2
      <4> QED
        BY <3>2, <4>2, <4>3, RelaunchQueue
    <3> QED
      BY <3>1, <3>2
  <2>2. ASSUME NEW d \in Users, NEW i \in DOMAIN pending'[d], NEW x, x = pending'[d][i]
        PROVE  WriteConsented(x)'
    BY <1>1, <2>1, <2>2, WriteGrows DEF ConsentInv, PendingConsented
  <2> QED
    BY <2>2 DEF PendingConsented
<1>3. MeConsented'
  <2>1. DocConsented(c, View(c, c))'
    BY <1>2, <1>21, RelaunchQueue, ViewConsentedNext
  <2>2. me'[c] = View(c, c)' /\ \A d \in Users \ {c} : me'[d] = me[d]
    BY DEF Relaunch, TypeOK
  <2>3. ASSUME NEW d \in Users \ {c}, NEW old, old = me[d] PROVE DocConsented(d, old)'
    BY <1>1, <2>3, DocGrows DEF ConsentInv, MeConsented
  <2>4. DocConsented(c, me[c])'
    BY <2>1, <2>2 DEF DocConsented
  <2>5. ASSUME NEW d \in Users \ {c} PROVE DocConsented(d, me[d])'
    BY <2>2, <2>3 DEF DocConsented
  <2> QED
    BY <2>4, <2>5 DEF MeConsented
<1>4. PagesConsented'
  <2>1. ASSUME NEW d \in Users, NEW q \in Users, NEW new, new = page'[d][q],
               new \notin {Unopened, Blank}
        PROVE  DocConsented(q, new)'
    BY <1>1, <2>1, DocGrows DEF Relaunch, TypeOK, ConsentInv, PagesConsented, Loaded
  <2> QED
    BY <2>1 DEF PagesConsented, Loaded
<1>5. ListsConsented'
  BY <1>1, ConsentGrows DEF Relaunch, TypeOK, ConsentInv, ListsConsented
<1>6. CallsConsented'
  <2>1. ASSUME NEW d \in Users, NEW k \in calls'[d] PROVE CallConsented(d, k)'
    BY <1>1, <2>1, CallGrows DEF Relaunch, TypeOK, ConsentInv, CallsConsented
  <2> QED
    BY <2>1 DEF CallsConsented
<1> QED
  BY <1>2, <1>21, <1>3, <1>4, <1>5, <1>6 DEF ConsentInv

LEMMA ProfileConsent ==
  ASSUME TypeOK, ConsentInv, NEW c \in Users, ProfileStep(c)
  PROVE  ConsentInv'
<1> USE DEF server, screens, history
<1>0. /\ me[c] \in UserDoc /\ DocConsented(c, me[c])
      /\ \A p \in Users : Loaded(c, p) => page[c][p] \in UserDoc /\ DocConsented(p, page[c][p])
  BY DEF TypeOK, Loaded, ConsentInv, MeConsented, PagesConsented
<1>1. ASSUME NEW p \in Users, OpenProfile(c, p) PROVE ConsentInv'
  <2>1. Grows
    BY <1>1 DEF OpenProfile, Grows
  <2>2. ServerConsented' /\ MeConsented' /\ ListsConsented' /\ PendingConsented'
    BY <1>1, <2>1, ServerKept, MeKept, ListsKept, PendingKept DEF OpenProfile, ConsentInv
  <2>3. PagesConsented'
    <3>1. ASSUME NEW d \in Users, NEW q \in Users, NEW new, new = page'[d][q],
                 new \notin {Unopened, Blank}
          PROVE  DocConsented(q, new)'
      BY <1>1, <2>1, <3>1, DocGrows
      DEF OpenProfile, TypeOK, ConsentInv, PagesConsented, Loaded
    <3> QED
      BY <3>1 DEF PagesConsented, Loaded
  <2>4. CallsConsented'
    <3>1. PICK ks : ks = {Callback("page", p)}
      OBVIOUS
    <3>2. \A k \in ks : CallConsented(c, k)'
      BY <3>1 DEF Callback, CallConsented
    <3> QED
      BY <1>1, <2>1, <3>1, <3>2, AwaitConsented DEF OpenProfile, ConsentInv
  <2> QED
    BY <2>2, <2>3, <2>4 DEF ConsentInv
<1>2. ASSUME NEW p \in Users, RequestPressed(c, p) PROVE ConsentInv'
  <2>1. Grows
    BY <1>2 DEF RequestPressed, Grows
  <2>2. ServerConsented' /\ MeConsented' /\ PagesConsented' /\ ListsConsented'
    BY <1>2, <2>1, ServerKept, MeKept, PagesKept, ListsKept DEF RequestPressed, ConsentInv
  <2>3. CallsConsented'
    <3>1. PICK ks : ks = RequestReads(c, p)
      OBVIOUS
    <3>2. \A k \in ks : CallConsented(c, k)'
      BY <3>1 DEF RequestReads, Callback, CallConsented
    <3> QED
      BY <1>2, <2>1, <3>1, <3>2, AwaitConsented DEF RequestPressed, ConsentInv
  <2>4. PendingConsented'
    <3>1. CASE c \in page[c][p].requests
      BY <1>2, <2>1, <3>1, PendingKept DEF RequestPressed, ConsentInv
    <3>2. CASE c \notin page[c][p].requests
      <4>1. PICK list : list = page[c][p].requests \cup {c}
        OBVIOUS
      <4>2. Asked(c, p)'
        BY <1>2, <3>2 DEF RequestPressed, Asked
      <4>3. list \in SUBSET Users /\ \A v \in list : Asked(v, p)'
        BY <1>0, <1>2, <2>1, <4>1, <4>2, ConsentGrows DEF RequestPressed, UserDoc, DocConsented
      <4>4. PICK ws : ws = <<modifyRequests(list, p)>>
        OBVIOUS
      <4>5. ws \in Seq(Mutation)
        BY <4>3, <4>4, Shapes DEF modifyRequests, ListField
      <4>6. \A i \in DOMAIN ws : WriteConsented(ws[i])'
        BY <4>3, <4>4 DEF modifyRequests, Write, WriteConsented
      <4>7. Issue(c, ws)
        BY <1>2, <3>2, <4>1, <4>4 DEF RequestPressed
      <4> QED
        BY <2>1, <4>5, <4>6, <4>7, IssueConsented DEF ConsentInv
    <3> QED
      BY <3>1, <3>2
  <2> QED
    BY <2>2, <2>3, <2>4 DEF ConsentInv
<1>3. ASSUME NEW p \in Users, FollowPressed(c, p) PROVE ConsentInv'
  <2>1. Grows
    BY <1>3 DEF FollowPressed, Grows
  <2>2. ServerConsented' /\ MeConsented' /\ PagesConsented' /\ ListsConsented'
    BY <1>3, <2>1, ServerKept, MeKept, PagesKept, ListsKept DEF FollowPressed, ConsentInv
  <2>3. p \in everPublic
    BY <1>0, <1>3 DEF FollowPressed, IsPrivate, DocConsented
  <2>4. Consented(c, p)
    BY <2>3 DEF Consented
  <2>5. CallsConsented'
    <3>1. PICK ks : ks = {[op |-> "fill", uid |-> c, from |-> p, n |-> presses],
                          Callback("refreshMe", p)}
      OBVIOUS
    <3>2. \A k \in ks : CallConsented(c, k)'
      BY <2>1, <2>4, <3>1, ConsentGrows DEF Callback, CallConsented
    <3> QED
      BY <1>3, <2>1, <3>1, <3>2, AwaitConsented DEF FollowPressed, ConsentInv
  <2>6. PendingConsented'
    <3>1. PICK l1 : l1 = me[c].following \cup {p}
      OBVIOUS
    <3>2. PICK l2 : l2 = page[c][p].followers \cup {c}
      OBVIOUS
    <3>3. l1 \in SUBSET Users /\ \A v \in l1 : Consented(c, v)'
      BY <1>0, <2>1, <2>4, <3>1, ConsentGrows DEF UserDoc, DocConsented
    <3>4. l2 \in SUBSET Users /\ \A v \in l2 : Consented(v, p)'
      BY <1>0, <1>3, <2>1, <2>4, <3>2, ConsentGrows DEF FollowPressed, UserDoc, DocConsented
    <3>5. PICK ws : ws = <<modifyFollowing(l1, c), modifyFollowers(l2, p)>>
      OBVIOUS
    <3>6. ws \in Seq(Mutation)
      BY <3>3, <3>4, <3>5, Shapes DEF modifyFollowing, modifyFollowers, ListField
    <3>7. \A i \in DOMAIN ws : WriteConsented(ws[i])'
      BY <3>3, <3>4, <3>5 DEF modifyFollowing, modifyFollowers, Write, WriteConsented
    <3>8. Issue(c, ws)
      BY <1>3, <3>1, <3>2, <3>5 DEF FollowPressed
    <3> QED
      BY <2>1, <3>6, <3>7, <3>8, IssueConsented DEF ConsentInv
  <2> QED
    BY <2>2, <2>5, <2>6 DEF ConsentInv
<1>4. ASSUME NEW p \in Users, UnfollowPressed(c, p) PROVE ConsentInv'
  <2>1. Grows
    BY <1>4 DEF UnfollowPressed, Grows
  <2>2. ServerConsented' /\ MeConsented' /\ PagesConsented' /\ ListsConsented'
    BY <1>4, <2>1, ServerKept, MeKept, PagesKept, ListsKept DEF UnfollowPressed, ConsentInv
  <2>3. CallsConsented'
    <3>1. PICK ks : ks = {Callback("clear", p), Callback("refreshMe", p)}
      OBVIOUS
    <3>2. \A k \in ks : CallConsented(c, k)'
      BY <3>1 DEF Callback, CallConsented
    <3> QED
      BY <1>4, <2>1, <3>1, <3>2, AwaitConsented DEF UnfollowPressed, ConsentInv
  <2>4. PendingConsented'
    <3>1. PICK l1 : l1 = me[c].following
      OBVIOUS
    <3>2. PICK l2 : l2 = page[c][p].followers
      OBVIOUS
    <3>3. l1 \in SUBSET Users /\ \A v \in l1 : Consented(c, v)'
      BY <1>0, <2>1, <3>1, ConsentGrows DEF UserDoc, DocConsented
    <3>4. l2 \in SUBSET Users /\ \A v \in l2 : Consented(v, p)'
      BY <1>0, <1>4, <2>1, <3>2, ConsentGrows DEF UnfollowPressed, UserDoc, DocConsented
    <3>5. PICK ws : ws = unfollowUser(c, l1, p, l2)
      OBVIOUS
    <3>6. ws \in Seq(Mutation)
      BY <3>3, <3>4, <3>5, Shapes DEF unfollowUser, modifyFollowing, modifyFollowers, ListField
    <3>7. \A i \in DOMAIN ws : WriteConsented(ws[i])'
      BY <3>3, <3>4, <3>5 DEF unfollowUser, modifyFollowing, modifyFollowers, Write, WriteConsented
    <3>8. Issue(c, ws)
      BY <1>4, <3>1, <3>2, <3>5 DEF UnfollowPressed
    <3> QED
      BY <2>1, <3>6, <3>7, <3>8, IssueConsented DEF ConsentInv
  <2> QED
    BY <2>2, <2>3, <2>4 DEF ConsentInv
<1>5. ASSUME NEW p \in Users, FollowPressedTooEarly(c, p) PROVE ConsentInv'
  BY <1>5, RelaunchConsented DEF FollowPressedTooEarly
<1> QED
  BY <1>1, <1>2, <1>3, <1>4, <1>5 DEF ProfileStep

LEMMA ListConsent ==
  ASSUME TypeOK, ConsentInv, NEW c \in Users, ListStep(c)
  PROVE  ConsentInv'
<1> USE DEF server, screens, history
<1>0. /\ me[c] \in UserDoc /\ DocConsented(c, me[c])
      /\ requestList[c] \in [followers : SUBSET Users, requests : SUBSET Users]
      /\ \A v \in Users : /\ v \in requestList[c].followers => Consented(v, c)
                          /\ v \in requestList[c].requests => Asked(v, c)
  BY DEF TypeOK, ConsentInv, MeConsented, ListsConsented
<1>1. ASSUME OpenRequests(c) PROVE ConsentInv'
  <2>1. Grows
    BY <1>1 DEF OpenRequests, Grows
  <2>2. ServerConsented' /\ MeConsented' /\ PagesConsented' /\ CallsConsented' /\ PendingConsented'
    BY <1>1, <2>1, ServerKept, MeKept, PagesKept, CallsKept, PendingKept DEF OpenRequests, ConsentInv
  <2>3. ListsConsented'
    BY <1>0, <1>1, <2>1, ConsentGrows
    DEF OpenRequests, TypeOK, ConsentInv, ListsConsented, DocConsented
  <2> QED
    BY <2>2, <2>3 DEF ConsentInv
<1>2. ASSUME OpenFollowing(c) PROVE ConsentInv'
  <2>1. Grows
    BY <1>2 DEF OpenFollowing, Grows
  <2> QED
    BY <1>2, <2>1, ServerKept, MeKept, PagesKept, ListsKept, CallsKept, PendingKept
    DEF OpenFollowing, ConsentInv
<1>3. ASSUME NEW r \in Users, AcceptPressed(c, r) PROVE ConsentInv'
  <2>1. Grows
    BY <1>3 DEF AcceptPressed, Grows
  <2>2. ServerConsented' /\ MeConsented' /\ PagesConsented'
    BY <1>3, <2>1, ServerKept, MeKept, PagesKept DEF AcceptPressed, ConsentInv
  <2>3. Consented(r, c)'
    <3>1. Asked(r, c)'
      BY <1>0, <1>3, <2>1, ConsentGrows DEF AcceptPressed
    <3>2. <<r, c>> \in approved'
      BY <1>3 DEF AcceptPressed
    <3> QED
      BY <3>1, <3>2 DEF Consented
  <2>4. ListsConsented'
    BY <1>0, <1>3, <2>1, <2>3, ConsentGrows
    DEF AcceptPressed, TypeOK, ConsentInv, ListsConsented
  <2>5. CallsConsented'
    <3>1. PICK ks : ks = AcceptReads(c, r)
      OBVIOUS
    <3>2. \A k \in ks : CallConsented(c, k)'
      BY <2>3, <3>1 DEF AcceptReads, Callback, CallConsented
    <3> QED
      BY <1>3, <2>1, <3>1, <3>2, AwaitConsented DEF AcceptPressed, ConsentInv
  <2>6. PendingConsented'
    <3>1. PICK vc : vc = requestList[c]
      OBVIOUS
    <3>2. /\ vc \in [followers : SUBSET Users, requests : SUBSET Users]
          /\ \A v \in vc.followers \cup {r} : Consented(v, c)'
          /\ \A v \in vc.requests : Asked(v, c)'
      BY <1>0, <2>1, <2>3, <3>1, ConsentGrows
    <3>3. PICK ws : ws = AcceptWrites(c, vc, r)
      OBVIOUS
    <3>4. ws \in Seq(Mutation)
      BY <3>2, <3>3, Shapes DEF AcceptWrites, modifyFollowers, modifyRequests, ListField
    <3>5. \A i \in DOMAIN ws : WriteConsented(ws[i])'
      BY <3>2, <3>3 DEF AcceptWrites, modifyFollowers, modifyRequests, Write, WriteConsented
    <3>6. Issue(c, ws)
      BY <1>3, <3>1, <3>3 DEF AcceptPressed
    <3> QED
      BY <2>1, <3>4, <3>5, <3>6, IssueConsented DEF ConsentInv
  <2> QED
    BY <2>2, <2>4, <2>5, <2>6 DEF ConsentInv
<1>4. ASSUME NEW r \in Users, DenyPressed(c, r) PROVE ConsentInv'
  <2>1. Grows
    BY <1>4 DEF DenyPressed, Grows
  <2>2. ServerConsented' /\ MeConsented' /\ PagesConsented' /\ CallsConsented'
    BY <1>4, <2>1, ServerKept, MeKept, PagesKept, CallsKept DEF DenyPressed, ConsentInv
  <2>3. ListsConsented'
    BY <1>0, <1>4, <2>1, ConsentGrows DEF DenyPressed, TypeOK, ConsentInv, ListsConsented
  <2>4. PendingConsented'
    <3>1. PICK list : list = requestList[c].requests \ {r}
      OBVIOUS
    <3>2. list \in SUBSET Users /\ \A v \in list : Asked(v, c)'
      BY <1>0, <2>1, <3>1, ConsentGrows
    <3>3. PICK ws : ws = <<modifyRequests(list, c)>>
      OBVIOUS
    <3>4. ws \in Seq(Mutation)
      BY <3>2, <3>3, Shapes DEF modifyRequests, ListField
    <3>5. \A i \in DOMAIN ws : WriteConsented(ws[i])'
      BY <3>2, <3>3 DEF modifyRequests, Write, WriteConsented
    <3>6. Issue(c, ws)
      BY <1>4, <3>1, <3>3 DEF DenyPressed
    <3> QED
      BY <2>1, <3>4, <3>5, <3>6, IssueConsented DEF ConsentInv
  <2> QED
    BY <2>2, <2>3, <2>4 DEF ConsentInv
<1>5. ASSUME NEW p \in Users, ListUnfollowPressed(c, p) PROVE ConsentInv'
  <2>1. Grows
    BY <1>5 DEF ListUnfollowPressed, Grows
  <2>2. PICK ks : ks = {Callback("unfollow", p)}
    OBVIOUS
  <2>3. \A k \in ks : CallConsented(c, k)'
    BY <2>2 DEF Callback, CallConsented
  <2>4. CallsConsented'
    BY <1>5, <2>1, <2>2, <2>3, AwaitConsented DEF ListUnfollowPressed, ConsentInv
  <2> QED
    BY <1>5, <2>1, <2>4, ServerKept, MeKept, PagesKept, ListsKept, PendingKept
    DEF ListUnfollowPressed, ConsentInv
<1> QED
  BY <1>1, <1>2, <1>3, <1>4, <1>5 DEF ListStep

\* The fan-out goes to followers, who are consented, and to the author.
LEMMA FanOutConsented ==
  ASSUME NEW c \in Users, NEW us \in Seq(Users), NEW e \in Entries, owner[e] = c,
         NEW op \in {"feedSet", "feedDel"}, NEW eop \in {"entrySet", "entryDel"},
         \A i \in DOMAIN us : Consented(us[i], c),
         NEW ws, \/ ws = <<EntryWrite(eop, e)>> \o FanOut(op, c, us, e)
                 \/ ws = FanOut(op, c, us, e)
  PROVE  ws \in Seq(Mutation) /\ \A i \in DOMAIN ws : WriteConsented(ws[i])
<1> DEFINE Ok == {m \in Mutation : WriteConsented(m)}
<1>1. EntryWrite(eop, e) \in Ok
  <2>1. EntryWrite(eop, e) \in Mutation
    BY Shapes
  <2> QED
    BY <2>1 DEF EntryWrite, WriteConsented
<1>2. ASSUME NEW v \in Users, Consented(v, c) \/ v = c
      PROVE  [op |-> op, uid |-> v, entry |-> e] \in Ok
  <2>1. [op |-> op, uid |-> v, entry |-> e] \in Mutation
    BY Shapes
  <2> QED
    BY <1>2, <2>1 DEF WriteConsented
<1> HIDE DEF Ok
<1>3. FeedWrites(op, us, e) \in Seq(Ok)
  BY <1>2 DEF FeedWrites
<1>4. FeedWrites(op, <<c>>, e) \in Seq(Ok)
  BY <1>2 DEF FeedWrites
<1>5. ws \in Seq(Ok)
  <2>1. \A a, b \in Seq(Ok) : a \o b \in Seq(Ok)
    OBVIOUS
  <2>2. FanOut(op, c, us, e) \in Seq(Ok)
    BY <1>3, <1>4, <2>1, Zenon DEF FanOut
  <2>3. <<EntryWrite(eop, e)>> \in Seq(Ok)
    BY <1>1
  <2> QED
    BY <2>1, <2>2, <2>3, Zenon
<1>6. Ok \subseteq Mutation /\ \A m \in Ok : WriteConsented(m)
  BY DEF Ok
<1> QED
  BY <1>5, <1>6

LEMMA OwnConsent ==
  ASSUME TypeOK, ConsentInv, NEW c \in Users, OwnStep(c)
  PROVE  ConsentInv'
<1> USE DEF server, screens, history
<1>0. /\ me[c].followers \in SUBSET Users
      /\ \A v \in me[c].followers : Consented(v, c)
  BY DEF TypeOK, UserDoc, ConsentInv, MeConsented, DocConsented
<1>1. ASSUME NEW b \in BOOLEAN, TogglePrivacy(c, b) PROVE ConsentInv'
  <2>1. Grows
    BY <1>1 DEF TogglePrivacy, Grows
  <2>2. PICK ws : ws = <<Write("public", c, b)>>
    OBVIOUS
  <2>3. ws \in Seq(Mutation)
    BY <2>2, Shapes
  <2>4. b => c \in everPublic'
    BY <1>1 DEF TogglePrivacy
  <2>5. \A i \in DOMAIN ws : WriteConsented(ws[i])'
    BY <2>2, <2>4 DEF Write, WriteConsented
  <2>6. PendingConsented'
    BY <1>1, <2>1, <2>2, <2>3, <2>5, IssueConsented DEF TogglePrivacy, ConsentInv
  <2> QED
    BY <1>1, <2>1, <2>6, ServerKept, MeKept, PagesKept, ListsKept, CallsKept
    DEF TogglePrivacy, ConsentInv
<1>2. ASSUME NEW us \in SetToSeqs(me[c].followers)
      PROVE  us \in Seq(Users) /\ \A i \in DOMAIN us : Consented(us[i], c)
  <2>1. us \in Seq(me[c].followers)
    BY <1>0, FiniteAssumption, OrderType
  <2> QED
    BY <1>0, <2>1
<1>3. ASSUME NEW e \in Entries, Publish(c, e) PROVE ConsentInv'
  <2>1. Grows
    BY <1>3 DEF Publish, Grows
  <2>2. PICK us \in SetToSeqs(me[c].followers) :
          Issue(c, <<EntryWrite("entrySet", e)>> \o FanOut("feedSet", c, us, e))
    BY <1>3 DEF Publish
  <2>3. PICK ws : ws = <<EntryWrite("entrySet", e)>> \o FanOut("feedSet", c, us, e)
    OBVIOUS
  <2>4. ws \in Seq(Mutation) /\ \A i \in DOMAIN ws : WriteConsented(ws[i])
    BY <1>2, <1>3, <2>3, FanOutConsented DEF Publish
  <2>5. PendingConsented'
    BY <2>1, <2>2, <2>3, <2>4, WriteGrows, IssueConsented DEF ConsentInv
  <2> QED
    BY <1>3, <2>1, <2>5, ServerKept, MeKept, PagesKept, ListsKept, CallsKept
    DEF Publish, ConsentInv
<1>4. ASSUME NEW e \in Entries, DeleteEntry(c, e) PROVE ConsentInv'
  <2>1. Grows
    BY <1>4 DEF DeleteEntry, Grows
  <2>2. PICK us \in SetToSeqs(me[c].followers) :
          Issue(c, <<EntryWrite("entryDel", e)>> \o FanOut("feedDel", c, us, e))
    BY <1>4 DEF DeleteEntry
  <2>3. PICK ws : ws = <<EntryWrite("entryDel", e)>> \o FanOut("feedDel", c, us, e)
    OBVIOUS
  <2>4. ws \in Seq(Mutation) /\ \A i \in DOMAIN ws : WriteConsented(ws[i])
    BY <1>2, <1>4, <2>3, FanOutConsented DEF DeleteEntry
  <2>5. PendingConsented'
    BY <2>1, <2>2, <2>3, <2>4, WriteGrows, IssueConsented DEF ConsentInv
  <2> QED
    BY <1>4, <2>1, <2>5, ServerKept, MeKept, PagesKept, ListsKept, CallsKept
    DEF DeleteEntry, ConsentInv
<1>5. ASSUME Killed(c) PROVE ConsentInv'
  BY <1>5, RelaunchConsented DEF Killed
<1>6. ASSUME NEW e \in Entries, DeleteTripEntry(c, e) PROVE ConsentInv'
  <2>1. Grows
    BY <1>6 DEF DeleteTripEntry, Grows
  <2>2. PICK us \in SetToSeqs(me[c].followers) : Issue(c, FanOut("feedDel", c, us, e))
    BY <1>6 DEF DeleteTripEntry
  <2>3. PICK ws : ws = FanOut("feedDel", c, us, e)
    OBVIOUS
  <2>4. ws \in Seq(Mutation) /\ \A i \in DOMAIN ws : WriteConsented(ws[i])
    BY <1>2, <1>6, <2>3, FanOutConsented DEF DeleteTripEntry
  <2>5. PendingConsented'
    BY <2>1, <2>2, <2>3, <2>4, WriteGrows, IssueConsented DEF ConsentInv
  <2>6. PICK ks : ks = {[op |-> "drop", entry |-> e, n |-> presses]}
    OBVIOUS
  <2>7. \A k \in ks : CallConsented(c, k)'
    BY <2>6 DEF CallConsented
  <2>8. CallsConsented'
    BY <1>6, <2>1, <2>6, <2>7, AwaitConsented DEF DeleteTripEntry, ConsentInv
  <2> QED
    BY <1>6, <2>1, <2>5, <2>8, ServerKept, MeKept, PagesKept, ListsKept
    DEF DeleteTripEntry, ConsentInv
<1> QED
  BY <1>1, <1>3, <1>4, <1>5, <1>6 DEF OwnStep

\* A callback that only ends leaves the other callbacks consented.
LEMMA ResumeKept ==
  ASSUME Grows, TypeOK, CallsConsented, NEW c \in Users, NEW k, Resume(c, k, {})
  PROVE  CallsConsented'
<1>1. PICK ks : ks = {}
  OBVIOUS
<1> QED
  BY <1>1, ResumeConsented

LEMMA CallbackConsent ==
  ASSUME TypeOK, ConsentInv, NEW c \in Users, NEW k \in calls[c],
         \/ OtherFetched(c, k)
         \/ MeFetched(c, k)
         \/ FeedFilled(c, k)
         \/ FillFails(c, k)
         \/ FeedCleared(c, k)
         \/ AcceptFetched(c, k)
         \/ UnfollowFetched(c, k)
         \/ SelfFetched(c, k)
         \/ EntryDropped(c, k)
         \/ DropFails(c, k)
  PROVE  ConsentInv'
<1> USE DEF server, screens, history
<1>0. /\ k \in Call /\ CallConsented(c, k)
      /\ k.op \notin {"self", "drop"} => k.uid \in Users
      /\ k.op = "fill" => k.from \in Users
      /\ k.op = "drop" => k.entry \in Entries
  BY DEF TypeOK, Call, ConsentInv, CallsConsented
<1>1. ASSUME OtherFetched(c, k) PROVE ConsentInv'
  <2>1. Grows
    BY <1>1 DEF OtherFetched, Grows
  <2>2. k.uid \in Users
    BY <1>0, <1>1 DEF OtherFetched
  <2>3. PICK p \in Users : p = k.uid
    BY <2>2
  <2>4. page' = [page EXCEPT ![c][p] = View(c, p)]
    BY <1>1, <2>3 DEF OtherFetched
  <2>5. PagesConsented'
    BY <2>1, <2>4, PageRefreshed
  <2> QED
    BY <1>1, <2>1, <2>5, ServerKept, MeKept, ListsKept, ResumeKept, PendingKept
    DEF OtherFetched, ConsentInv
<1>2. ASSUME MeFetched(c, k) PROVE ConsentInv'
  <2>1. Grows
    BY <1>2 DEF MeFetched, Grows
  <2>2. MeConsented'
    BY <1>2, <2>1, MeRefreshed DEF MeFetched
  <2>3. PICK ks : ks = {[k EXCEPT !.op = "refreshOther"]}
    OBVIOUS
  <2>4. \A n \in ks : CallConsented(c, n)'
    <3>1. [k EXCEPT !.op = "refreshOther"].op = "refreshOther"
      BY <1>0, <1>2 DEF MeFetched, Call
    <3> QED
      BY <2>3, <3>1 DEF CallConsented
  <2>5. CallsConsented'
    BY <1>2, <2>1, <2>3, <2>4, ResumeConsented DEF MeFetched, ConsentInv
  <2> QED
    BY <1>2, <2>1, <2>2, <2>5, ServerKept, PagesKept, ListsKept, PendingKept
    DEF MeFetched, ConsentInv
<1>3. ASSUME FeedFilled(c, k) PROVE ConsentInv'
  <2>1. Grows
    BY <1>3 DEF FeedFilled, Grows
  <2>2. PICK newest \in SUBSET Standing(c, k.from) :
          \E es \in SetToSeqs(newest) :
            Issue(c, [i \in DOMAIN es |-> [op |-> "feedSet", uid |-> k.uid, entry |-> es[i]]])
    BY <1>3 DEF FeedFilled
  <2>3. PICK es \in SetToSeqs(newest) :
            Issue(c, [i \in DOMAIN es |-> [op |-> "feedSet", uid |-> k.uid, entry |-> es[i]]])
    BY <2>2
  <2>4. newest \in SUBSET Entries /\ \A e \in newest : owner[e] = k.from
    BY <2>2 DEF LocalEntries, Standing
  <2>5. es \in Seq(newest)
    BY <2>4, FiniteAssumption, OrderType
  <2>6. es \in Seq(Entries) /\ \A i \in DOMAIN es : owner[es[i]] = k.from
    BY <2>4, <2>5
  <2>7. k.uid \in Users /\ Consented(k.uid, k.from)
    BY <1>0, <1>3 DEF FeedFilled, CallConsented
  <2>8. PICK ws : ws = [i \in DOMAIN es |-> [op |-> "feedSet", uid |-> k.uid, entry |-> es[i]]]
    OBVIOUS
  <2>9. ws \in Seq(Mutation)
    BY <2>6, <2>7, <2>8, Shapes
  <2>10. \A i \in DOMAIN ws : WriteConsented(ws[i])
    BY <2>6, <2>7, <2>8 DEF WriteConsented
  <2>11. PendingConsented'
    BY <2>1, <2>3, <2>8, <2>9, <2>10, WriteGrows, IssueConsented DEF ConsentInv
  <2> QED
    BY <1>3, <2>1, <2>11, ServerKept, MeKept, PagesKept, ListsKept, ResumeKept
    DEF FeedFilled, ConsentInv
<1>4. ASSUME FeedCleared(c, k) PROVE ConsentInv'
  <2>1. Grows
    BY <1>4 DEF FeedCleared, Grows
  <2>2. PICK found : found = {e \in LocalFeed(c) : owner[e] = k.uid}
    OBVIOUS
  <2>3. PICK es \in SetToSeqs(found) :
          Issue(c, [i \in DOMAIN es |-> [op |-> "feedDel", uid |-> c, entry |-> es[i]]])
    BY <1>4, <2>2 DEF FeedCleared
  <2>4. found \in SUBSET Entries
    BY <2>2 DEF LocalFeed
  <2>5. es \in Seq(found)
    BY <2>4, FiniteAssumption, OrderType
  <2>6. es \in Seq(Entries)
    BY <2>4, <2>5
  <2>7. PICK ws : ws = [i \in DOMAIN es |-> [op |-> "feedDel", uid |-> c, entry |-> es[i]]]
    OBVIOUS
  <2>8. ws \in Seq(Mutation)
    BY <2>6, <2>7, Shapes
  <2>9. \A i \in DOMAIN ws : WriteConsented(ws[i])'
    BY <2>7 DEF WriteConsented
  <2>10. PendingConsented'
    BY <2>1, <2>3, <2>7, <2>8, <2>9, IssueConsented DEF ConsentInv
  <2> QED
    BY <1>4, <2>1, <2>10, ServerKept, MeKept, PagesKept, ListsKept, ResumeKept
    DEF FeedCleared, ConsentInv
<1>5. ASSUME AcceptFetched(c, k) PROVE ConsentInv'
  <2>1. Grows
    BY <1>5 DEF AcceptFetched, Grows
  <2>2. k.uid \in Users /\ Consented(k.uid, c)
    BY <1>0, <1>5 DEF AcceptFetched, CallConsented
  <2>3. PICK list : list = View(c, k.uid).following \cup {c}
    OBVIOUS
  <2>4. list \in SUBSET Users /\ \A v \in list : Consented(k.uid, v)
    BY <2>2, <2>3, ViewType, ViewConsented DEF UserDoc, DocConsented, ConsentInv
  <2>5. PICK ws : ws = <<modifyFollowing(list, k.uid)>>
    OBVIOUS
  <2>6. ws \in Seq(Mutation)
    BY <2>2, <2>4, <2>5, Shapes DEF modifyFollowing, ListField
  <2>7. \A i \in DOMAIN ws : WriteConsented(ws[i])
    BY <2>4, <2>5 DEF modifyFollowing, Write, WriteConsented
  <2>8. PendingConsented'
    BY <1>5, <2>1, <2>3, <2>5, <2>6, <2>7, WriteGrows, IssueConsented DEF AcceptFetched, ConsentInv
  <2> QED
    BY <1>5, <2>1, <2>8, ServerKept, MeKept, PagesKept, ListsKept, ResumeKept
    DEF AcceptFetched, ConsentInv
<1>6. ASSUME UnfollowFetched(c, k) PROVE ConsentInv'
  <2>1. Grows
    BY <1>6 DEF UnfollowFetched, Grows
  <2>2. k.uid \in Users
    BY <1>0, <1>6 DEF UnfollowFetched
  <2>3. PICK l1 : l1 = me[c].following
    OBVIOUS
  <2>4. PICK l2 : l2 = View(c, k.uid).followers
    OBVIOUS
  <2>5. l1 \in SUBSET Users /\ \A v \in l1 : Consented(c, v)
    BY <2>3 DEF TypeOK, UserDoc, DocConsented, ConsentInv, MeConsented
  <2>6. l2 \in SUBSET Users /\ \A v \in l2 : Consented(v, k.uid)
    BY <2>2, <2>4, ViewType, ViewConsented DEF UserDoc, DocConsented, ConsentInv
  <2>7. PICK ws : ws = unfollowUser(c, l1, k.uid, l2)
    OBVIOUS
  <2>8. ws \in Seq(Mutation)
    BY <2>2, <2>5, <2>6, <2>7, Shapes DEF unfollowUser, modifyFollowing, modifyFollowers, ListField
  <2>9. \A i \in DOMAIN ws : WriteConsented(ws[i])
    BY <2>5, <2>6, <2>7 DEF unfollowUser, modifyFollowing, modifyFollowers, Write, WriteConsented
  <2>10. PendingConsented'
    BY <1>6, <2>1, <2>3, <2>4, <2>7, <2>8, <2>9, WriteGrows, IssueConsented
    DEF UnfollowFetched, ConsentInv
  <2>11. PICK ks : ks = {[op |-> "self", n |-> k.n]}
    OBVIOUS
  <2>12. \A n \in ks : CallConsented(c, n)'
    BY <2>11 DEF CallConsented
  <2>13. CallsConsented'
    BY <1>6, <2>1, <2>11, <2>12, ResumeConsented DEF UnfollowFetched, ConsentInv
  <2> QED
    BY <1>6, <2>1, <2>10, <2>13, ServerKept, MeKept, PagesKept, ListsKept
    DEF UnfollowFetched, ConsentInv
<1>7. ASSUME SelfFetched(c, k) PROVE ConsentInv'
  <2>1. Grows
    BY <1>7 DEF SelfFetched, Grows
  <2>2. MeConsented'
    BY <1>7, <2>1, MeRefreshed DEF SelfFetched
  <2> QED
    BY <1>7, <2>1, <2>2, ServerKept, PagesKept, ListsKept, ResumeKept, PendingKept
    DEF SelfFetched, ConsentInv
<1>8. ASSUME FillFails(c, k) PROVE ConsentInv'
  <2>1. Grows
    BY <1>8 DEF FillFails, Grows
  <2> QED
    BY <1>8, <2>1, ServerKept, MeKept, PagesKept, ListsKept, ResumeKept, PendingKept
    DEF FillFails, ConsentInv
<1>9. ASSUME EntryDropped(c, k) PROVE ConsentInv'
  <2>1. Grows
    BY <1>9 DEF EntryDropped, Grows
  <2>2. PICK ws : ws = <<EntryWrite("entryDel", k.entry)>>
    OBVIOUS
  <2>3. ws \in Seq(Mutation)
    BY <1>0, <1>9, <2>2, Shapes DEF EntryDropped
  <2>4. \A i \in DOMAIN ws : WriteConsented(ws[i])'
    BY <2>2 DEF EntryWrite, WriteConsented
  <2>5. PendingConsented'
    BY <1>9, <2>1, <2>2, <2>3, <2>4, IssueConsented DEF EntryDropped, ConsentInv
  <2> QED
    BY <1>9, <2>1, <2>5, ServerKept, MeKept, PagesKept, ListsKept, ResumeKept
    DEF EntryDropped, ConsentInv
<1>10. ASSUME DropFails(c, k) PROVE ConsentInv'
  <2>1. Grows
    BY <1>10 DEF DropFails, Grows
  <2> QED
    BY <1>10, <2>1, ServerKept, MeKept, PagesKept, ListsKept, ResumeKept, PendingKept
    DEF DropFails, ConsentInv
<1> QED
  BY <1>1, <1>2, <1>3, <1>4, <1>5, <1>6, <1>7, <1>8, <1>9, <1>10

LEMMA CommitConsent ==
  ASSUME TypeOK, ConsentInv, NEW c \in Users, Commit(c)
  PROVE  ConsentInv'
<1> USE DEF server, screens, history
<1>1. Grows
  BY DEF Commit, Grows
<1>2. pending[c] \in Seq(Mutation) /\ pending[c] # <<>>
  BY DEF TypeOK, Commit
<1>3. PICK m : m = Head(pending[c])
  OBVIOUS
<1>4. m \in Mutation /\ WriteConsented(m)
  <2>1. 1 \in DOMAIN pending[c] /\ m = pending[c][1]
    BY <1>2, <1>3
  <2> QED
    BY <1>2, <2>1 DEF ConsentInv, PendingConsented
<1>5. ASSUME NEW u \in Users, NEW v \in Users, v \in followers'[u] PROVE Consented(v, u)'
  BY <1>1, <1>3, <1>4, <1>5, MutationTypes, ConsentGrows
  DEF Commit, TypeOK, ListField, ConsentInv, ServerConsented, FollowersConsented, WriteConsented
<1>6. ASSUME NEW u \in Users, NEW v \in Users, v \in following'[u] PROVE Consented(u, v)'
  BY <1>1, <1>3, <1>4, <1>6, MutationTypes, ConsentGrows
  DEF Commit, TypeOK, ListField, ConsentInv, ServerConsented, FollowersConsented, WriteConsented
<1>7. ASSUME NEW u \in Users, NEW v \in Users, v \in requests'[u] PROVE Asked(v, u)'
  BY <1>1, <1>3, <1>4, <1>7, MutationTypes, ConsentGrows
  DEF Commit, TypeOK, ListField, ConsentInv, ServerConsented, FollowersConsented, WriteConsented
<1>8. ASSUME NEW u \in Users, public'[u] PROVE u \in everPublic'
  BY <1>1, <1>3, <1>4, <1>8, MutationTypes, ConsentGrows
  DEF Commit, TypeOK, ListField, ConsentInv, ServerConsented, WriteConsented
<1>9. ASSUME NEW u \in Users, NEW e \in feed'[u]
      PROVE  owner[e] = u \/ Consented(u, owner[e])'
  <2>1. owner[e] = u \/ Consented(u, owner[e])
    BY <1>3, <1>4, <1>9, MutationTypes
    DEF Commit, TypeOK, ListField, ConsentInv, ServerConsented, FeedConsented, WriteConsented
  <2> QED
    BY <1>1, <2>1, ConsentGrows
<1>10. ServerConsented'
  BY <1>5, <1>6, <1>7, <1>8, <1>9 DEF ServerConsented, FollowersConsented, FeedConsented
<1>11. PendingConsented'
  <2>1. ASSUME NEW d \in Users, NEW i \in DOMAIN pending'[d]
        PROVE  \E j \in DOMAIN pending[d] : pending'[d][i] = pending[d][j]
    <3>1. CASE d # c
      BY <2>1, <3>1 DEF Commit, TypeOK
    <3>2. CASE d = c
      <4>1. pending'[c] = Tail(pending[c])
        BY DEF Commit, TypeOK
      <4>2. i \in 1..(Len(pending[c]) - 1) /\ pending'[c][i] = pending[c][i + 1]
        BY <1>2, <2>1, <3>2, <4>1
      <4>3. i + 1 \in DOMAIN pending[c]
        BY <1>2, <4>2
      <4> QED
        BY <3>2, <4>2, <4>3
    <3> QED
      BY <3>1, <3>2
  <2>2. ASSUME NEW d \in Users, NEW i \in DOMAIN pending'[d], NEW x, x = pending'[d][i]
        PROVE  WriteConsented(x)'
    BY <1>1, <2>1, <2>2, WriteGrows DEF ConsentInv, PendingConsented
  <2> QED
    BY <2>2 DEF PendingConsented
<1> QED
  BY <1>1, <1>10, <1>11, MeKept, PagesKept, ListsKept, CallsKept DEF Commit, ConsentInv

LEMMA ConsentStep ==
  ASSUME TypeOK, ConsentInv, [Next]_vars
  PROVE  ConsentInv'
<1>1. CASE UNCHANGED vars
  <2>1. Grows
    BY <1>1 DEF Grows, vars, history
  <2> QED
    BY <1>1, <2>1, ServerKept, MeKept, PagesKept, ListsKept, CallsKept, PendingKept
    DEF ConsentInv, vars, screens
<1>2. ASSUME NEW c \in Users, Snapshot(c) PROVE ConsentInv'
  <2>1. Grows
    BY <1>2 DEF Snapshot, Grows, history
  <2> QED
    BY <1>2, <2>1, ServerKept, MeKept, PagesKept, ListsKept, CallsKept, PendingKept
    DEF Snapshot, ConsentInv, screens
<1>3. ASSUME NEW c \in Users, ListenerFetched(c) PROVE ConsentInv'
  <2>1. Grows
    BY <1>3 DEF ListenerFetched, Grows, history
  <2>2. MeConsented'
    BY <1>3, <2>1, MeRefreshed DEF ListenerFetched
  <2> QED
    BY <1>3, <2>1, <2>2, ServerKept, PagesKept, ListsKept, CallsKept, PendingKept
    DEF ListenerFetched, ConsentInv, screens
<1> QED
  BY <1>1, <1>2, <1>3, ProfileConsent, ListConsent, OwnConsent, CallbackConsent, CommitConsent
  DEF Next, NetworkStep, ListenerStep, CallbackStep

LEMMA InitConsent == Init => ConsentInv
BY DEF Init, ConsentInv, ServerConsented, FollowersConsented, FeedConsented, MeConsented,
       DocConsented, PagesConsented, Loaded, ListsConsented, CallsConsented, PendingConsented

\* The strengthened invariant holds in every reachable state: documents, cached
\* copies, outstanding callbacks and queued writes are all consented.
THEOREM ConsentInvariant == Spec => []ConsentInv
BY InitConsent, TypeCorrect, ConsentStep, PTL DEF Spec

\* Types and consent together, the property that the small instance checks.
THEOREM GraphCorrect == Spec => []GraphInv
BY TypeCorrect, ConsentInvariant, PTL DEF GraphInv

\* An account that has always been private has no follower, and no entry of it is
\* in anybody else's feed, unless that user asked and was accepted: for any number
\* of users, any order of presses, callbacks, commits and relaunches.
THEOREM PrivateAccountsStayPrivate == Spec => [](FollowersConsented /\ FeedConsented)
<1>1. ConsentInv => FollowersConsented /\ FeedConsented
  BY DEF ConsentInv, ServerConsented
<1> QED
  BY <1>1, ConsentInvariant, PTL

-----------------------------------------------------------------------------
(* An author's feed and the entries collection, as the author's device will *)
(* have left them.                                                          *)

EntryOf(e) == {m \in Mutation : m.op \in {"entrySet", "entryDel"} /\ m.entry = e}
FeedOf(c, e) == {m \in Mutation : m.op \in {"feedSet", "feedDel"} /\ m.uid = c /\ m.entry = e}

\* What queue q makes of a stored fact that the writes of W set or delete.
Says(q, W, on, stored) ==
  LET hits == {i \in DOMAIN q : q[i] \in W}
  IN  IF hits = {} THEN stored ELSE q[Latest(hits)].op = on

EntryStands(c, e) == Says(pending[c], EntryOf(e), "entrySet", e \in entries)
FeedStands(c, e) == Says(pending[c], FeedOf(c, e), "feedSet", e \in feed[c])

LEMMA StandsIsLocal ==
  ASSUME TypeOK, NEW c \in Users, NEW e \in Entries
  PROVE  e \in LocalEntries(c) <=> EntryStands(c, e)
<1> DEFINE q == pending[c]
<1>1. \A i \in DOMAIN q : q[i] \in Mutation
  BY DEF TypeOK
<1>2. {i \in DOMAIN q : q[i] \in EntryOf(e)}
        = {i \in DOMAIN q : q[i].op \in {"entrySet", "entryDel"} /\ q[i].entry = e}
  BY <1>1 DEF EntryOf
<1> QED
  BY <1>2 DEF LocalEntries, EntryStands, Says

\* The newest of a set of positions is its maximum.
LEMMA LatestIs ==
  ASSUME NEW hits \in SUBSET Nat, NEW i \in hits, \A j \in hits : j <= i
  PROVE  Latest(hits) = i
<1>1. /\ Latest(hits) \in hits
      /\ \A j \in hits : j <= Latest(hits)
  BY DEF Latest
<1>2. i \in Nat /\ Latest(hits) \in Nat /\ i <= Latest(hits) /\ Latest(hits) <= i
  BY <1>1
<1> QED
  BY <1>2

LEMMA Joined ==
  ASSUME NEW S, NEW a \in Seq(S), NEW b \in Seq(S)
  PROVE  /\ a \o b \in Seq(S) /\ Len(a) \in Nat /\ DOMAIN a = 1..Len(a)
         /\ Len(a \o b) \in Nat /\ DOMAIN (a \o b) = 1..Len(a \o b)
         /\ \A i \in DOMAIN a : i \in DOMAIN (a \o b) /\ (a \o b)[i] = a[i]
         /\ \A i \in DOMAIN b : Len(a) + i \in DOMAIN (a \o b) /\ (a \o b)[Len(a) + i] = b[i]
         /\ \A i \in DOMAIN (a \o b) : \/ i \in DOMAIN a /\ (a \o b)[i] = a[i]
                                       \/ /\ i > Len(a) /\ i - Len(a) \in DOMAIN b
                                          /\ (a \o b)[i] = b[i - Len(a)]
OBVIOUS

LEMMA JoinedSet ==
  ASSUME NEW S, NEW a \in Seq(S), NEW b \in Seq(S)
  PROVE  a \o b \in Seq(S) /\ ToSet(a \o b) = ToSet(a) \cup ToSet(b)
<1>1. PICK r : r = a \o b
  OBVIOUS
<1>2. /\ \A i \in DOMAIN a : i \in DOMAIN r /\ r[i] = a[i]
      /\ \A i \in DOMAIN b : Len(a) + i \in DOMAIN r /\ r[Len(a) + i] = b[i]
      /\ \A i \in DOMAIN r : \/ i \in DOMAIN a /\ r[i] = a[i]
                             \/ i - Len(a) \in DOMAIN b /\ r[i] = b[i - Len(a)]
      /\ r \in Seq(S)
  BY <1>1, Joined
<1>3. ToSet(r) \subseteq ToSet(a) \cup ToSet(b)
  BY <1>2 DEF ToSet
<1>4. ToSet(a) \subseteq ToSet(r)
  BY <1>2 DEF ToSet
<1>5. ToSet(b) \subseteq ToSet(r)
  BY <1>2 DEF ToSet
<1> QED
  BY <1>1, <1>2, <1>3, <1>4, <1>5

\* A queue cut after its first n writes.
LEMMA Parted ==
  ASSUME NEW S, NEW s \in Seq(S), NEW n \in 0..Len(s)
  PROVE  /\ SubSeq(s, 1, n) \in Seq(S) /\ SubSeq(s, n + 1, Len(s)) \in Seq(S)
         /\ s = SubSeq(s, 1, n) \o SubSeq(s, n + 1, Len(s))
         /\ \A i \in DOMAIN SubSeq(s, n + 1, Len(s)) :
              /\ n + i \in (n + 1)..Len(s)
              /\ SubSeq(s, n + 1, Len(s))[i] = s[n + i]
<1> DEFINE a == SubSeq(s, 1, n)
           b == SubSeq(s, n + 1, Len(s))
<1>1. Len(s) \in Nat /\ n \in Nat /\ n <= Len(s)
  OBVIOUS
<1>2. a \in Seq(S) /\ Len(a) = n /\ \A i \in 1..n : a[i] = s[i]
  BY <1>1
<1>3. /\ b \in Seq(S) /\ Len(b) = Len(s) - n
      /\ \A i \in 1..(Len(s) - n) : b[i] = s[n + i]
  BY <1>1
<1> HIDE DEF a, b
<1>4. s = SubSeq(s, 1, n) \o SubSeq(s, n + 1, Len(s))
  <2>1. 1 \in 1..(Len(s) + 1) /\ n \in (1 - 1)..Len(s) /\ Len(s) \in n..Len(s)
    BY <1>1
  <2>2. SubSeq(s, 1, n) \o SubSeq(s, n + 1, Len(s)) = SubSeq(s, 1, Len(s))
    BY <2>1, ConcatAdjacentSubSeq, Zenon
  <2> QED
    BY <2>2, SubSeqFull, Zenon
<1>6. \A i \in DOMAIN b : n + i \in (n + 1)..Len(s) /\ b[i] = s[n + i]
  BY <1>1, <1>3
<1> QED
  BY <1>2, <1>3, <1>4, <1>6, Zenon DEF a, b

\* Writes queued behind the others that are of another kind change nothing.
LEMMA SaysAppended ==
  ASSUME NEW q \in Seq(Mutation), NEW ws \in Seq(Mutation), NEW W, NEW on, NEW stored,
         \A m \in ToSet(ws) : m \notin W
  PROVE  Says(q \o ws, W, on, stored) = Says(q, W, on, stored)
<1> DEFINE n == Len(q)
<1> DEFINE old == {i \in DOMAIN q : q[i] \in W}
<1>1. \A i \in DOMAIN ws : ws[i] \notin W
  BY DEF ToSet
<1>2. PICK r : r = q \o ws
  OBVIOUS
<1>3. {i \in DOMAIN r : r[i] \in W} = old
  BY <1>1, <1>2, Joined
<1>4. old # {} => Latest(old) \in old
  <2>1. n \in Nat /\ old \in SUBSET (1..n)
    BY Joined
  <2> HIDE DEF old, n
  <2> QED
    BY <2>1, LatestExists
<1>5. old # {} => r[Latest(old)] = q[Latest(old)]
  BY <1>2, <1>4, Joined
<1> QED
  BY <1>2, <1>3, <1>5 DEF Says

\* If some are of the kind asked for, the last of them counts.
LEMMA SaysReplaced ==
  ASSUME NEW q \in Seq(Mutation), NEW ws \in Seq(Mutation), NEW W, NEW on, NEW stored,
         \E m \in ToSet(ws) : m \in W
  PROVE  /\ (\A m \in ToSet(ws) : m.op = on \/ m \notin W) => Says(q \o ws, W, on, stored)
         /\ (\A m \in ToSet(ws) : m.op # on \/ m \notin W) => ~Says(q \o ws, W, on, stored)
<1>1. PICK r : r = q \o ws
  OBVIOUS
<1> DEFINE n == Len(q)
<1> DEFINE all == {i \in DOMAIN r : r[i] \in W}
<1>2. /\ n \in Nat /\ Len(r) \in Nat /\ DOMAIN r = 1..Len(r)
      /\ \A i \in DOMAIN ws : n + i \in DOMAIN r /\ r[n + i] = ws[i]
      /\ \A i \in DOMAIN r : i \in 1..n \/ (i - n \in DOMAIN ws /\ r[i] = ws[i - n])
  BY <1>1, Joined
<1>3. PICK i \in DOMAIN ws : ws[i] \in W
  BY DEF ToSet
<1>4. \A j \in DOMAIN ws : ws[j] \in ToSet(ws)
  BY DEF ToSet
<1>5. i \in Nat /\ i >= 1
  OBVIOUS
<1>6. n + i \in all /\ all \in SUBSET (1..Len(r))
  BY <1>2, <1>3
<1>7. Latest(all) \in all /\ \A j \in all : j <= Latest(all)
  <2> HIDE DEF all
  <2> QED
    BY <1>2, <1>6, LatestExists
<1>8. r[Latest(all)] \in W /\ r[Latest(all)] \in ToSet(ws)
  <2>1. PICK l \in DOMAIN r : l = Latest(all) /\ r[l] \in W /\ n + i <= l
    BY <1>6, <1>7
  <2>2. l - n \in DOMAIN ws /\ r[l] = ws[l - n]
    BY <1>2, <1>5, <2>1
  <2> QED
    BY <1>4, <2>1, <2>2
<1>9. Says(r, W, on, stored) <=> r[Latest(all)].op = on
  <2>1. Says(r, W, on, stored) = IF all = {} THEN stored ELSE r[Latest(all)].op = on
    BY DEF Says
  <2> QED
    BY <1>6, <2>1
<1> HIDE DEF all
<1> QED
  BY <1>1, <1>8, <1>9

\* The write the server applies is the one the rest of the queue is laid over.
LEMMA SaysSent ==
  ASSUME NEW q \in Seq(Mutation), q # <<>>, NEW W, NEW on, NEW stored, NEW now,
         now = IF Head(q) \in W THEN Head(q).op = on ELSE stored
  PROVE  Says(Tail(q), W, on, now) = Says(q, W, on, stored)
<1> DEFINE t == Tail(q)
<1> DEFINE n == Len(t)
<1> DEFINE left == {i \in DOMAIN t : t[i] \in W}
<1> DEFINE all == {i \in DOMAIN q : q[i] \in W}
<1>1. /\ t \in Seq(Mutation) /\ n \in Nat /\ DOMAIN t = 1..n /\ DOMAIN q = 1..(n + 1)
      /\ Head(q) = q[1] /\ \A i \in 1..n : t[i] = q[i + 1]
  OBVIOUS
<1>2. /\ Says(t, W, on, now) = IF left = {} THEN now ELSE t[Latest(left)].op = on
      /\ Says(q, W, on, stored) = IF all = {} THEN stored ELSE q[Latest(all)].op = on
  BY DEF Says
<1>3. /\ left \in SUBSET (1..n) /\ all \in SUBSET (1..(n + 1))
      /\ \A i \in 1..n : i \in left <=> q[i + 1] \in W
      /\ \A i \in 1..(n + 1) : i \in all <=> q[i] \in W
  BY <1>1
<1> HIDE DEF t, n, left, all
<1>4. CASE left = {}
  <2>1. \A i \in all : i = 1
    <3> SUFFICES ASSUME NEW i \in all, i # 1 PROVE FALSE
      OBVIOUS
    <3>1. i - 1 \in 1..n /\ (i - 1) + 1 = i
      BY <1>1, <1>3
    <3>2. q[(i - 1) + 1] \in W
      BY <1>3, <3>1
    <3> QED
      BY <1>3, <1>4, <3>1, <3>2
  <2>2. CASE Head(q) \in W
    <3>1. 1 \in all
      BY <1>1, <1>3, <2>2
    <3>2. all \in SUBSET Nat /\ \A i \in all : i <= 1
      BY <1>3, <2>1
    <3>3. Latest(all) = 1
      BY <3>1, <3>2, LatestIs
    <3> QED
      BY <1>1, <1>2, <1>4, <2>2, <3>1, <3>3 DEF t
  <2>3. CASE Head(q) \notin W
    <3>1. all = {}
      BY <1>1, <1>3, <2>1, <2>3
    <3> QED
      BY <1>2, <1>4, <2>3, <3>1 DEF t
  <2> QED
    BY <2>2, <2>3
<1>5. CASE left # {}
  <2> PICK l \in left : l = Latest(left)
    BY <1>1, <1>3, <1>5, LatestExists
  <2>1. \A j \in left : j <= l
    BY <1>1, <1>3, <1>5, LatestExists
  <2>2. l \in 1..n /\ l + 1 \in 1..(n + 1) /\ q[l + 1] \in W
    BY <1>1, <1>3
  <2>3. l + 1 \in all /\ all \in SUBSET Nat
    BY <1>3, <2>2
  <2>4. ASSUME NEW j \in all PROVE j <= l + 1
    <3>1. CASE j = 1
      BY <1>1, <2>2, <3>1
    <3>2. CASE j # 1
      <4>1. j - 1 \in 1..n /\ (j - 1) + 1 = j
        BY <1>1, <1>3, <3>2
      <4>2. q[(j - 1) + 1] \in W
        BY <1>3, <4>1
      <4>3. j - 1 <= l
        BY <1>3, <2>1, <4>1, <4>2
      <4> QED
        BY <2>2, <4>1, <4>3
    <3> QED
      BY <3>1, <3>2
  <2>5. Latest(all) = l + 1
    BY <2>3, <2>4, LatestIs
  <2> QED
    BY <1>1, <1>2, <1>5, <2>2, <2>3, <2>5 DEF t
<1> QED
  BY <1>4, <1>5 DEF t

\* Only the author's device writes the author's entries and the author's own feed
\* documents of them: a page of oneself is never open, and nobody asks oneself.
OwnPages == \A c \in Users : ~Loaded(c, c)

NobodyAsksOneself == \A u \in Users : <<u, u>> \notin asked

CallOwned(c, k) == /\ k.op = "fill" => (k.uid = c \/ k.from = c) /\ k.uid # k.from
                   /\ k.op \in {"page", "refreshMe", "refreshOther", "clear"} => k.uid # c
                   /\ k.op = "drop" => k.entry \in drawn /\ owner[k.entry] = c

WriteOwned(c, m) ==
  /\ m.op \in {"entrySet", "entryDel"} => owner[m.entry] = c
  /\ m.op = "entrySet" => m.entry \in drawn
  /\ m.op \in {"feedSet", "feedDel"} /\ owner[m.entry] = m.uid => m.uid = c

CallsOwned == \A c \in Users : \A k \in calls[c] : CallOwned(c, k)
WritesOwned == \A c \in Users : \A i \in DOMAIN pending[c] : WriteOwned(c, pending[c][i])

\* The deletion of e waits for a read, its feed documents are deleted already.
DropDue(c, e) == \E k \in calls[c] : k.op = "drop" /\ k.entry = e

Agrees(c, e) == e \in torn \/ (FeedStands(c, e) <=> (EntryStands(c, e) /\ ~DropDue(c, e)))

FeedsAgree == /\ entries \subseteq drawn
              /\ \A c \in Users : \A e \in Entries : owner[e] = c => Agrees(c, e)

OwnFeedInv == /\ TypeOK
              /\ ConsentInv
              /\ NobodyAsksOneself
              /\ OwnPages
              /\ CallsOwned
              /\ WritesOwned
              /\ FeedsAgree

\* What most steps leave alone: the entries drawn and torn only grow in number, and
\* the same deletions are due as before, of torn entries apart.
Ages == torn \subseteq torn' /\ drawn \subseteq drawn'
DropsStay(c) == \A e \in Entries \ torn' : DropDue(c, e)' <=> DropDue(c, e)

LEMMA AwaitOwned ==
  ASSUME TypeOK, CallsOwned, Ages, NEW c \in Users, NEW ks, Await(c, ks),
         \A k \in ks : CallOwned(c, k)'
  PROVE  /\ CallsOwned'
         /\ \A d \in Users \ {c} : DropsStay(d)
         /\ (\A k \in ks : k.op # "drop") => DropsStay(c)
<1>1. calls'[c] = calls[c] \cup ks /\ \A d \in Users \ {c} : calls'[d] = calls[d]
  BY DEF Await, TypeOK
<1>2. CallsOwned'
  BY <1>1 DEF CallsOwned, CallOwned, Ages
<1>3. \A d \in Users \ {c} : DropsStay(d)
  BY <1>1 DEF DropsStay, DropDue
<1>4. (\A k \in ks : k.op # "drop") => DropsStay(c)
  BY <1>1 DEF DropsStay, DropDue
<1> QED
  BY <1>2, <1>3, <1>4

LEMMA ResumeOwned ==
  ASSUME TypeOK, CallsOwned, Ages, NEW c \in Users, NEW k, NEW ks, Resume(c, k, ks),
         \A j \in ks : CallOwned(c, j)'
  PROVE  /\ CallsOwned'
         /\ \A d \in Users \ {c} : DropsStay(d)
         /\ k.op # "drop" /\ (\A j \in ks : j.op # "drop") => DropsStay(c)
<1>1. calls'[c] = (calls[c] \ {k}) \cup ks /\ \A d \in Users \ {c} : calls'[d] = calls[d]
  BY DEF Resume, TypeOK
<1>2. CallsOwned'
  BY <1>1 DEF CallsOwned, CallOwned, Ages
<1>3. \A d \in Users \ {c} : DropsStay(d)
  BY <1>1 DEF DropsStay, DropDue
<1>4. k.op # "drop" /\ (\A j \in ks : j.op # "drop") => DropsStay(c)
  BY <1>1 DEF DropsStay, DropDue
<1> QED
  BY <1>2, <1>3, <1>4

LEMMA ResumedOwned ==
  ASSUME TypeOK, CallsOwned, Ages, NEW c \in Users, NEW k, Resume(c, k, {})
  PROVE  /\ CallsOwned'
         /\ \A d \in Users \ {c} : DropsStay(d)
         /\ k.op # "drop" => DropsStay(c)
<1>1. PICK ks : ks = {}
  OBVIOUS
<1> QED
  BY <1>1, ResumeOwned

LEMMA CallsStay ==
  ASSUME CallsOwned, Ages, UNCHANGED calls
  PROVE  CallsOwned' /\ \A d \in Users : DropsStay(d)
BY DEF CallsOwned, CallOwned, DropsStay, DropDue, Ages

LEMMA WritesKept ==
  ASSUME WritesOwned, FeedsAgree, Ages, \A d \in Users : DropsStay(d),
         UNCHANGED <<pending, feed, entries>>
  PROVE  WritesOwned' /\ FeedsAgree'
<1>1. WritesOwned'
  BY DEF WritesOwned, WriteOwned, Ages
<1>2. entries' \subseteq drawn'
  BY DEF FeedsAgree, Ages
<1>3. ASSUME NEW d \in Users, NEW e \in Entries, owner[e] = d
      PROVE  Agrees(d, e)'
  BY <1>3 DEF FeedsAgree, Agrees, FeedStands, EntryStands, DropsStay, Ages
<1> QED
  BY <1>1, <1>2, <1>3 DEF FeedsAgree

\* An entry a device can read was drawn.
LEMMA StandsDrawn ==
  ASSUME TypeOK, WritesOwned, FeedsAgree, NEW c \in Users, NEW e \in LocalEntries(c)
  PROVE  e \in Entries /\ e \in drawn
<1> DEFINE hits == {i \in DOMAIN pending[c] : /\ pending[c][i].op \in {"entrySet", "entryDel"}
                                              /\ pending[c][i].entry = e}
<1>1. e \in Entries /\ IF hits = {} THEN e \in entries ELSE pending[c][Latest(hits)].op = "entrySet"
  BY DEF LocalEntries
<1>2. CASE hits = {}
  BY <1>1, <1>2 DEF FeedsAgree
<1>3. CASE hits # {}
  <2>1. Len(pending[c]) \in Nat /\ hits \in SUBSET (1..Len(pending[c]))
    BY DEF TypeOK
  <2>2. Latest(hits) \in hits
    <3> HIDE DEF hits
    <3> QED
      BY <1>3, <2>1, LatestExists
  <2> QED
    BY <1>1, <1>3, <2>2 DEF WritesOwned, WriteOwned
<1> QED
  BY <1>2, <1>3

\* A device queues writes of its own that keep feed and entries in step.
LEMMA IssueOwned ==
  ASSUME TypeOK, WritesOwned, FeedsAgree, NEW c \in Users, NEW ws \in Seq(Mutation),
         Issue(c, ws), UNCHANGED <<feed, entries>>, Ages,
         \A d \in Users \ {c} : DropsStay(d),
         \A i \in DOMAIN ws : WriteOwned(c, ws[i])',
         \A e \in Entries : owner[e] = c => Agrees(c, e)'
  PROVE  WritesOwned' /\ FeedsAgree'
<1>1. /\ pending'[c] = pending[c] \o ws /\ pending[c] \in Seq(Mutation)
      /\ \A d \in Users \ {c} : pending'[d] = pending[d]
  BY DEF Issue, TypeOK
<1>2. ASSUME NEW d \in Users, NEW i \in DOMAIN pending'[d], NEW m, m = pending'[d][i]
      PROVE  WriteOwned(d, m)'
  <2>0. \A x : WriteOwned(d, x) => WriteOwned(d, x)'
    BY DEF WriteOwned, Ages
  <2>1. CASE d # c
    BY <1>1, <1>2, <2>0, <2>1 DEF WritesOwned
  <2>2. CASE d = c
    <3>1. \/ i \in DOMAIN pending[c] /\ pending'[c][i] = pending[c][i]
          \/ i - Len(pending[c]) \in DOMAIN ws /\ pending'[c][i] = ws[i - Len(pending[c])]
      BY <1>1, <1>2, <2>2
    <3>2. CASE i \in DOMAIN pending[c] /\ pending'[c][i] = pending[c][i]
      BY <1>2, <2>0, <2>2, <3>2 DEF WritesOwned
    <3>3. CASE i - Len(pending[c]) \in DOMAIN ws /\ pending'[c][i] = ws[i - Len(pending[c])]
      BY <1>2, <2>2, <3>3
    <3> QED
      BY <3>1, <3>2, <3>3
  <2> QED
    BY <2>1, <2>2
<1>3. WritesOwned'
  BY <1>2 DEF WritesOwned
<1>5. entries' \subseteq drawn'
  BY DEF FeedsAgree, Ages
<1>4. ASSUME NEW d \in Users, NEW e \in Entries, owner[e] = d
      PROVE  Agrees(d, e)'
  <2>1. CASE d = c
    BY <1>4, <2>1
  <2>2. CASE d # c
    <3>1. Agrees(d, e)
      BY <1>4 DEF FeedsAgree
    <3> QED
      BY <1>1, <2>2, <3>1 DEF Agrees, FeedStands, EntryStands, DropsStay, Ages
  <2> QED
    BY <2>1, <2>2
<1> QED
  BY <1>3, <1>4, <1>5 DEF FeedsAgree

\* Writes that concern neither an entry nor an own feed document of it.
LEMMA IssueOther ==
  ASSUME TypeOK, WritesOwned, FeedsAgree, NEW c \in Users, NEW ws \in Seq(Mutation),
         Issue(c, ws), UNCHANGED <<feed, entries>>, Ages, \A d \in Users : DropsStay(d),
         \A i \in DOMAIN ws : /\ ws[i].op \notin {"entrySet", "entryDel"}
                              /\ ws[i].op \in {"feedSet", "feedDel"} => owner[ws[i].entry] # ws[i].uid
  PROVE  WritesOwned' /\ FeedsAgree'
<1>1. \A i \in DOMAIN ws : WriteOwned(c, ws[i])'
  BY DEF WriteOwned
<1>2. pending'[c] = pending[c] \o ws /\ pending[c] \in Seq(Mutation)
  BY DEF Issue, TypeOK
<1>3. ASSUME NEW e \in Entries, owner[e] = c
      PROVE  Agrees(c, e)'
  <2>1. \A m \in ToSet(ws) : m \notin EntryOf(e) /\ m \notin FeedOf(c, e)
    BY <1>3 DEF EntryOf, FeedOf, ToSet
  <2>2. EntryStands(c, e)' = EntryStands(c, e) /\ FeedStands(c, e)' = FeedStands(c, e)
    BY <1>2, <2>1, SaysAppended DEF EntryStands, FeedStands
  <2>3. Agrees(c, e)
    BY <1>3 DEF FeedsAgree
  <2> QED
    BY <2>2, <2>3 DEF Agrees, DropsStay, Ages
<1> QED
  BY <1>1, <1>3, IssueOwned

\* Writes of lists and of the privacy switch.
LEMMA IssueLists ==
  ASSUME TypeOK, WritesOwned, FeedsAgree, NEW c \in Users, NEW ws \in Seq(Mutation),
         Issue(c, ws), UNCHANGED <<feed, entries>>, Ages, \A d \in Users : DropsStay(d),
         \A i \in DOMAIN ws : ws[i].op \in ListField \cup {"public"}
  PROVE  WritesOwned' /\ FeedsAgree'
<1>1. \A i \in DOMAIN ws : ws[i].op \notin {"entrySet", "entryDel", "feedSet", "feedDel"}
  BY DEF ListField
<1> QED
  BY <1>1, IssueOther

LEMMA FanOutAgrees ==
  ASSUME TypeOK, WritesOwned, FeedsAgree, NEW c \in Users, NEW us \in Seq(Users),
         NEW e \in Entries, owner[e] = c,
         NEW eop \in {"entrySet", "entryDel"}, NEW op \in {"feedSet", "feedDel"},
         eop = "entrySet" <=> op = "feedSet",
         Issue(c, <<EntryWrite(eop, e)>> \o FanOut(op, c, us, e)), UNCHANGED <<feed, entries>>,
         Ages, \A d \in Users : DropsStay(d),
         eop = "entrySet" => e \in drawn' /\ ~DropDue(c, e)
  PROVE  WritesOwned' /\ FeedsAgree'
<1> DEFINE first == EntryWrite(eop, e)
<1> DEFINE own == [op |-> op, uid |-> c, entry |-> e]
<1> DEFINE fan == FeedWrites(op, us, e)
<1> DEFINE ws == <<first>> \o (fan \o FeedWrites(op, <<c>>, e))
<1>1. first \in Mutation /\ first.op = eop /\ first.entry = e
  BY Shapes DEF EntryWrite
<1>2. \A v \in Users : [op |-> op, uid |-> v, entry |-> e] \in Mutation
  BY Shapes
<1>3. /\ fan \in Seq(Mutation)
      /\ \A m \in ToSet(fan) : m.op = op /\ m.entry = e
  BY <1>2 DEF FeedWrites, ToSet
<1>4. FeedWrites(op, <<c>>, e) \in Seq(Mutation) /\ ToSet(FeedWrites(op, <<c>>, e)) = {own}
  BY <1>2 DEF FeedWrites, ToSet
<1>5. own \in Mutation /\ own.op = op /\ own.uid = c /\ own.entry = e
  BY <1>2
<1>6. <<first>> \in Seq(Mutation) /\ ToSet(<<first>>) = {first}
  BY <1>1 DEF ToSet
<1>7. ws \in Seq(Mutation) /\ ToSet(ws) = {first} \cup (ToSet(fan) \cup {own})
  <2> HIDE DEF first, own, fan
  <2>1. fan \o FeedWrites(op, <<c>>, e) \in Seq(Mutation)
        /\ ToSet(fan \o FeedWrites(op, <<c>>, e)) = ToSet(fan) \cup {own}
    BY <1>3, <1>4, JoinedSet
  <2>2. PICK rest : rest = fan \o FeedWrites(op, <<c>>, e)
    OBVIOUS
  <2>3. rest \in Seq(Mutation) /\ ToSet(rest) = ToSet(fan) \cup {own}
    BY <2>1, <2>2
  <2>4. PICK one \in Seq(Mutation) : one = <<first>>
    BY <1>6
  <2>5. one \o rest \in Seq(Mutation) /\ ToSet(one \o rest) = ToSet(one) \cup ToSet(rest)
    BY <2>3, JoinedSet
  <2> QED
    BY <1>6, <2>2, <2>3, <2>4, <2>5
<1>12. Issue(c, ws)
  BY DEF FanOut
<1> HIDE DEF first, own, fan, ws
<1>13. \A m \in ToSet(ws) : m.op \in {eop, op} /\ m.entry = e
  BY <1>1, <1>3, <1>5, <1>7
<1>8. \A i \in DOMAIN ws : ws[i].op \in {eop, op} /\ ws[i].entry = e
  BY <1>13 DEF ToSet
<1>9. \A i \in DOMAIN ws : WriteOwned(c, ws[i])'
  BY <1>8 DEF WriteOwned
<1>10. pending'[c] = pending[c] \o ws /\ pending[c] \in Seq(Mutation)
  BY <1>12 DEF Issue, TypeOK
<1>11. ASSUME NEW f \in Entries, owner[f] = c
       PROVE  Agrees(c, f)'
  <2>1. CASE f # e
    <3>1. \A m \in ToSet(ws) : m \notin EntryOf(f) /\ m \notin FeedOf(c, f)
      BY <1>13, <2>1 DEF EntryOf, FeedOf
    <3>2. EntryStands(c, f)' = EntryStands(c, f) /\ FeedStands(c, f)' = FeedStands(c, f)
      BY <1>7, <1>10, <3>1, SaysAppended DEF EntryStands, FeedStands
    <3>3. Agrees(c, f)
      BY <1>11 DEF FeedsAgree
    <3> QED
      BY <3>2, <3>3 DEF Agrees, DropsStay, Ages
  <2>3. \/ eop = "entrySet" /\ op = "feedSet"
        \/ eop = "entryDel" /\ op = "feedDel"
    OBVIOUS
  <2>2. CASE f = e
    <3>1. /\ \E m \in ToSet(ws) : m \in EntryOf(e)
          /\ \A m \in ToSet(ws) : m.op = eop \/ m \notin EntryOf(e)
      BY <1>1, <1>7, <1>13 DEF EntryOf
    <3>2. /\ \E m \in ToSet(ws) : m \in FeedOf(c, e)
          /\ \A m \in ToSet(ws) : m.op = op \/ m \notin FeedOf(c, e)
      BY <1>5, <1>7, <1>13 DEF FeedOf
    <3>3. CASE eop = "entrySet" /\ op = "feedSet"
      <4>1. EntryStands(c, e)'
        <5>1. \A m \in ToSet(ws) : m.op = "entrySet" \/ m \notin EntryOf(e)
          BY <3>1, <3>3
        <5>2. ws \in Seq(Mutation) /\ pending[c] \in Seq(Mutation)
          BY <1>7, <1>10
        <5>3. ASSUME NEW stored
              PROVE  Says(pending[c] \o ws, EntryOf(e), "entrySet", stored)
          BY <3>1, <5>1, <5>2, SaysReplaced
        <5> QED
          BY <1>10, <5>3 DEF EntryStands
      <4>2. FeedStands(c, e)'
        <5>1. \A m \in ToSet(ws) : m.op = "feedSet" \/ m \notin FeedOf(c, e)
          BY <3>2, <3>3
        <5>2. ws \in Seq(Mutation) /\ pending[c] \in Seq(Mutation)
          BY <1>7, <1>10
        <5>3. ASSUME NEW stored
              PROVE  Says(pending[c] \o ws, FeedOf(c, e), "feedSet", stored)
          BY <3>2, <5>1, <5>2, SaysReplaced
        <5> QED
          BY <1>10, <5>3 DEF FeedStands
      <4> QED
        BY <2>2, <3>3, <4>1, <4>2 DEF Agrees, DropsStay, Ages
    <3>4. CASE eop = "entryDel" /\ op = "feedDel"
      <4>1. ~EntryStands(c, e)'
        <5>0. ws \in Seq(Mutation) /\ pending[c] \in Seq(Mutation)
          BY <1>7, <1>10
        <5>1. \A m \in ToSet(ws) : m.op # "entrySet" \/ m \notin EntryOf(e)
          BY <3>1, <3>4
        <5>2. ASSUME NEW stored
              PROVE  ~Says(pending[c] \o ws, EntryOf(e), "entrySet", stored)
          BY <3>1, <5>0, <5>1, SaysReplaced
        <5> QED
          BY <1>10, <5>2 DEF EntryStands
      <4>2. ~FeedStands(c, e)'
        <5>0. ws \in Seq(Mutation) /\ pending[c] \in Seq(Mutation)
          BY <1>7, <1>10
        <5>1. \A m \in ToSet(ws) : m.op # "feedSet" \/ m \notin FeedOf(c, e)
          BY <3>2, <3>4
        <5>2. ASSUME NEW stored
              PROVE  ~Says(pending[c] \o ws, FeedOf(c, e), "feedSet", stored)
          BY <3>2, <5>0, <5>1, SaysReplaced
        <5> QED
          BY <1>10, <5>2 DEF FeedStands
      <4> QED
        BY <2>2, <4>1, <4>2 DEF Agrees
    <3> QED
      BY <2>3, <3>3, <3>4
  <2> QED
    BY <2>1, <2>2
<1> QED
  BY <1>7, <1>9, <1>11, <1>12, IssueOwned

\* The deletion of a trip takes its entry from the feeds at once.
LEMMA DropAgrees ==
  ASSUME TypeOK, WritesOwned, FeedsAgree, NEW c \in Users, NEW us \in Seq(Users),
         NEW e \in Entries, owner[e] = c, Issue(c, FanOut("feedDel", c, us, e)),
         UNCHANGED <<feed, entries>>, Ages, \A d \in Users \ {c} : DropsStay(d),
         DropDue(c, e)', \A f \in Entries \ {e} : DropDue(c, f)' <=> DropDue(c, f)
  PROVE  WritesOwned' /\ FeedsAgree'
<1> DEFINE own == [op |-> "feedDel", uid |-> c, entry |-> e]
<1> DEFINE fan == FeedWrites("feedDel", us, e)
<1> DEFINE ws == fan \o FeedWrites("feedDel", <<c>>, e)
<1>1. \A v \in Users : [op |-> "feedDel", uid |-> v, entry |-> e] \in Mutation
  BY Shapes
<1>2. /\ fan \in Seq(Mutation)
      /\ \A m \in ToSet(fan) : m.op = "feedDel" /\ m.entry = e
  BY <1>1 DEF FeedWrites, ToSet
<1>3. /\ FeedWrites("feedDel", <<c>>, e) \in Seq(Mutation)
      /\ ToSet(FeedWrites("feedDel", <<c>>, e)) = {own}
  BY <1>1 DEF FeedWrites, ToSet
<1>4. own \in Mutation /\ own.op = "feedDel" /\ own.uid = c /\ own.entry = e
  BY <1>1
<1>5. ws \in Seq(Mutation) /\ ToSet(ws) = ToSet(fan) \cup {own}
  <2> HIDE DEF own, fan
  <2> QED
    BY <1>2, <1>3, JoinedSet
<1>6. Issue(c, ws)
  BY DEF FanOut
<1> HIDE DEF own, fan, ws
<1>7. \A m \in ToSet(ws) : m.op = "feedDel" /\ m.entry = e
  BY <1>2, <1>4, <1>5
<1>8. \A i \in DOMAIN ws : WriteOwned(c, ws[i])'
  <2>1. \A i \in DOMAIN ws : ws[i].op = "feedDel" /\ ws[i].entry = e
    BY <1>7 DEF ToSet
  <2> QED
    BY <2>1 DEF WriteOwned
<1>9. pending'[c] = pending[c] \o ws /\ pending[c] \in Seq(Mutation)
  BY <1>6 DEF Issue, TypeOK
<1>10. ASSUME NEW f \in Entries, owner[f] = c
       PROVE  Agrees(c, f)'
  <2>1. CASE f # e
    <3>1. \A m \in ToSet(ws) : m \notin EntryOf(f) /\ m \notin FeedOf(c, f)
      BY <1>7, <2>1 DEF EntryOf, FeedOf
    <3>2. EntryStands(c, f)' = EntryStands(c, f) /\ FeedStands(c, f)' = FeedStands(c, f)
      BY <1>5, <1>9, <3>1, SaysAppended DEF EntryStands, FeedStands
    <3>3. Agrees(c, f)
      BY <1>10 DEF FeedsAgree
    <3> QED
      BY <2>1, <3>2, <3>3 DEF Agrees, Ages
  <2>2. CASE f = e
    <3>1. /\ \E m \in ToSet(ws) : m \in FeedOf(c, e)
          /\ \A m \in ToSet(ws) : m.op # "feedSet" \/ m \notin FeedOf(c, e)
      BY <1>4, <1>5, <1>7 DEF FeedOf
    <3>2. ~FeedStands(c, e)'
      <4>1. ASSUME NEW stored
            PROVE  ~Says(pending[c] \o ws, FeedOf(c, e), "feedSet", stored)
        BY <1>5, <1>9, <3>1, SaysReplaced
      <4> QED
        BY <1>9, <4>1 DEF FeedStands
    <3> QED
      BY <2>2, <3>2 DEF Agrees
  <2> QED
    BY <2>1, <2>2
<1> QED
  BY <1>5, <1>6, <1>8, <1>10, IssueOwned

\* When it has been read the entry itself goes.
LEMMA DroppedAgrees ==
  ASSUME OwnFeedInv, NEW c \in Users, NEW k \in calls[c], EntryDropped(c, k),
         owner[k.entry] = c
  PROVE  WritesOwned' /\ FeedsAgree'
<1>1. /\ TypeOK /\ WritesOwned /\ FeedsAgree /\ k \in Call /\ k.op = "drop"
      /\ UNCHANGED <<feed, entries, drawn, torn>>
      /\ Resume(c, k, {})
  BY DEF OwnFeedInv, TypeOK, EntryDropped, server, history
<1>2. k.entry \in Entries
  BY <1>1 DEF Call
<1>3. PICK e \in Entries : e = k.entry
  BY <1>2
<1> DEFINE ws == <<EntryWrite("entryDel", e)>>
<1>4. /\ ws \in Seq(Mutation)
      /\ ToSet(ws) = {EntryWrite("entryDel", e)}
      /\ DOMAIN ws = {1} /\ ws[1] = EntryWrite("entryDel", e)
  BY Shapes DEF ToSet
<1>5. Issue(c, ws)
  BY <1>3 DEF EntryDropped
<1> HIDE DEF ws
<1>6. pending'[c] = pending[c] \o ws /\ pending[c] \in Seq(Mutation)
  BY <1>1, <1>5 DEF Issue, TypeOK
<1>7. calls'[c] = calls[c] \ {k} /\ \A d \in Users \ {c} : calls'[d] = calls[d]
  BY <1>1 DEF Resume, TypeOK
<1>8. Ages /\ \A d \in Users \ {c} : DropsStay(d)
  BY <1>1, <1>7 DEF Ages, DropsStay, DropDue
<1>9. DropDue(c, e) /\ \A f \in Entries \ {e} : DropDue(c, f)' <=> DropDue(c, f)
  BY <1>1, <1>3, <1>7 DEF DropDue
<1>10. \A i \in DOMAIN ws : WriteOwned(c, ws[i])'
  BY <1>3, <1>4 DEF WriteOwned, EntryWrite
<1>11. ASSUME NEW f \in Entries, owner[f] = c
       PROVE  Agrees(c, f)'
  <2>1. \A m \in ToSet(ws) : m \notin FeedOf(c, f)
    BY <1>4 DEF EntryWrite, FeedOf
  <2>2. FeedStands(c, f)' = FeedStands(c, f)
    BY <1>1, <1>4, <1>6, <2>1, SaysAppended DEF FeedStands
  <2>3. Agrees(c, f)
    BY <1>1, <1>11 DEF FeedsAgree
  <2>4. CASE f # e
    <3>1. \A m \in ToSet(ws) : m \notin EntryOf(f)
      BY <1>4, <2>4 DEF EntryWrite, EntryOf
    <3>2. EntryStands(c, f)' = EntryStands(c, f)
      BY <1>1, <1>4, <1>6, <3>1, SaysAppended DEF EntryStands
    <3> QED
      BY <1>1, <1>9, <2>2, <2>3, <2>4, <3>2 DEF Agrees
  <2>5. CASE f = e
    <3>1. /\ \E m \in ToSet(ws) : m \in EntryOf(e)
          /\ \A m \in ToSet(ws) : m.op # "entrySet" \/ m \notin EntryOf(e)
      BY <1>4, Shapes DEF EntryWrite, EntryOf
    <3>2. ~EntryStands(c, e)'
      <4>1. ASSUME NEW stored
            PROVE  ~Says(pending[c] \o ws, EntryOf(e), "entrySet", stored)
        BY <1>4, <1>6, <3>1, SaysReplaced
      <4> QED
        BY <1>6, <4>1 DEF EntryStands
    <3> QED
      BY <1>1, <1>9, <2>2, <2>3, <2>5, <3>2 DEF Agrees
  <2> QED
    BY <2>4, <2>5
<1> QED
  BY <1>1, <1>4, <1>5, <1>8, <1>10, <1>11, IssueOwned

\* The fill of a follower's feed concerns another feed than the author's.
LEMMA FilledAgrees ==
  ASSUME OwnFeedInv, NEW c \in Users, NEW k \in calls[c], FeedFilled(c, k)
  PROVE  WritesOwned' /\ FeedsAgree'
<1>1. /\ TypeOK /\ WritesOwned /\ FeedsAgree /\ k \in Call /\ k.op = "fill"
      /\ CallsOwned /\ k.uid # k.from
      /\ UNCHANGED <<feed, entries, drawn, torn>>
      /\ Resume(c, k, {})
  BY DEF OwnFeedInv, TypeOK, CallsOwned, CallOwned, FeedFilled, server
<1>2. k.uid \in Users /\ k.from \in Users
  BY <1>1 DEF Call
<1> PICK newest \in SUBSET Standing(c, k.from) :
        \E es \in SetToSeqs(newest) :
          Issue(c, [i \in DOMAIN es |-> [op |-> "feedSet", uid |-> k.uid, entry |-> es[i]]])
  BY DEF FeedFilled
<1>3. PICK es \in SetToSeqs(newest) :
        Issue(c, [i \in DOMAIN es |-> [op |-> "feedSet", uid |-> k.uid, entry |-> es[i]]])
  OBVIOUS
<1>4. newest \in SUBSET Entries /\ \A e \in newest : owner[e] = k.from
  BY DEF LocalEntries, Standing
<1>5. es \in Seq(newest) /\ es \in Seq(Entries)
  <2>1. es \in Seq(newest)
    BY <1>4, FiniteAssumption, OrderType
  <2> QED
    BY <1>4, <2>1
<1> DEFINE ws == [i \in DOMAIN es |-> [op |-> "feedSet", uid |-> k.uid, entry |-> es[i]]]
<1>6. /\ ws \in Seq(Mutation) /\ DOMAIN ws = DOMAIN es
      /\ \A i \in DOMAIN ws : /\ ws[i].op = "feedSet" /\ ws[i].uid = k.uid
                              /\ ws[i].entry \in newest
  BY <1>2, <1>5, Shapes
<1>7. Issue(c, ws)
  BY <1>3
<1> HIDE DEF ws
<1>8. Ages
  BY <1>1 DEF Ages
<1>9. \A d \in Users : DropsStay(d)
  BY <1>1, <1>8, ResumedOwned
<1> QED
  BY <1>1, <1>4, <1>6, <1>7, <1>8, <1>9, IssueOther

\* An unfollower deletes documents of somebody else's entries.
LEMMA ClearedAgrees ==
  ASSUME OwnFeedInv, NEW c \in Users, NEW k \in calls[c], FeedCleared(c, k)
  PROVE  WritesOwned' /\ FeedsAgree'
<1>1. /\ TypeOK /\ WritesOwned /\ FeedsAgree /\ k.uid # c /\ k.op = "clear"
      /\ CallsOwned /\ Resume(c, k, {})
      /\ UNCHANGED <<feed, entries, drawn, torn>>
  BY DEF OwnFeedInv, CallsOwned, CallOwned, FeedCleared, server
<1>7. Ages
  BY <1>1 DEF Ages
<1>8. \A d \in Users : DropsStay(d)
  BY <1>1, <1>7, ResumedOwned
<1> DEFINE found == {e \in LocalFeed(c) : owner[e] = k.uid}
<1>2. PICK es \in SetToSeqs(found) :
        Issue(c, [i \in DOMAIN es |-> [op |-> "feedDel", uid |-> c, entry |-> es[i]]])
  BY DEF FeedCleared
<1>3. found \in SUBSET Entries /\ \A e \in found : owner[e] # c
  BY <1>1 DEF LocalFeed
<1> HIDE DEF found
<1>4. es \in Seq(found)
  BY <1>2, <1>3, FiniteAssumption, OrderType
<1> DEFINE ws == [i \in DOMAIN es |-> [op |-> "feedDel", uid |-> c, entry |-> es[i]]]
<1>5. /\ ws \in Seq(Mutation)
      /\ \A i \in DOMAIN ws : ws[i].op = "feedDel" /\ ws[i].uid = c /\ ws[i].entry \in found
  BY <1>3, <1>4, Shapes
<1>6. Issue(c, ws)
  BY <1>2
<1> HIDE DEF ws
<1> QED
  BY <1>1, <1>3, <1>5, <1>6, <1>7, <1>8, IssueOther

\* The server applies a write: the author's device sees no difference.
LEMMA CommitAgrees ==
  ASSUME OwnFeedInv, NEW c \in Users, Commit(c)
  PROVE  WritesOwned' /\ FeedsAgree'
<1> DEFINE q == pending[c]
<1> DEFINE m == Head(q)
<1>1. /\ TypeOK /\ WritesOwned /\ FeedsAgree
      /\ q \in Seq(Mutation) /\ q # <<>> /\ m \in Mutation
  BY DEF OwnFeedInv, TypeOK, Commit
<1>2. /\ feed' = CASE m.op = "feedSet" -> [feed EXCEPT ![m.uid] = @ \cup {m.entry}]
                    [] m.op = "feedDel" -> [feed EXCEPT ![m.uid] = @ \ {m.entry}]
                    [] OTHER -> feed
      /\ entries' = CASE m.op = "entrySet" -> entries \cup {m.entry}
                       [] m.op = "entryDel" -> entries \ {m.entry}
                       [] OTHER -> entries
      /\ pending'[c] = Tail(q) /\ \A d \in Users \ {c} : pending'[d] = pending[d]
      /\ UNCHANGED <<calls, drawn, torn>>
  BY <1>1 DEF Commit, TypeOK, history
<1>3. WriteOwned(c, m)
  <2>1. 1 \in DOMAIN q /\ m = q[1]
    BY <1>1
  <2> QED
    BY <1>1, <2>1 DEF WritesOwned
<1> HIDE DEF q, m
<1>4. ASSUME NEW e \in Entries
      PROVE  (e \in entries') = (IF m \in EntryOf(e) THEN m.op = "entrySet" ELSE e \in entries)
  BY <1>1, <1>2 DEF EntryOf
<1>5. ASSUME NEW e \in Entries, NEW d \in Users
      PROVE  (e \in feed'[d]) = (IF m \in FeedOf(d, e) THEN m.op = "feedSet" ELSE e \in feed[d])
  <2>1. feed \in [Users -> SUBSET Entries]
    BY <1>1 DEF TypeOK
  <2>2. CASE m.op \in {"feedSet", "feedDel"} /\ m.uid = d
    BY <1>1, <1>2, <2>1, <2>2, MutationTypes DEF FeedOf
  <2>3. CASE ~(m.op \in {"feedSet", "feedDel"} /\ m.uid = d)
    BY <1>1, <1>2, <2>1, <2>3, MutationTypes DEF FeedOf
  <2> QED
    BY <2>2, <2>3
<1>6. WritesOwned'
  <2> SUFFICES ASSUME NEW d \in Users, NEW i \in DOMAIN pending'[d]
               PROVE  WriteOwned(d, pending'[d][i])
    BY <1>2 DEF WritesOwned, WriteOwned
  <2>1. CASE d # c
    BY <1>1, <1>2, <2>1 DEF WritesOwned
  <2>2. CASE d = c
    <3>1. i + 1 \in DOMAIN q /\ pending'[c][i] = q[i + 1]
      BY <1>1, <1>2, <2>2
    <3> QED
      BY <1>1, <2>2, <3>1 DEF WritesOwned, q
  <2> QED
    BY <2>1, <2>2
<1>7. ASSUME NEW d \in Users, NEW e \in Entries, owner[e] = d
      PROVE  Agrees(d, e)'
  <2>1. Agrees(d, e)
    BY <1>1, <1>7 DEF FeedsAgree
  <2>2. CASE d = c
    <3>1. EntryStands(c, e)' = EntryStands(c, e)
      BY <1>1, <1>2, <1>4, SaysSent DEF EntryStands, m, q
    <3>2. FeedStands(c, e)' = FeedStands(c, e)
      BY <1>1, <1>2, <1>5, SaysSent DEF FeedStands, m, q
    <3> QED
      BY <1>2, <2>1, <2>2, <3>1, <3>2 DEF Agrees, DropDue
  <2>3. CASE d # c
    <3>1. m \notin EntryOf(e) /\ m \notin FeedOf(d, e)
      BY <1>3, <1>7, <2>3 DEF WriteOwned, EntryOf, FeedOf
    <3>2. EntryStands(d, e)' = EntryStands(d, e)
      BY <1>2, <1>4, <2>3, <3>1 DEF EntryStands
    <3>3. FeedStands(d, e)' = FeedStands(d, e)
      BY <1>2, <1>5, <2>3, <3>1 DEF FeedStands
    <3> QED
      BY <1>2, <2>1, <3>2, <3>3 DEF Agrees, DropDue
  <2> QED
    BY <2>2, <2>3
<1>9. entries' \subseteq drawn'
  BY <1>1, <1>2, <1>3 DEF FeedsAgree, WriteOwned
<1>8. FeedsAgree'
  BY <1>7, <1>9 DEF FeedsAgree
<1> QED
  BY <1>6, <1>8

-----------------------------------------------------------------------------
(* The steps of a device.                                                  *)

LEMMA PagesOwned ==
  ASSUME TypeOK, OwnPages, NEW c \in Users, NEW p \in Users, NEW doc,
         page' = [page EXCEPT ![c][p] = doc], p # c \/ doc \in {Unopened, Blank}
  PROVE  OwnPages'
<1>1. \A d \in Users : page[d] \in [Users -> UserDoc \cup {Unopened, Blank}]
  BY DEF TypeOK
<1>2. page \in [Users -> [Users -> UserDoc \cup {Unopened, Blank}]]
  BY DEF TypeOK
<1>3. \A d \in Users : page'[d][d] = page[d][d] \/ page'[d][d] \in {Unopened, Blank}
  BY <1>1, <1>2
<1> QED
  BY <1>3 DEF OwnPages, Loaded

LEMMA RelaunchAgrees ==
  ASSUME OwnFeedInv, NEW c \in Users, Relaunch(c)
  PROVE  OwnPages' /\ CallsOwned' /\ WritesOwned' /\ FeedsAgree'
<1>1. /\ TypeOK /\ OwnPages /\ CallsOwned /\ WritesOwned /\ FeedsAgree
      /\ page' = [page EXCEPT ![c] = [p \in Users |-> Unopened]]
      /\ calls' = [calls EXCEPT ![c] = {}]
      /\ UNCHANGED <<feed, entries, drawn>>
  BY DEF OwnFeedInv, Relaunch, server
<1>2. OwnPages'
  <2>1. \A d \in Users : page'[d][d] = page[d][d] \/ page'[d][d] = Unopened
    BY <1>1 DEF TypeOK
  <2> QED
    BY <1>1, <2>1 DEF OwnPages, Loaded
<1>3. CallsOwned'
  BY <1>1 DEF CallsOwned, CallOwned, TypeOK
<1>4. PICK n \in 0..Len(pending[c]) : /\ pending' = [pending EXCEPT ![c] = SubSeq(@, 1, n)]
                                      /\ torn' = torn \cup CutShort(c, n)
  BY DEF Relaunch
<1>5. pending[c] \in Seq(Mutation) /\ Len(pending[c]) \in Nat
  BY <1>1 DEF TypeOK
<1>6. /\ pending'[c] = SubSeq(pending[c], 1, n)
      /\ \A d \in Users \ {c} : pending'[d] = pending[d] /\ calls'[d] = calls[d]
      /\ calls'[c] = {}
      /\ torn \subseteq torn'
  BY <1>1, <1>4 DEF TypeOK
<1>7. WritesOwned'
  <2> SUFFICES ASSUME NEW d \in Users, NEW i \in DOMAIN pending'[d]
               PROVE  WriteOwned(d, pending'[d][i])
    BY <1>1 DEF WritesOwned, WriteOwned
  <2>1. CASE d # c
    BY <1>1, <1>6, <2>1 DEF WritesOwned
  <2>2. CASE d = c
    <3>1. i \in DOMAIN pending[c] /\ pending'[c][i] = pending[c][i]
      BY <1>5, <1>6, <2>2
    <3> QED
      BY <1>1, <2>2, <3>1 DEF WritesOwned
  <2> QED
    BY <2>1, <2>2
<1>8. PICK q, rest \in Seq(Mutation) :
        /\ q = SubSeq(pending[c], 1, n)
        /\ pending[c] = q \o rest
        /\ \A i \in DOMAIN rest : /\ n + i \in (n + 1)..Len(pending[c])
                                  /\ rest[i] = pending[c][n + i]
  <2>1. PICK s \in Seq(Mutation) : s = pending[c]
    BY <1>5
  <2>2. n \in 0..Len(s)
    BY <2>1
  <2>3. PICK q \in Seq(Mutation) : q = SubSeq(s, 1, n)
    BY <2>2, Parted
  <2>4. PICK rest \in Seq(Mutation) : rest = SubSeq(s, n + 1, Len(s))
    BY <2>2, Parted
  <2>5. s = q \o rest
    <3>1. s = SubSeq(s, 1, n) \o SubSeq(s, n + 1, Len(s))
      BY <2>2, Parted, Zenon
    <3> QED
      BY <2>3, <2>4, <3>1, Zenon
  <2>6. \A i \in DOMAIN rest : n + i \in (n + 1)..Len(s) /\ rest[i] = s[n + i]
    BY <2>2, <2>4, Parted
  <2> QED
    BY <2>1, <2>3, <2>5, <2>6
<1>11. ASSUME NEW e \in Entries, owner[e] = c, e \notin torn'
       PROVE  Agrees(c, e)'
  <2>1. e \notin CutShort(c, n)
    BY <1>4, <1>11
  <2>2. ~DropDue(c, e) /\ ~DropDue(c, e)'
    BY <1>6, <1>11, <2>1 DEF CutShort, DropDue
  <2>3. \A i \in (n + 1)..Len(pending[c]) :
          pending[c][i] \notin EntryOf(e) /\ pending[c][i] \notin FeedOf(c, e)
    BY <1>11, <2>1 DEF CutShort, EntryOf, FeedOf
  <2>4. \A m \in ToSet(rest) : m \notin EntryOf(e) /\ m \notin FeedOf(c, e)
    BY <1>8, <2>3 DEF ToSet
  <2>5. EntryStands(c, e) = EntryStands(c, e)'
    <3>1. Says(q \o rest, EntryOf(e), "entrySet", e \in entries)
            = Says(q, EntryOf(e), "entrySet", e \in entries)
      BY <2>4, SaysAppended
    <3> QED
      BY <1>1, <1>6, <1>8, <3>1 DEF EntryStands
  <2>6. FeedStands(c, e) = FeedStands(c, e)'
    <3>1. Says(q \o rest, FeedOf(c, e), "feedSet", e \in feed[c])
            = Says(q, FeedOf(c, e), "feedSet", e \in feed[c])
      BY <2>4, SaysAppended
    <3> QED
      BY <1>1, <1>6, <1>8, <3>1 DEF FeedStands
  <2>7. Agrees(c, e) /\ e \notin torn
    BY <1>1, <1>6, <1>11 DEF FeedsAgree
  <2> QED
    BY <1>11, <2>2, <2>5, <2>6, <2>7 DEF Agrees
<1>12. ASSUME NEW d \in Users, NEW e \in Entries, owner[e] = d
       PROVE  Agrees(d, e)'
  <2>1. CASE e \in torn'
    BY <2>1 DEF Agrees
  <2>2. CASE e \notin torn' /\ d = c
    BY <1>11, <1>12, <2>2
  <2>3. CASE e \notin torn' /\ d # c
    <3>1. Agrees(d, e) /\ e \notin torn
      BY <1>1, <1>6, <1>12, <2>3 DEF FeedsAgree
    <3> QED
      BY <1>1, <1>6, <2>3, <3>1 DEF Agrees, FeedStands, EntryStands, DropDue
  <2> QED
    BY <2>1, <2>2, <2>3
<1>13. FeedsAgree'
  BY <1>1, <1>12 DEF FeedsAgree
<1> QED
  BY <1>2, <1>3, <1>7, <1>13

LEMMA PagesStay ==
  ASSUME OwnPages, UNCHANGED page
  PROVE  OwnPages'
BY DEF OwnPages, Loaded

LEMMA ProfileAgrees ==
  ASSUME OwnFeedInv, NEW c \in Users, ProfileStep(c)
  PROVE  OwnPages' /\ CallsOwned' /\ WritesOwned' /\ FeedsAgree'
<1> USE DEF server, screens, history
<1>0. /\ TypeOK /\ OwnPages /\ CallsOwned /\ WritesOwned /\ FeedsAgree
      /\ me[c] \in UserDoc
      /\ \A p \in Users : Loaded(c, p) => page[c][p] \in UserDoc /\ p # c
  BY DEF OwnFeedInv, TypeOK, Loaded, OwnPages
<1>1. ASSUME NEW p \in Users, OpenProfile(c, p)
      PROVE  OwnPages' /\ CallsOwned' /\ WritesOwned' /\ FeedsAgree'
  <2>1. p # c /\ UNCHANGED <<pending, feed, entries>> /\ Ages
    BY <1>1 DEF OpenProfile, Ages
  <2>2. PICK doc : page' = [page EXCEPT ![c][p] = doc]
    BY <1>1 DEF OpenProfile
  <2>3. PICK ks : ks = {Callback("page", p)}
    OBVIOUS
  <2>4. Await(c, ks) /\ \A k \in ks : CallOwned(c, k)' /\ k.op # "drop"
    BY <1>1, <2>1, <2>3 DEF OpenProfile, Callback, CallOwned
  <2>5. CallsOwned' /\ \A d \in Users : DropsStay(d)
    BY <1>0, <2>1, <2>4, AwaitOwned
  <2> QED
    BY <1>0, <2>1, <2>2, <2>5, PagesOwned, WritesKept
<1>2. ASSUME NEW p \in Users, RequestPressed(c, p)
      PROVE  OwnPages' /\ CallsOwned' /\ WritesOwned' /\ FeedsAgree'
  <2>1. p # c /\ UNCHANGED <<page, feed, entries>> /\ Ages
    BY <1>0, <1>2 DEF RequestPressed, Ages
  <2>2. PICK ks : ks = RequestReads(c, p)
    OBVIOUS
  <2>3. Await(c, ks) /\ \A k \in ks : CallOwned(c, k)' /\ k.op # "drop"
    BY <1>2, <2>1, <2>2 DEF RequestPressed, RequestReads, Callback, CallOwned
  <2>5. CallsOwned' /\ \A d \in Users : DropsStay(d)
    BY <1>0, <2>1, <2>3, AwaitOwned
  <2>4. WritesOwned' /\ FeedsAgree'
    <3>1. CASE UNCHANGED pending
      BY <1>0, <2>1, <2>5, <3>1, WritesKept
    <3>2. CASE Issue(c, <<modifyRequests(page[c][p].requests \cup {c}, p)>>)
      <4>1. PICK ws : ws = <<modifyRequests(page[c][p].requests \cup {c}, p)>>
        OBVIOUS
      <4>2. ws \in Seq(Mutation) /\ \A i \in DOMAIN ws : ws[i].op \in ListField \cup {"public"}
        BY <1>0, <1>2, <4>1, Shapes
        DEF RequestPressed, UserDoc, modifyRequests, ListField, Write
      <4> QED
        BY <1>0, <2>1, <2>5, <3>2, <4>1, <4>2, IssueLists
    <3> QED
      BY <1>2, <3>1, <3>2 DEF RequestPressed
  <2> QED
    BY <1>0, <2>1, <2>4, <2>5, PagesStay
<1>3. ASSUME NEW p \in Users, FollowPressed(c, p)
      PROVE  OwnPages' /\ CallsOwned' /\ WritesOwned' /\ FeedsAgree'
  <2>1. p # c /\ UNCHANGED <<page, feed, entries>> /\ Ages
    BY <1>0, <1>3 DEF FollowPressed, Ages
  <2>2. PICK ks : ks = {[op |-> "fill", uid |-> c, from |-> p, n |-> presses],
                        Callback("refreshMe", p)}
    OBVIOUS
  <2>3. Await(c, ks) /\ \A k \in ks : CallOwned(c, k)' /\ k.op # "drop"
    BY <1>3, <2>1, <2>2 DEF FollowPressed, Callback, CallOwned
  <2>7. CallsOwned' /\ \A d \in Users : DropsStay(d)
    BY <1>0, <2>1, <2>3, AwaitOwned
  <2>4. PICK ws : ws = <<modifyFollowing(me[c].following \cup {p}, c),
                         modifyFollowers(page[c][p].followers \cup {c}, p)>>
    OBVIOUS
  <2>5. ws \in Seq(Mutation) /\ \A i \in DOMAIN ws : ws[i].op \in ListField \cup {"public"}
    BY <1>0, <1>3, <2>4, Shapes
    DEF FollowPressed, UserDoc, modifyFollowing, modifyFollowers, ListField, Write
  <2>6. Issue(c, ws)
    BY <1>3, <2>4 DEF FollowPressed
  <2> QED
    BY <1>0, <2>1, <2>5, <2>6, <2>7, PagesStay, IssueLists
<1>4. ASSUME NEW p \in Users, UnfollowPressed(c, p)
      PROVE  OwnPages' /\ CallsOwned' /\ WritesOwned' /\ FeedsAgree'
  <2>1. p # c /\ UNCHANGED <<page, feed, entries>> /\ Ages
    BY <1>0, <1>4 DEF UnfollowPressed, Ages
  <2>2. PICK ks : ks = {Callback("clear", p), Callback("refreshMe", p)}
    OBVIOUS
  <2>3. Await(c, ks) /\ \A k \in ks : CallOwned(c, k)' /\ k.op # "drop"
    BY <1>4, <2>1, <2>2 DEF UnfollowPressed, Callback, CallOwned
  <2>7. CallsOwned' /\ \A d \in Users : DropsStay(d)
    BY <1>0, <2>1, <2>3, AwaitOwned
  <2>4. PICK ws : ws = unfollowUser(c, me[c].following, p, page[c][p].followers)
    OBVIOUS
  <2>5. ws \in Seq(Mutation) /\ \A i \in DOMAIN ws : ws[i].op \in ListField \cup {"public"}
    BY <1>0, <1>4, <2>4, Shapes
    DEF UnfollowPressed, unfollowUser, UserDoc, modifyFollowing, modifyFollowers, ListField, Write
  <2>6. Issue(c, ws)
    BY <1>4, <2>4 DEF UnfollowPressed
  <2> QED
    BY <1>0, <2>1, <2>5, <2>6, <2>7, PagesStay, IssueLists
<1>5. ASSUME NEW p \in Users, FollowPressedTooEarly(c, p)
      PROVE  OwnPages' /\ CallsOwned' /\ WritesOwned' /\ FeedsAgree'
  BY <1>5, RelaunchAgrees DEF FollowPressedTooEarly
<1> QED
  BY <1>1, <1>2, <1>3, <1>4, <1>5 DEF ProfileStep

LEMMA ListAgrees ==
  ASSUME OwnFeedInv, NEW c \in Users, ListStep(c)
  PROVE  OwnPages' /\ CallsOwned' /\ WritesOwned' /\ FeedsAgree'
<1> USE DEF server, screens, history
<1>0. /\ TypeOK /\ OwnPages /\ CallsOwned /\ WritesOwned /\ FeedsAgree
      /\ requestList[c] \in [followers : SUBSET Users, requests : SUBSET Users]
      /\ \A r \in requestList[c].requests : r # c
  BY DEF OwnFeedInv, TypeOK, ConsentInv, ListsConsented, Asked, NobodyAsksOneself
<1>1. ASSUME OpenRequests(c) \/ OpenFollowing(c)
      PROVE  OwnPages' /\ CallsOwned' /\ WritesOwned' /\ FeedsAgree'
  <2>1. UNCHANGED <<page, calls, pending, feed, entries>> /\ Ages
    BY <1>1 DEF OpenRequests, OpenFollowing, Ages
  <2> QED
    BY <1>0, <2>1, PagesStay, CallsStay, WritesKept
<1>2. ASSUME NEW r \in Users, AcceptPressed(c, r)
      PROVE  OwnPages' /\ CallsOwned' /\ WritesOwned' /\ FeedsAgree'
  <2>1. UNCHANGED <<page, feed, entries>> /\ Ages /\ r # c
    BY <1>0, <1>2 DEF AcceptPressed, Ages
  <2>2. PICK ks : ks = AcceptReads(c, r)
    OBVIOUS
  <2>3. Await(c, ks) /\ \A k \in ks : CallOwned(c, k)' /\ k.op # "drop"
    BY <1>2, <2>1, <2>2 DEF AcceptPressed, AcceptReads, Callback, CallOwned
  <2>7. CallsOwned' /\ \A d \in Users : DropsStay(d)
    BY <1>0, <2>1, <2>3, AwaitOwned
  <2>4. PICK ws : ws = AcceptWrites(c, requestList[c], r)
    OBVIOUS
  <2>5. ws \in Seq(Mutation) /\ \A i \in DOMAIN ws : ws[i].op \in ListField \cup {"public"}
    BY <1>0, <2>4, Shapes DEF AcceptWrites, modifyFollowers, modifyRequests, ListField, Write
  <2>6. Issue(c, ws)
    BY <1>2, <2>4 DEF AcceptPressed
  <2> QED
    BY <1>0, <2>1, <2>5, <2>6, <2>7, PagesStay, IssueLists
<1>3. ASSUME NEW r \in Users, DenyPressed(c, r)
      PROVE  OwnPages' /\ CallsOwned' /\ WritesOwned' /\ FeedsAgree'
  <2>1. UNCHANGED <<page, calls, feed, entries>> /\ Ages
    BY <1>3 DEF DenyPressed, Ages
  <2>2. PICK ws : ws = <<modifyRequests(requestList[c].requests \ {r}, c)>>
    OBVIOUS
  <2>3. ws \in Seq(Mutation) /\ \A i \in DOMAIN ws : ws[i].op \in ListField \cup {"public"}
    BY <1>0, <2>2, Shapes DEF modifyRequests, ListField, Write
  <2>4. Issue(c, ws)
    BY <1>3, <2>2 DEF DenyPressed
  <2> QED
    BY <1>0, <2>1, <2>3, <2>4, PagesStay, CallsStay, IssueLists
<1>4. ASSUME NEW p \in Users, ListUnfollowPressed(c, p)
      PROVE  OwnPages' /\ CallsOwned' /\ WritesOwned' /\ FeedsAgree'
  <2>1. UNCHANGED <<page, pending, feed, entries>> /\ Ages
    BY <1>4 DEF ListUnfollowPressed, Ages
  <2>2. PICK ks : ks = {Callback("unfollow", p)}
    OBVIOUS
  <2>3. Await(c, ks) /\ \A k \in ks : CallOwned(c, k)' /\ k.op # "drop"
    BY <1>4, <2>2 DEF ListUnfollowPressed, Callback, CallOwned
  <2>4. CallsOwned' /\ \A d \in Users : DropsStay(d)
    BY <1>0, <2>1, <2>3, AwaitOwned
  <2> QED
    BY <1>0, <2>1, <2>4, PagesStay, WritesKept
<1> QED
  BY <1>1, <1>2, <1>3, <1>4 DEF ListStep

LEMMA OwnAgrees ==
  ASSUME OwnFeedInv, NEW c \in Users, OwnStep(c)
  PROVE  OwnPages' /\ CallsOwned' /\ WritesOwned' /\ FeedsAgree'
<1> USE DEF server, screens, history
<1>0. /\ TypeOK /\ OwnPages /\ CallsOwned /\ WritesOwned /\ FeedsAgree
      /\ me[c].followers \in SUBSET Users
  BY DEF OwnFeedInv, TypeOK, UserDoc
<1>1. ASSUME NEW b \in BOOLEAN, TogglePrivacy(c, b)
      PROVE  OwnPages' /\ CallsOwned' /\ WritesOwned' /\ FeedsAgree'
  <2>1. UNCHANGED <<page, calls, feed, entries>> /\ Ages
    BY <1>1 DEF TogglePrivacy, Ages
  <2>2. PICK ws : ws = <<Write("public", c, b)>>
    OBVIOUS
  <2>3. ws \in Seq(Mutation) /\ \A i \in DOMAIN ws : ws[i].op \in ListField \cup {"public"}
    BY <2>2, Shapes DEF Write
  <2>4. Issue(c, ws)
    BY <1>1, <2>2 DEF TogglePrivacy
  <2> QED
    BY <1>0, <2>1, <2>3, <2>4, PagesStay, CallsStay, IssueLists
<1>2. \A us \in SetToSeqs(me[c].followers) : us \in Seq(Users)
  <2> SUFFICES ASSUME NEW us \in SetToSeqs(me[c].followers) PROVE us \in Seq(Users)
    OBVIOUS
  <2>1. us \in Seq(me[c].followers)
    BY <1>0, FiniteAssumption, OrderType
  <2> QED
    BY <1>0, <2>1
<1>3. ASSUME NEW e \in Entries, Publish(c, e)
      PROVE  OwnPages' /\ CallsOwned' /\ WritesOwned' /\ FeedsAgree'
  <2>1. /\ owner[e] = c /\ UNCHANGED <<page, calls, feed, entries>> /\ Ages
        /\ e \notin drawn /\ e \in drawn'
    BY <1>3 DEF Publish, Ages
  <2>4. CallsOwned' /\ \A d \in Users : DropsStay(d)
    BY <1>0, <2>1, CallsStay
  <2>5. ~DropDue(c, e)
    BY <1>0, <2>1 DEF CallsOwned, CallOwned, DropDue
  <2>2. PICK us \in SetToSeqs(me[c].followers) :
          Issue(c, <<EntryWrite("entrySet", e)>> \o FanOut("feedSet", c, us, e))
    BY <1>3 DEF Publish
  <2>3. WritesOwned' /\ FeedsAgree'
    BY <1>0, <1>2, <2>1, <2>2, <2>4, <2>5, FanOutAgrees
  <2> QED
    BY <1>0, <2>1, <2>3, <2>4, PagesStay
<1>4. ASSUME NEW e \in Entries, DeleteEntry(c, e)
      PROVE  OwnPages' /\ CallsOwned' /\ WritesOwned' /\ FeedsAgree'
  <2>1. owner[e] = c /\ UNCHANGED <<page, calls, feed, entries>> /\ Ages
    BY <1>4 DEF DeleteEntry, Ages
  <2>4. CallsOwned' /\ \A d \in Users : DropsStay(d)
    BY <1>0, <2>1, CallsStay
  <2>2. PICK us \in SetToSeqs(me[c].followers) :
          Issue(c, <<EntryWrite("entryDel", e)>> \o FanOut("feedDel", c, us, e))
    BY <1>4 DEF DeleteEntry
  <2>3. WritesOwned' /\ FeedsAgree'
    BY <1>0, <1>2, <2>1, <2>2, <2>4, FanOutAgrees
  <2> QED
    BY <1>0, <2>1, <2>3, <2>4, PagesStay
<1>5. ASSUME Killed(c)
      PROVE  OwnPages' /\ CallsOwned' /\ WritesOwned' /\ FeedsAgree'
  BY <1>5, RelaunchAgrees DEF Killed
<1>6. ASSUME NEW e \in Entries, DeleteTripEntry(c, e)
      PROVE  OwnPages' /\ CallsOwned' /\ WritesOwned' /\ FeedsAgree'
  <2>1. /\ owner[e] = c /\ UNCHANGED <<page, feed, entries>> /\ Ages
        /\ e \in LocalEntries(c)
    BY <1>6 DEF DeleteTripEntry, Ages
  <2>2. PICK us \in SetToSeqs(me[c].followers) : Issue(c, FanOut("feedDel", c, us, e))
    BY <1>6 DEF DeleteTripEntry
  <2>3. PICK ks : ks = {[op |-> "drop", entry |-> e, n |-> presses]}
    OBVIOUS
  <2>4. e \in drawn'
    BY <1>0, <2>1, StandsDrawn DEF Ages
  <2>5. Await(c, ks) /\ \A k \in ks : CallOwned(c, k)'
    BY <1>6, <2>3, <2>4 DEF DeleteTripEntry, CallOwned
  <2>6. CallsOwned' /\ \A d \in Users \ {c} : DropsStay(d)
    BY <1>0, <2>1, <2>5, AwaitOwned
  <2>7. DropDue(c, e)' /\ \A f \in Entries \ {e} : DropDue(c, f)' <=> DropDue(c, f)
    <3>1. calls'[c] = calls[c] \cup ks
      BY <1>0, <2>5 DEF Await, TypeOK
    <3>2. \A k \in ks : k.op = "drop" /\ k.entry = e
      BY <2>3
    <3>3. \E k \in ks : TRUE
      BY <2>3
    <3>4. DropDue(c, e)'
      BY <3>1, <3>2, <3>3 DEF DropDue
    <3>5. ASSUME NEW f \in Entries \ {e} PROVE DropDue(c, f)' <=> DropDue(c, f)
      BY <3>1, <3>2 DEF DropDue
    <3> QED
      BY <3>4, <3>5
  <2>8. WritesOwned' /\ FeedsAgree'
    BY <1>0, <1>2, <2>1, <2>2, <2>6, <2>7, DropAgrees
  <2> QED
    BY <1>0, <2>1, <2>6, <2>8, PagesStay
<1> QED
  BY <1>1, <1>3, <1>4, <1>5, <1>6 DEF OwnStep

\* Without an answer an entry that stands is torn; one that is deleted stays deleted.
LEMMA DropFailsAgrees ==
  ASSUME OwnFeedInv, NEW c \in Users, NEW k \in calls[c], DropFails(c, k)
  PROVE  WritesOwned' /\ FeedsAgree'
<1>1. /\ TypeOK /\ CallsOwned /\ WritesOwned /\ FeedsAgree /\ k.op = "drop"
      /\ Resume(c, k, {}) /\ UNCHANGED <<pending, feed, entries, drawn>>
      /\ torn' = torn \cup ({k.entry} \cap LocalEntries(c))
      /\ Ages
  BY DEF OwnFeedInv, DropFails, server, Ages
<1>2. /\ calls'[c] = calls[c] \ {k}
      /\ \A d \in Users \ {c} : calls'[d] = calls[d]
  BY <1>1 DEF Resume, TypeOK
<1>3. WritesOwned'
  BY <1>1 DEF WritesOwned, WriteOwned
<1>4. ASSUME NEW d \in Users, NEW e \in Entries, owner[e] = d
      PROVE  Agrees(d, e)'
  <2>1. Agrees(d, e)
    BY <1>1, <1>4 DEF FeedsAgree
  <2>2. EntryStands(d, e)' = EntryStands(d, e) /\ FeedStands(d, e)' = FeedStands(d, e)
    BY <1>1 DEF EntryStands, FeedStands
  <2>3. CASE d # c \/ k.entry # e
    <3>1. DropDue(d, e)' <=> DropDue(d, e)
      BY <1>2, <2>3 DEF DropDue
    <3> QED
      BY <1>1, <2>1, <2>2, <3>1 DEF Agrees
  <2>4. CASE d = c /\ k.entry = e
    <3>1. CASE e \in LocalEntries(c)
      BY <1>1, <2>4, <3>1 DEF Agrees
    <3>2. CASE e \notin LocalEntries(c)
      <4>1. ~EntryStands(c, e)
        BY <1>1, <3>2, StandsIsLocal
      <4> QED
        BY <1>1, <2>1, <2>2, <2>4, <4>1 DEF Agrees
    <3> QED
      BY <3>1, <3>2
  <2> QED
    BY <2>3, <2>4
<1> QED
  BY <1>1, <1>3, <1>4 DEF FeedsAgree

LEMMA CallbackAgrees ==
  ASSUME OwnFeedInv, NEW c \in Users, NEW k \in calls[c],
         \/ OtherFetched(c, k)
         \/ MeFetched(c, k)
         \/ FeedFilled(c, k)
         \/ FillFails(c, k)
         \/ FeedCleared(c, k)
         \/ AcceptFetched(c, k)
         \/ UnfollowFetched(c, k)
         \/ SelfFetched(c, k)
         \/ EntryDropped(c, k)
         \/ DropFails(c, k)
  PROVE  OwnPages' /\ CallsOwned' /\ WritesOwned' /\ FeedsAgree'
<1> USE DEF server, screens, history
<1>0. /\ TypeOK /\ OwnPages /\ CallsOwned /\ WritesOwned /\ FeedsAgree
      /\ k \in Call /\ CallOwned(c, k)
      /\ k.op \notin {"self", "drop"} => k.uid \in Users
      /\ me[c] \in UserDoc
      /\ \A u \in Users : View(c, u) \in UserDoc
  <2>1. TypeOK /\ OwnPages /\ CallsOwned /\ WritesOwned /\ FeedsAgree
    BY DEF OwnFeedInv
  <2>2. k \in Call /\ me[c] \in UserDoc
    BY <2>1 DEF TypeOK
  <2>3. CallOwned(c, k)
    BY <2>1 DEF CallsOwned
  <2>4. k.op \notin {"self", "drop"} => k.uid \in Users
    BY <2>2 DEF Call
  <2>5. \A u \in Users : View(c, u) \in UserDoc
    BY <2>1, ViewType
  <2> QED
    BY <2>1, <2>2, <2>3, <2>4, <2>5
<1>1. ASSUME OtherFetched(c, k)
      PROVE  OwnPages' /\ CallsOwned' /\ WritesOwned' /\ FeedsAgree'
  <2>1. /\ k.uid \in Users /\ k.uid # c
        /\ Resume(c, k, {}) /\ UNCHANGED <<pending, feed, entries>>
        /\ k.op # "drop" /\ Ages
    BY <1>0, <1>1 DEF OtherFetched, CallOwned, Ages
  <2>4. CallsOwned' /\ \A d \in Users : DropsStay(d)
    BY <1>0, <2>1, ResumedOwned
  <2>2. PICK p \in Users : p = k.uid
    BY <2>1
  <2>3. PICK doc : page' = [page EXCEPT ![c][p] = doc]
    BY <1>1, <2>2 DEF OtherFetched
  <2> QED
    BY <1>0, <2>1, <2>2, <2>3, <2>4, PagesOwned, WritesKept
<1>2. ASSUME MeFetched(c, k)
      PROVE  OwnPages' /\ CallsOwned' /\ WritesOwned' /\ FeedsAgree'
  <2>1. k.op = "refreshMe" /\ k.uid # c /\ UNCHANGED <<page, pending, feed, entries>> /\ Ages
    BY <1>0, <1>2 DEF MeFetched, CallOwned, Ages
  <2>2. PICK ks : ks = {[k EXCEPT !.op = "refreshOther"]}
    OBVIOUS
  <2>3. [k EXCEPT !.op = "refreshOther"].op = "refreshOther"
        /\ [k EXCEPT !.op = "refreshOther"].uid = k.uid
    BY <1>0, <2>1 DEF Call
  <2>4. Resume(c, k, ks) /\ \A j \in ks : CallOwned(c, j)' /\ j.op # "drop"
    BY <1>2, <2>1, <2>2, <2>3 DEF MeFetched, CallOwned
  <2>5. CallsOwned' /\ \A d \in Users : DropsStay(d)
    BY <1>0, <2>1, <2>4, ResumeOwned
  <2> QED
    BY <1>0, <2>1, <2>5, PagesStay, WritesKept
<1>3. ASSUME FeedFilled(c, k)
      PROVE  OwnPages' /\ CallsOwned' /\ WritesOwned' /\ FeedsAgree'
  <2>1. Resume(c, k, {}) /\ UNCHANGED page /\ Ages
    BY <1>3 DEF FeedFilled, Ages
  <2> QED
    BY <1>0, <1>3, <2>1, PagesStay, ResumedOwned, FilledAgrees
<1>4. ASSUME FeedCleared(c, k)
      PROVE  OwnPages' /\ CallsOwned' /\ WritesOwned' /\ FeedsAgree'
  <2>1. Resume(c, k, {}) /\ UNCHANGED page /\ Ages
    BY <1>4 DEF FeedCleared, Ages
  <2> QED
    BY <1>0, <1>4, <2>1, PagesStay, ResumedOwned, ClearedAgrees
<1>5. ASSUME AcceptFetched(c, k)
      PROVE  OwnPages' /\ CallsOwned' /\ WritesOwned' /\ FeedsAgree'
  <2>1. /\ k.uid \in Users /\ Resume(c, k, {}) /\ UNCHANGED <<page, feed, entries>>
        /\ k.op # "drop" /\ Ages
    BY <1>0, <1>5 DEF AcceptFetched, Ages
  <2>5. CallsOwned' /\ \A d \in Users : DropsStay(d)
    BY <1>0, <2>1, ResumedOwned
  <2>2. PICK ws : ws = <<modifyFollowing(View(c, k.uid).following \cup {c}, k.uid)>>
    OBVIOUS
  <2>3. ws \in Seq(Mutation) /\ \A i \in DOMAIN ws : ws[i].op \in ListField \cup {"public"}
    BY <1>0, <2>1, <2>2, Shapes DEF UserDoc, modifyFollowing, ListField, Write
  <2>4. Issue(c, ws)
    BY <1>5, <2>2 DEF AcceptFetched
  <2> QED
    BY <1>0, <2>1, <2>3, <2>4, <2>5, PagesStay, IssueLists
<1>6. ASSUME UnfollowFetched(c, k)
      PROVE  OwnPages' /\ CallsOwned' /\ WritesOwned' /\ FeedsAgree'
  <2>1. k.uid \in Users /\ UNCHANGED <<page, feed, entries>> /\ Ages
    BY <1>0, <1>6 DEF UnfollowFetched, Ages
  <2>2. PICK ws : ws = unfollowUser(c, me[c].following, k.uid, View(c, k.uid).followers)
    OBVIOUS
  <2>3. ws \in Seq(Mutation) /\ \A i \in DOMAIN ws : ws[i].op \in ListField \cup {"public"}
    BY <1>0, <2>1, <2>2, Shapes
    DEF UserDoc, unfollowUser, modifyFollowing, modifyFollowers, ListField, Write
  <2>4. Issue(c, ws)
    BY <1>6, <2>2 DEF UnfollowFetched
  <2>5. PICK ks : ks = {[op |-> "self", n |-> k.n]}
    OBVIOUS
  <2>6. k.op # "drop" /\ Resume(c, k, ks) /\ \A j \in ks : CallOwned(c, j)' /\ j.op # "drop"
    BY <1>6, <2>5 DEF UnfollowFetched, CallOwned
  <2>7. CallsOwned' /\ \A d \in Users : DropsStay(d)
    BY <1>0, <2>1, <2>6, ResumeOwned
  <2> QED
    BY <1>0, <2>1, <2>3, <2>4, <2>7, PagesStay, IssueLists
<1>7. ASSUME SelfFetched(c, k)
      PROVE  OwnPages' /\ CallsOwned' /\ WritesOwned' /\ FeedsAgree'
  <2>1. /\ Resume(c, k, {}) /\ UNCHANGED <<page, pending, feed, entries>>
        /\ k.op # "drop" /\ Ages
    BY <1>7 DEF SelfFetched, Ages
  <2>2. CallsOwned' /\ \A d \in Users : DropsStay(d)
    BY <1>0, <2>1, ResumedOwned
  <2> QED
    BY <1>0, <2>1, <2>2, PagesStay, WritesKept
<1>8. ASSUME FillFails(c, k)
      PROVE  OwnPages' /\ CallsOwned' /\ WritesOwned' /\ FeedsAgree'
  <2>1. /\ Resume(c, k, {}) /\ UNCHANGED <<page, pending, feed, entries>>
        /\ k.op # "drop" /\ Ages
    BY <1>8 DEF FillFails, Ages
  <2>2. CallsOwned' /\ \A d \in Users : DropsStay(d)
    BY <1>0, <2>1, ResumedOwned
  <2> QED
    BY <1>0, <2>1, <2>2, PagesStay, WritesKept
<1>9. ASSUME EntryDropped(c, k)
      PROVE  OwnPages' /\ CallsOwned' /\ WritesOwned' /\ FeedsAgree'
  <2>1. Resume(c, k, {}) /\ UNCHANGED page /\ Ages
    BY <1>9 DEF EntryDropped, Ages
  <2>2. CallsOwned' /\ OwnPages'
    BY <1>0, <2>1, ResumedOwned, PagesStay
  <2>3. owner[k.entry] = c
    BY <1>0, <1>9 DEF CallOwned, EntryDropped
  <2>4. WritesOwned' /\ FeedsAgree'
    BY <1>9, <2>3, DroppedAgrees
  <2> QED
    BY <2>2, <2>4
<1>10. ASSUME DropFails(c, k)
       PROVE  OwnPages' /\ CallsOwned' /\ WritesOwned' /\ FeedsAgree'
  <2>1. /\ Resume(c, k, {}) /\ UNCHANGED <<page, pending, feed, entries>>
        /\ k.op = "drop" /\ Ages
        /\ torn' = torn \cup ({k.entry} \cap LocalEntries(c))
    BY <1>10 DEF DropFails, Ages
  <2>2. CallsOwned'
    BY <1>0, <2>1, ResumedOwned
  <2>3. WritesOwned' /\ FeedsAgree'
    BY <1>0, <1>10, <2>1, DropFailsAgrees
  <2> QED
    BY <1>0, <2>1, <2>2, <2>3, PagesStay
<1> QED
  BY <1>1, <1>2, <1>3, <1>4, <1>5, <1>6, <1>7, <1>8, <1>9, <1>10

\* A request goes to another's page.
LEMMA AskedStep ==
  ASSUME TypeOK, OwnPages, NobodyAsksOneself, [Next]_vars
  PROVE  NobodyAsksOneself'
<1> USE DEF server, screens, history
<1>1. CASE UNCHANGED vars
  BY <1>1 DEF NobodyAsksOneself, vars
<1>2. ASSUME NEW c \in Users, NEW p \in Users, RequestPressed(c, p)
      PROVE  NobodyAsksOneself'
  <2>1. p # c /\ (asked' = asked \/ asked' = asked \cup {<<c, p>>})
    BY <1>2 DEF RequestPressed, OwnPages
  <2>2. ASSUME NEW u \in Users PROVE <<u, u>> \notin asked'
    <3>1. <<u, u>> # <<c, p>> /\ <<u, u>> \notin asked
      BY <2>1 DEF NobodyAsksOneself
    <3> QED
      BY <2>1, <3>1
  <2> QED
    BY <2>2 DEF NobodyAsksOneself
<1>3. ASSUME NEW c \in Users, \E p \in Users : \/ OpenProfile(c, p)
                                             \/ FollowPressed(c, p)
                                             \/ UnfollowPressed(c, p)
                                             \/ FollowPressedTooEarly(c, p)
      PROVE  UNCHANGED asked
  BY <1>3 DEF OpenProfile, FollowPressed, UnfollowPressed, FollowPressedTooEarly, Relaunch
<1>4. ASSUME NEW c \in Users, ListStep(c)
      PROVE  UNCHANGED asked
  BY <1>4 DEF ListStep, OpenRequests, OpenFollowing, AcceptPressed, DenyPressed, ListUnfollowPressed
<1>5. ASSUME NEW c \in Users, OwnStep(c)
      PROVE  UNCHANGED asked
  BY <1>5 DEF OwnStep, TogglePrivacy, Publish, DeleteEntry, DeleteTripEntry, Killed, Relaunch
<1>6. ASSUME NEW c \in Users, CallbackStep(c)
      PROVE  UNCHANGED asked
  BY <1>6 DEF CallbackStep, OtherFetched, MeFetched, FeedFilled, FillFails, FeedCleared,
              AcceptFetched, UnfollowFetched, SelfFetched, EntryDropped, DropFails
<1>7. ASSUME NEW c \in Users, ListenerStep(c) \/ Commit(c)
      PROVE  UNCHANGED asked
  BY <1>7 DEF ListenerStep, Snapshot, ListenerFetched, Commit
<1>8. UNCHANGED asked => NobodyAsksOneself'
  BY DEF NobodyAsksOneself
<1>9. ASSUME NEW c \in Users, ProfileStep(c)
      PROVE  NobodyAsksOneself'
  <2>1. CASE \E p \in Users : RequestPressed(c, p)
    BY <1>2, <2>1
  <2>2. CASE ~\E p \in Users : RequestPressed(c, p)
    <3>1. UNCHANGED asked
      BY <1>3, <1>9, <2>2 DEF ProfileStep
    <3> QED
      BY <1>8, <3>1
  <2> QED
    BY <2>1, <2>2
<1>10. ASSUME NEW c \in Users, ListStep(c) \/ OwnStep(c) \/ NetworkStep(c)
       PROVE  NobodyAsksOneself'
  <2>1. UNCHANGED asked
    BY <1>4, <1>5, <1>6, <1>7, <1>10 DEF NetworkStep
  <2> QED
    BY <1>8, <2>1
<1> QED
  BY <1>1, <1>9, <1>10 DEF Next

LEMMA AgreesStep ==
  ASSUME OwnFeedInv, [Next]_vars
  PROVE  OwnFeedInv'
<1>1. TypeOK /\ TypeOK' /\ ConsentInv' /\ NobodyAsksOneself'
  BY TypeStep, ConsentStep, AskedStep DEF OwnFeedInv
<1>2. CASE UNCHANGED vars
  <2>1. UNCHANGED <<page, calls, pending, feed, entries>> /\ Ages
    BY <1>2 DEF vars, server, screens, history, Ages
  <2> QED
    BY <1>1, <2>1, PagesStay, CallsStay, WritesKept DEF OwnFeedInv
<1>3. ASSUME NEW c \in Users, ListenerStep(c)
      PROVE  OwnFeedInv'
  <2>1. UNCHANGED <<page, calls, pending, feed, entries>> /\ Ages
    BY <1>3 DEF ListenerStep, Snapshot, ListenerFetched, server, screens, history, Ages
  <2> QED
    BY <1>1, <2>1, PagesStay, CallsStay, WritesKept DEF OwnFeedInv
<1>4. ASSUME NEW c \in Users, Commit(c)
      PROVE  OwnFeedInv'
  <2>1. UNCHANGED <<page, calls>> /\ Ages
    BY <1>4 DEF Commit, screens, history, Ages
  <2> QED
    BY <1>1, <1>4, <2>1, PagesStay, CallsStay, CommitAgrees DEF OwnFeedInv
<1>5. ASSUME NEW c \in Users, ProfileStep(c) \/ ListStep(c) \/ OwnStep(c) \/ CallbackStep(c)
      PROVE  OwnFeedInv'
  <2>1. CASE CallbackStep(c)
    <3>1. PICK k \in calls[c] : \/ OtherFetched(c, k)
                               \/ MeFetched(c, k)
                               \/ FeedFilled(c, k)
                               \/ FillFails(c, k)
                               \/ FeedCleared(c, k)
                               \/ AcceptFetched(c, k)
                               \/ UnfollowFetched(c, k)
                               \/ SelfFetched(c, k)
                               \/ EntryDropped(c, k)
                               \/ DropFails(c, k)
      BY <2>1 DEF CallbackStep
    <3>2. OwnPages' /\ CallsOwned' /\ WritesOwned' /\ FeedsAgree'
      BY <3>1, CallbackAgrees
    <3> QED
      BY <1>1, <3>2 DEF OwnFeedInv
  <2>2. CASE ProfileStep(c) \/ ListStep(c) \/ OwnStep(c)
    <3>1. OwnPages' /\ CallsOwned' /\ WritesOwned' /\ FeedsAgree'
      BY <2>2, ProfileAgrees, ListAgrees, OwnAgrees
    <3> QED
      BY <1>1, <3>1 DEF OwnFeedInv
  <2> QED
    BY <1>5, <2>1, <2>2
<1> QED
  BY <1>2, <1>3, <1>4, <1>5 DEF Next, NetworkStep

LEMMA OwnFeedInit ==
  ASSUME Init
  PROVE  OwnFeedInv
<1>1. TypeOK /\ ConsentInv
  BY InitTypes, InitConsent
<1>2. OwnPages /\ CallsOwned /\ WritesOwned /\ NobodyAsksOneself
  BY DEF Init, OwnPages, Loaded, CallsOwned, WritesOwned, NobodyAsksOneself
<1>3. FeedsAgree
  BY DEF Init, FeedsAgree, Agrees, FeedStands, EntryStands, Says, DropDue
<1> QED
  BY <1>1, <1>2, <1>3 DEF OwnFeedInv

\* A device that has sent all its writes and waits for no read of a deletion left its
\* owner's feed and the collection entries agreeing on the owner's entries, all but those
\* whose writes a kill or a failed read cut short (addToFirebase and both deleteEntry
\* functions write them one by one; a fill and a clear touch another's feed): for any
\* number of users and entries, any interleaving and any relaunch.
THEOREM OwnFeedAlwaysMatches == Spec => []OwnFeedMatchesEntries
<1>1. Init => OwnFeedInv
  BY OwnFeedInit
<1>2. OwnFeedInv /\ [Next]_vars => OwnFeedInv'
  BY AgreesStep
<1>3. OwnFeedInv => OwnFeedMatchesEntries
  <2> SUFFICES ASSUME OwnFeedInv, NEW c \in Users, pending[c] = <<>>,
                      NEW e \in Entries \ torn, owner[e] = c,
                      \A k \in calls[c] : k.op = "drop" => k.entry # e
               PROVE  e \in feed[c] <=> e \in entries
    BY DEF OwnFeedMatchesEntries
  <2>1. Agrees(c, e) /\ ~DropDue(c, e)
    BY DEF OwnFeedInv, FeedsAgree, DropDue
  <2>2. FeedStands(c, e) = (e \in feed[c]) /\ EntryStands(c, e) = (e \in entries)
    BY DEF FeedStands, EntryStands, Says
  <2> QED
    BY <2>1, <2>2 DEF Agrees
<1> QED
  BY <1>1, <1>2, <1>3, PTL DEF Spec

-----------------------------------------------------------------------------
(* Users who take turns.  What the queue of the device at work will leave   *)
(* behind is followed through every step.                                   *)

FieldOf(field, u) == {m \in Mutation : m.op = field /\ m.uid = u}

\* What queue q makes of a stored value that the writes of W replace.
Reads(q, W, stored) ==
  LET hits == {i \in DOMAIN q : q[i] \in W}
  IN  IF hits = {} THEN stored ELSE q[Latest(hits)].val

LEMMA FieldRead ==
  ASSUME TypeOK, NEW c \in Users, NEW field, NEW u, NEW stored
  PROVE  LocalField(c, field, u, stored) = Reads(pending[c], FieldOf(field, u), stored)
<1> DEFINE q == pending[c]
<1>1. \A i \in DOMAIN q : q[i] \in Mutation
  BY DEF TypeOK
<1>2. {i \in DOMAIN q : q[i] \in FieldOf(field, u)}
        = {i \in DOMAIN q : q[i].op = field /\ q[i].uid = u}
  BY <1>1 DEF FieldOf
<1> QED
  BY <1>2 DEF LocalField, Reads

LEMMA ReadsAppended ==
  ASSUME NEW q \in Seq(Mutation), NEW ws \in Seq(Mutation), NEW W, NEW stored,
         \A m \in ToSet(ws) : m \notin W
  PROVE  Reads(q \o ws, W, stored) = Reads(q, W, stored)
<1> DEFINE n == Len(q)
<1> DEFINE old == {i \in DOMAIN q : q[i] \in W}
<1>1. \A i \in DOMAIN ws : ws[i] \notin W
  BY DEF ToSet
<1>2. PICK r : r = q \o ws
  OBVIOUS
<1>3. {i \in DOMAIN r : r[i] \in W} = old
  BY <1>1, <1>2, Joined
<1>4. old # {} => Latest(old) \in old
  <2>1. n \in Nat /\ old \in SUBSET (1..n)
    BY Joined
  <2> HIDE DEF old, n
  <2> QED
    BY <2>1, LatestExists
<1>5. old # {} => r[Latest(old)] = q[Latest(old)]
  BY <1>2, <1>4, Joined
<1> QED
  BY <1>2, <1>3, <1>5 DEF Reads

\* The writes of ws to the field W all say v.
AllSay(ws, W, v) == /\ \E m \in ToSet(ws) : m \in W
                    /\ \A m \in ToSet(ws) : m \in W => m.val = v

LEMMA ReadsReplaced ==
  ASSUME NEW q \in Seq(Mutation), NEW ws \in Seq(Mutation), NEW W, NEW v, NEW stored,
         AllSay(ws, W, v)
  PROVE  Reads(q \o ws, W, stored) = v
<1>1. PICK r : r = q \o ws
  OBVIOUS
<1> DEFINE n == Len(q)
<1> DEFINE all == {i \in DOMAIN r : r[i] \in W}
<1>2. /\ n \in Nat /\ Len(r) \in Nat /\ DOMAIN r = 1..Len(r)
      /\ \A i \in DOMAIN ws : n + i \in DOMAIN r /\ r[n + i] = ws[i]
      /\ \A i \in DOMAIN r : i \in 1..n \/ (i - n \in DOMAIN ws /\ r[i] = ws[i - n])
  BY <1>1, Joined
<1>3. PICK i \in DOMAIN ws : ws[i] \in W
  BY DEF AllSay, ToSet
<1>4. \A j \in DOMAIN ws : ws[j] \in ToSet(ws)
  BY DEF ToSet
<1>5. i \in Nat /\ i >= 1
  OBVIOUS
<1>6. n + i \in all /\ all \in SUBSET (1..Len(r))
  BY <1>2, <1>3
<1>7. Latest(all) \in all /\ \A j \in all : j <= Latest(all)
  <2> HIDE DEF all
  <2> QED
    BY <1>2, <1>6, LatestExists
<1>8. r[Latest(all)] \in W /\ r[Latest(all)] \in ToSet(ws)
  <2>1. PICK l \in DOMAIN r : l = Latest(all) /\ r[l] \in W /\ n + i <= l
    BY <1>6, <1>7
  <2>2. l - n \in DOMAIN ws /\ r[l] = ws[l - n]
    BY <1>2, <1>5, <2>1
  <2> QED
    BY <1>4, <2>1, <2>2
<1>9. Reads(r, W, stored) = r[Latest(all)].val
  <2>1. Reads(r, W, stored) = IF all = {} THEN stored ELSE r[Latest(all)].val
    BY DEF Reads
  <2> QED
    BY <1>6, <2>1
<1>10. \A m \in ToSet(ws) : m \in W => m.val = v
  BY DEF AllSay
<1> HIDE DEF all
<1> QED
  BY <1>1, <1>8, <1>9, <1>10

LEMMA ReadsSent ==
  ASSUME NEW q \in Seq(Mutation), q # <<>>, NEW W, NEW stored, NEW now,
         now = IF Head(q) \in W THEN Head(q).val ELSE stored
  PROVE  Reads(Tail(q), W, now) = Reads(q, W, stored)
<1> DEFINE t == Tail(q)
<1> DEFINE n == Len(t)
<1> DEFINE left == {i \in DOMAIN t : t[i] \in W}
<1> DEFINE all == {i \in DOMAIN q : q[i] \in W}
<1>1. /\ t \in Seq(Mutation) /\ n \in Nat /\ DOMAIN t = 1..n /\ DOMAIN q = 1..(n + 1)
      /\ Head(q) = q[1] /\ \A i \in 1..n : t[i] = q[i + 1]
  OBVIOUS
<1>2. /\ Reads(t, W, now) = IF left = {} THEN now ELSE t[Latest(left)].val
      /\ Reads(q, W, stored) = IF all = {} THEN stored ELSE q[Latest(all)].val
  BY DEF Reads
<1>3. /\ left \in SUBSET (1..n) /\ all \in SUBSET (1..(n + 1))
      /\ \A i \in 1..n : i \in left <=> q[i + 1] \in W
      /\ \A i \in 1..(n + 1) : i \in all <=> q[i] \in W
  BY <1>1
<1> HIDE DEF t, n, left, all
<1>4. CASE left = {}
  <2>1. \A i \in all : i = 1
    <3> SUFFICES ASSUME NEW i \in all, i # 1 PROVE FALSE
      OBVIOUS
    <3>1. i - 1 \in 1..n /\ (i - 1) + 1 = i
      BY <1>1, <1>3
    <3>2. q[(i - 1) + 1] \in W
      BY <1>3, <3>1
    <3> QED
      BY <1>3, <1>4, <3>1, <3>2
  <2>2. CASE Head(q) \in W
    <3>1. 1 \in all
      BY <1>1, <1>3, <2>2
    <3>2. all \in SUBSET Nat /\ \A i \in all : i <= 1
      BY <1>3, <2>1
    <3>3. Latest(all) = 1
      BY <3>1, <3>2, LatestIs
    <3> QED
      BY <1>1, <1>2, <1>4, <2>2, <3>1, <3>3 DEF t
  <2>3. CASE Head(q) \notin W
    <3>1. all = {}
      BY <1>1, <1>3, <2>1, <2>3
    <3> QED
      BY <1>2, <1>4, <2>3, <3>1 DEF t
  <2> QED
    BY <2>2, <2>3
<1>5. CASE left # {}
  <2> PICK l \in left : l = Latest(left)
    BY <1>1, <1>3, <1>5, LatestExists
  <2>1. \A j \in left : j <= l
    BY <1>1, <1>3, <1>5, LatestExists
  <2>2. l \in 1..n /\ l + 1 \in 1..(n + 1) /\ q[l + 1] \in W
    BY <1>1, <1>3
  <2>3. l + 1 \in all /\ all \in SUBSET Nat
    BY <1>3, <2>2
  <2>4. ASSUME NEW j \in all PROVE j <= l + 1
    <3>1. CASE j = 1
      BY <1>1, <2>2, <3>1
    <3>2. CASE j # 1
      <4>1. j - 1 \in 1..n /\ (j - 1) + 1 = j
        BY <1>1, <1>3, <3>2
      <4>2. q[(j - 1) + 1] \in W
        BY <1>3, <4>1
      <4>3. j - 1 <= l
        BY <1>3, <2>1, <4>1, <4>2
      <4> QED
        BY <2>2, <4>1, <4>3
    <3> QED
      BY <3>1, <3>2
  <2>5. Latest(all) = l + 1
    BY <2>3, <2>4, LatestIs
  <2> QED
    BY <1>1, <1>2, <1>5, <2>2, <2>3, <2>5 DEF t
<1> QED
  BY <1>4, <1>5 DEF t

\* Documents, feeds and entries as device c's queue will leave them.
Fans(c, u)   == Reads(pending[c], FieldOf("followers", u), followers[u])
Idols(c, u)  == Reads(pending[c], FieldOf("following", u), following[u])
Asks(c, u)   == Reads(pending[c], FieldOf("requests", u), requests[u])
Open(c, u)   == Reads(pending[c], FieldOf("public", u), public[u])
Fed(c, u, e) == Says(pending[c], FeedOf(u, e), "feedSet", e \in feed[u])

SameGraph(c) == \A u \in Users : Fans(c, u)' = Fans(c, u) /\ Idols(c, u)' = Idols(c, u)
SameRest(c)  == \A u \in Users : Asks(c, u)' = Asks(c, u) /\ Open(c, u)' = Open(c, u)
SameFeeds(c) == \A e \in Entries :
                  /\ EntryStands(c, e)' = EntryStands(c, e)
                  /\ \A u \in Users : Fed(c, u, e)' = Fed(c, u, e)

LEMMA FieldsType ==
  ASSUME TypeOK, NEW c \in Users, NEW u \in Users
  PROVE  /\ Fans(c, u) \in SUBSET Users /\ Idols(c, u) \in SUBSET Users
         /\ Asks(c, u) \in SUBSET Users /\ Open(c, u) \in BOOLEAN
         /\ View(c, u) = [followers |-> Fans(c, u), following |-> Idols(c, u),
                          requests |-> Asks(c, u), public |-> Open(c, u)]
<1>1. View(c, u) = [followers |-> Fans(c, u), following |-> Idols(c, u),
                    requests |-> Asks(c, u), public |-> Open(c, u)]
  BY FieldRead DEF View, Fans, Idols, Asks, Open
<1>2. View(c, u) \in UserDoc
  BY ViewType
<1> QED
  BY <1>1, <1>2 DEF UserDoc

\* A device that has sent everything sees what is stored.
LEMMA NothingQueued ==
  ASSUME NEW c \in Users, pending[c] = <<>>
  PROVE  /\ \A u \in Users : /\ Fans(c, u) = followers[u] /\ Idols(c, u) = following[u]
                             /\ Asks(c, u) = requests[u] /\ Open(c, u) = public[u]
         /\ \A e \in Entries : /\ EntryStands(c, e) = (e \in entries)
                               /\ \A u \in Users : Fed(c, u, e) = (e \in feed[u])
BY DEF Fans, Idols, Asks, Open, Fed, EntryStands, Reads, Says

LEMMA NothingIssued ==
  ASSUME NEW c \in Users, UNCHANGED server, pending'[c] = pending[c]
  PROVE  SameGraph(c) /\ SameRest(c) /\ SameFeeds(c)
BY DEF server, SameGraph, SameRest, SameFeeds, Fans, Idols, Asks, Open, Fed, EntryStands

\* The server applies a write: the device that made it sees no difference.
LEMMA CommitSeen ==
  ASSUME TypeOK, NEW c \in Users, Commit(c)
  PROVE  SameGraph(c) /\ SameRest(c) /\ SameFeeds(c)
<1> DEFINE q == pending[c]
<1> DEFINE m == Head(q)
<1>1. /\ q \in Seq(Mutation) /\ q # <<>> /\ m \in Mutation /\ pending'[c] = Tail(q)
      /\ m.op \in ListField \cup {"public", "feedSet", "feedDel"} => m.uid \in Users
  BY MutationTypes DEF TypeOK, Commit
<1>2. ASSUME NEW u \in Users
      PROVE  /\ followers'[u] = IF m \in FieldOf("followers", u) THEN m.val ELSE followers[u]
             /\ following'[u] = IF m \in FieldOf("following", u) THEN m.val ELSE following[u]
             /\ requests'[u] = IF m \in FieldOf("requests", u) THEN m.val ELSE requests[u]
             /\ public'[u] = IF m \in FieldOf("public", u) THEN m.val ELSE public[u]
  <2> HIDE DEF q
  <2>1. \A field : m \in FieldOf(field, u) <=> m.op = field /\ m.uid = u
    BY <1>1 DEF FieldOf
  <2> QED
    BY <1>1, <2>1 DEF Commit, TypeOK, ListField, q
<1>3. ASSUME NEW e \in Entries
      PROVE  (e \in entries') = (IF m \in EntryOf(e) THEN m.op = "entrySet" ELSE e \in entries)
  BY <1>1 DEF EntryOf, Commit
<1>4. ASSUME NEW e \in Entries, NEW u \in Users
      PROVE  (e \in feed'[u]) = (IF m \in FeedOf(u, e) THEN m.op = "feedSet" ELSE e \in feed[u])
  <2> HIDE DEF q
  <2>1. feed \in [Users -> SUBSET Entries]
    BY DEF TypeOK
  <2>2. CASE m.op \in {"feedSet", "feedDel"} /\ m.uid = u
    BY <1>1, <2>1, <2>2 DEF FeedOf, Commit, q
  <2>3. CASE ~(m.op \in {"feedSet", "feedDel"} /\ m.uid = u)
    BY <1>1, <2>1, <2>3 DEF FeedOf, Commit, q
  <2> QED
    BY <2>2, <2>3
<1> HIDE DEF q, m
<1>5. SameGraph(c)
  BY <1>1, <1>2, ReadsSent DEF SameGraph, Fans, Idols, m, q
<1>6. SameRest(c)
  BY <1>1, <1>2, ReadsSent DEF SameRest, Asks, Open, m, q
<1>7. SameFeeds(c)
  <2> SUFFICES ASSUME NEW e \in Entries
               PROVE  /\ EntryStands(c, e)' = EntryStands(c, e)
                      /\ \A u \in Users : Fed(c, u, e)' = Fed(c, u, e)
    BY DEF SameFeeds
  <2>1. EntryStands(c, e)' = EntryStands(c, e)
    BY <1>1, <1>3, SaysSent DEF EntryStands, m, q
  <2>2. ASSUME NEW u \in Users
        PROVE  Fed(c, u, e)' = Fed(c, u, e)
    BY <1>1, <1>4, SaysSent DEF Fed, m, q
  <2> QED
    BY <2>1, <2>2
<1> QED
  BY <1>5, <1>6, <1>7

LEMMA OneRead ==
  ASSUME NEW q \in Seq(Mutation), NEW m \in Mutation, NEW field, NEW u, NEW stored
  PROVE  Reads(q \o <<m>>, FieldOf(field, u), stored)
           = IF m.op = field /\ m.uid = u THEN m.val ELSE Reads(q, FieldOf(field, u), stored)
<1>1. PICK ws : ws = <<m>>
  OBVIOUS
<1>2. ws \in Seq(Mutation) /\ ToSet(ws) = {m}
  BY <1>1 DEF ToSet
<1>3. m \in FieldOf(field, u) <=> m.op = field /\ m.uid = u
  BY DEF FieldOf
<1> DEFINE W == FieldOf(field, u)
<1> HIDE DEF W
<1>4. CASE m \in W
  <2>1. AllSay(ws, W, m.val)
    BY <1>2, <1>4 DEF AllSay
  <2>2. Reads(q \o ws, W, stored) = m.val
    BY <1>2, <2>1, ReadsReplaced
  <2> QED
    BY <1>1, <1>3, <1>4, <2>2 DEF W
<1>5. CASE m \notin W
  <2>1. \A x \in ToSet(ws) : x \notin W
    BY <1>2, <1>5
  <2>2. Reads(q \o ws, W, stored) = Reads(q, W, stored)
    BY <1>2, <2>1, ReadsAppended
  <2> QED
    BY <1>1, <1>3, <1>5, <2>2 DEF W
<1> QED
  BY <1>4, <1>5

LEMMA PairRead ==
  ASSUME NEW q \in Seq(Mutation), NEW m \in Mutation, NEW w \in Mutation, m.op # w.op,
         NEW field, NEW u, NEW stored
  PROVE  Reads(q \o <<m, w>>, FieldOf(field, u), stored)
           = IF m.op = field /\ m.uid = u THEN m.val
             ELSE IF w.op = field /\ w.uid = u THEN w.val
             ELSE Reads(q, FieldOf(field, u), stored)
<1>1. PICK ws : ws = <<m, w>>
  OBVIOUS
<1>2. ws \in Seq(Mutation) /\ ToSet(ws) = {m, w}
  BY <1>1 DEF ToSet
<1>3. /\ m \in FieldOf(field, u) <=> m.op = field /\ m.uid = u
      /\ w \in FieldOf(field, u) <=> w.op = field /\ w.uid = u
      /\ ~(m \in FieldOf(field, u) /\ w \in FieldOf(field, u))
  BY DEF FieldOf
<1> DEFINE W == FieldOf(field, u)
<1> HIDE DEF W
<1>4. CASE m \in W
  <2>1. AllSay(ws, W, m.val)
    BY <1>2, <1>3, <1>4 DEF W, AllSay
  <2>2. Reads(q \o ws, W, stored) = m.val
    BY <1>2, <2>1, ReadsReplaced
  <2> QED
    BY <1>1, <1>3, <1>4, <2>2 DEF W
<1>5. CASE w \in W
  <2>1. AllSay(ws, W, w.val)
    BY <1>2, <1>3, <1>5 DEF W, AllSay
  <2>2. Reads(q \o ws, W, stored) = w.val
    BY <1>2, <2>1, ReadsReplaced
  <2> QED
    BY <1>1, <1>3, <1>5, <2>2 DEF W
<1>6. CASE m \notin W /\ w \notin W
  <2>1. \A x \in ToSet(ws) : x \notin W
    BY <1>2, <1>6
  <2>2. Reads(q \o ws, W, stored) = Reads(q, W, stored)
    BY <1>2, <2>1, ReadsAppended
  <2> QED
    BY <1>1, <1>3, <1>6, <2>2 DEF W
<1> QED
  BY <1>4, <1>5, <1>6

\* Writes of lists and of the privacy switch leave the feeds alone, writes of
\* entries and feeds the lists.
LEMMA FeedsUnwritten ==
  ASSUME TypeOK, NEW c \in Users, NEW ws \in Seq(Mutation), Issue(c, ws), UNCHANGED server,
         \A m \in ToSet(ws) : m.op \in ListField \cup {"public"}
  PROVE  SameFeeds(c)
<1>1. pending'[c] = pending[c] \o ws /\ pending[c] \in Seq(Mutation)
      /\ UNCHANGED <<feed, entries>>
  BY DEF Issue, TypeOK, server
<1>2. \A m \in ToSet(ws) : m.op \notin {"entrySet", "entryDel", "feedSet", "feedDel"}
  BY DEF ListField
<1> SUFFICES ASSUME NEW e \in Entries
             PROVE  /\ EntryStands(c, e)' = EntryStands(c, e)
                    /\ \A u \in Users : Fed(c, u, e)' = Fed(c, u, e)
  BY DEF SameFeeds
<1>3. EntryStands(c, e)' = EntryStands(c, e)
  <2>1. \A m \in ToSet(ws) : m \notin EntryOf(e)
    BY <1>2 DEF EntryOf
  <2> QED
    BY <1>1, <2>1, SaysAppended DEF EntryStands
<1>4. ASSUME NEW u \in Users
      PROVE  Fed(c, u, e)' = Fed(c, u, e)
  <2>1. \A m \in ToSet(ws) : m \notin FeedOf(u, e)
    BY <1>2 DEF FeedOf
  <2> QED
    BY <1>1, <2>1, SaysAppended DEF Fed
<1> QED
  BY <1>3, <1>4

LEMMA ListsUnwritten ==
  ASSUME TypeOK, NEW c \in Users, NEW ws \in Seq(Mutation), Issue(c, ws), UNCHANGED server,
         \A m \in ToSet(ws) : m.op \in {"entrySet", "entryDel", "feedSet", "feedDel"}
  PROVE  SameGraph(c) /\ SameRest(c)
<1>1. pending'[c] = pending[c] \o ws /\ pending[c] \in Seq(Mutation)
      /\ UNCHANGED <<followers, following, requests, public>>
  BY DEF Issue, TypeOK, server
<1>2. \A field \in ListField \cup {"public"}, u \in Users :
        \A m \in ToSet(ws) : m \notin FieldOf(field, u)
  BY DEF FieldOf, ListField
<1>3. ASSUME NEW field \in ListField \cup {"public"}, NEW u \in Users, NEW s
      PROVE  Reads(pending'[c], FieldOf(field, u), s) = Reads(pending[c], FieldOf(field, u), s)
  <2> DEFINE W == FieldOf(field, u)
  <2>1. \A m \in ToSet(ws) : m \notin W
    BY <1>2
  <2> HIDE DEF W
  <2>2. Reads(pending[c] \o ws, W, s) = Reads(pending[c], W, s)
    BY <1>1, <2>1, ReadsAppended
  <2> QED
    BY <1>1, <2>2 DEF W
<1>4. SameGraph(c)
  BY <1>1, <1>3 DEF SameGraph, Fans, Idols, ListField
<1>5. SameRest(c)
  BY <1>1, <1>3 DEF SameRest, Asks, Open, ListField
<1> QED
  BY <1>4, <1>5

\* What m leaves in a field, and what was there.
Put(m, field, u, old) == IF m.op = field /\ m.uid = u THEN m.val ELSE old

LEMMA OneSeen ==
  ASSUME TypeOK, NEW c \in Users, NEW m \in Mutation, m.op \in ListField \cup {"public"},
         Issue(c, <<m>>), UNCHANGED server
  PROVE  /\ SameFeeds(c)
         /\ \A u \in Users : /\ Fans(c, u)' = Put(m, "followers", u, Fans(c, u))
                             /\ Idols(c, u)' = Put(m, "following", u, Idols(c, u))
                             /\ Asks(c, u)' = Put(m, "requests", u, Asks(c, u))
                             /\ Open(c, u)' = Put(m, "public", u, Open(c, u))
<1>1. pending'[c] = pending[c] \o <<m>> /\ pending[c] \in Seq(Mutation)
      /\ UNCHANGED <<followers, following, requests, public>>
  BY DEF Issue, TypeOK, server
<1>6. <<m>> \in Seq(Mutation)
  OBVIOUS
<1>2. PICK ws \in Seq(Mutation) : ws = <<m>>
  BY <1>6
<1>3. SameFeeds(c)
  <2>1. \A w \in ToSet(ws) : w.op \in ListField \cup {"public"}
    BY <1>2 DEF ToSet
  <2> QED
    BY <1>2, <2>1, FeedsUnwritten
<1>4. ASSUME NEW u \in Users
      PROVE  /\ Fans(c, u)' = Put(m, "followers", u, Fans(c, u))
             /\ Idols(c, u)' = Put(m, "following", u, Idols(c, u))
             /\ Asks(c, u)' = Put(m, "requests", u, Asks(c, u))
             /\ Open(c, u)' = Put(m, "public", u, Open(c, u))
  BY <1>1, OneRead DEF Fans, Idols, Asks, Open, Put
<1> QED
  BY <1>3, <1>4

LEMMA PairSeen ==
  ASSUME TypeOK, NEW c \in Users, NEW m \in Mutation, NEW w \in Mutation, m.op # w.op,
         m.op \in ListField, w.op \in ListField, Issue(c, <<m, w>>), UNCHANGED server
  PROVE  /\ SameFeeds(c)
         /\ \A u \in Users :
              /\ Fans(c, u)' = Put(m, "followers", u, Put(w, "followers", u, Fans(c, u)))
              /\ Idols(c, u)' = Put(m, "following", u, Put(w, "following", u, Idols(c, u)))
              /\ Asks(c, u)' = Put(m, "requests", u, Put(w, "requests", u, Asks(c, u)))
              /\ Open(c, u)' = Open(c, u)
<1>1. pending'[c] = pending[c] \o <<m, w>> /\ pending[c] \in Seq(Mutation)
      /\ UNCHANGED <<followers, following, requests, public>>
  BY DEF Issue, TypeOK, server
<1>6. <<m, w>> \in Seq(Mutation)
  OBVIOUS
<1>2. PICK ws \in Seq(Mutation) : ws = <<m, w>>
  BY <1>6
<1>3. SameFeeds(c)
  <2>1. \A x \in ToSet(ws) : x.op \in ListField \cup {"public"}
    BY <1>2 DEF ToSet
  <2> QED
    BY <1>2, <2>1, FeedsUnwritten
<1>4. ASSUME NEW u \in Users
      PROVE  /\ Fans(c, u)' = Put(m, "followers", u, Put(w, "followers", u, Fans(c, u)))
             /\ Idols(c, u)' = Put(m, "following", u, Put(w, "following", u, Idols(c, u)))
             /\ Asks(c, u)' = Put(m, "requests", u, Put(w, "requests", u, Asks(c, u)))
             /\ Open(c, u)' = Open(c, u)
  <2>1. m.op # "public" /\ w.op # "public"
    BY DEF ListField
  <2> QED
    BY <1>1, <2>1, PairRead DEF Fans, Idols, Asks, Open, Put
<1> QED
  BY <1>3, <1>4

-----------------------------------------------------------------------------
(* One device at work: what holds between its steps.                       *)

Due(c, op, u) == \E k \in calls[c] : k.op = op /\ k.uid = u
FillDue(c, f, u) == \E k \in calls[c] : k.op = "fill" /\ k.uid = f /\ k.from = u

Idle(d) == calls[d] = {} /\ pending[d] = <<>>
OthersIdle(c) == \A d \in Users \ {c} : Idle(d)

\* The two records of a follow agree, but for a requester accepted whose own
\* document has not been read yet.
Mirror(c) ==
  \A f, u \in Users : f \in Fans(c, u) <=> (u \in Idols(c, f) \/ (u = c /\ Due(c, "accept", f)))

\* An outstanding callback finds what the button that asked for it left.
CallsFit(c) ==
  \A k \in calls[c] :
    /\ k.op = "unfollow" => /\ calls[c] = {k}
                            /\ me[c].following = Idols(c, c)
                            /\ k.uid \in Idols(c, c)
                            /\ <<c, k.uid>> \in kept
    /\ k.op = "drop" => calls[c] = {k}
    /\ k.op = "clear" => c \notin Fans(c, k.uid)
    /\ k.op = "fill" => k.uid \in Fans(c, k.from)

\* A follower's feed has what stands, or a fill is on its way or has failed, or the
\* entry is about to go or should have gone.
Complete(c) ==
  Cardinality(Entries) <= FillLimit =>
    \A e \in Entries, f \in Users :
      EntryStands(c, e) /\ f \in Fans(c, owner[e]) => \/ Fed(c, f, e)
                                                      \/ FillDue(c, f, owner[e])
                                                      \/ <<f, e>> \in missed
                                                      \/ DropDue(c, e) \/ e \in torn

\* The readers of an author are its followers and itself.
Readers(c, u) == Fans(c, u) \cup {u}

\* A feed lists nothing else, or a clear is on its way.
Exact(c) ==
  \A e \in Entries, f \in Users :
    Fed(c, f, e) => \/ EntryStands(c, e) /\ f \in Readers(c, owner[e]) /\ ~DropDue(c, e)
                    \/ <<f, owner[e]>> \in kept
                    \/ f = c /\ Due(c, "clear", owner[e])

Alone(c) == OthersIdle(c) /\ Mirror(c) /\ CallsFit(c) /\ Complete(c) /\ Exact(c)

\* Callbacks that say what happens to a follow or a feed.
Telling == {"accept", "unfollow", "clear", "fill", "drop"}

SameDue(c) == \A k : k.op \in Telling => (k \in calls'[c] <=> k \in calls[c])

\* The callbacks that are due alone.
Lone == {"unfollow", "drop"}

LoneWaits(c) ==
  \A k \in calls[c] : k.op \in Lone => /\ calls'[c] = calls[c]
                                       /\ \/ me'[c].following = me[c].following
                                          \/ me'[c].following = Idols(c, c)'

\* A step that changes neither lists nor feeds nor what is due.
LEMMA AloneKept ==
  ASSUME NEW c \in Users, Alone(c), OthersIdle(c)', SameGraph(c), SameFeeds(c), SameDue(c),
         LoneWaits(c), UNCHANGED <<kept, missed, torn>>, owner \in [Entries -> Users],
         \A k \in calls'[c] : k.op \in {"clear", "unfollow"} => k.uid \in Users,
         \A k \in calls'[c] : k.op = "fill" => k.from \in Users
  PROVE  Alone(c)'
<1>1. \A op, u : op \in Telling => (Due(c, op, u)' <=> Due(c, op, u))
  BY DEF Due, SameDue
<1>2. \A f, u : FillDue(c, f, u)' <=> FillDue(c, f, u)
  BY DEF FillDue, SameDue, Telling
<1>9. \A e : DropDue(c, e)' <=> DropDue(c, e)
  BY DEF DropDue, SameDue, Telling
<1>3. \A u \in Users : Fans(c, u)' = Fans(c, u) /\ Idols(c, u)' = Idols(c, u)
  BY DEF SameGraph
<1>4. \A e \in Entries : owner[e] \in Users /\ EntryStands(c, e)' = EntryStands(c, e)
                         /\ \A u \in Users : Fed(c, u, e)' = Fed(c, u, e)
  BY DEF SameFeeds
<1>5. Mirror(c)'
  BY <1>1, <1>3 DEF Alone, Mirror, Telling
<1>6. CallsFit(c)'
  <2> SUFFICES ASSUME NEW k \in calls'[c]
               PROVE  /\ k.op = "unfollow" => /\ calls'[c] = {k}
                                              /\ me'[c].following = Idols(c, c)'
                                              /\ k.uid \in Idols(c, c)'
                                              /\ <<c, k.uid>> \in kept'
                      /\ k.op = "drop" => calls'[c] = {k}
                      /\ k.op = "clear" => c \notin Fans(c, k.uid)'
                      /\ k.op = "fill" => k.uid \in Fans(c, k.from)'
    BY DEF CallsFit
  <2>1. k.op \in Telling => k \in calls[c]
    BY DEF SameDue
  <2>2. CASE k.op = "unfollow"
    BY <1>3, <2>1, <2>2 DEF Alone, CallsFit, LoneWaits, Telling, Lone
  <2>5. CASE k.op = "drop"
    BY <2>1, <2>5 DEF Alone, CallsFit, LoneWaits, Telling, Lone
  <2>3. CASE k.op = "clear"
    BY <1>3, <2>1, <2>3 DEF Alone, CallsFit, Telling
  <2>4. CASE k.op = "fill"
    BY <1>3, <2>1, <2>4 DEF Alone, CallsFit, Telling
  <2> QED
    BY <2>2, <2>3, <2>4, <2>5
<1>7. Complete(c)'
  BY <1>2, <1>3, <1>4, <1>9 DEF Alone, Complete
<1>8. Exact(c)'
  BY <1>1, <1>3, <1>4, <1>9 DEF Alone, Exact, Readers, Telling
<1> QED
  BY <1>5, <1>6, <1>7, <1>8 DEF Alone

\* When everything has settled any device may be the next to work.
LEMMA QuietTurns ==
  ASSUME TypeOK, Quiet, NEW b \in Users, Alone(b), NEW c \in Users
  PROVE  Alone(c)
<1>1. \A d \in Users : calls[d] = {} /\ pending[d] = <<>>
  BY DEF Quiet
<1>2. \A u \in Users : Fans(b, u) = Fans(c, u) /\ Idols(b, u) = Idols(c, u)
  BY <1>1, NothingQueued
<1>3. \A e \in Entries : /\ EntryStands(b, e) = EntryStands(c, e)
                         /\ \A u \in Users : Fed(b, u, e) = Fed(c, u, e)
  BY <1>1, NothingQueued
<1>4. /\ \A op, u : ~Due(b, op, u) /\ ~Due(c, op, u) /\ ~FillDue(b, op, u)
      /\ \A e : ~DropDue(b, e) /\ ~DropDue(c, e)
  BY <1>1 DEF Due, FillDue, DropDue
<1>5. \A e \in Entries : owner[e] \in Users
  BY OwnerAssumption
<1>6. OthersIdle(c) /\ CallsFit(c)
  BY <1>1 DEF OthersIdle, Idle, CallsFit
<1>7. Mirror(c)
  BY <1>2, <1>4 DEF Alone, Mirror
<1>8. Complete(c)
  BY <1>2, <1>3, <1>4, <1>5 DEF Alone, Complete
<1>9. Exact(c)
  BY <1>2, <1>3, <1>4, <1>5 DEF Alone, Exact, Readers
<1> QED
  BY <1>6, <1>7, <1>8, <1>9 DEF Alone

\* What a press finds.
LEMMA PressFinds ==
  ASSUME TypeOK, Serialized, NEW fresh, Press(fresh), NEW c \in Users
  PROVE  /\ Quiet /\ fresh
         /\ \A d \in Users : calls[d] = {} /\ pending[d] = <<>>
         /\ me[c].followers = Fans(c, c) /\ me[c].following = Idols(c, c)
         /\ me[c].requests = Asks(c, c) /\ me[c].public = Open(c, c)
<1>1. Quiet /\ fresh
  BY DEF Press
<1>2. me[c] = View(c, c)
  BY <1>1 DEF Quiet
<1> QED
  BY <1>1, <1>2, FieldsType DEF Quiet

LEMMA PageShows ==
  ASSUME TypeOK, NEW c \in Users, NEW p \in Users, PageFresh(c, p)
  PROVE  /\ page[c][p].followers = Fans(c, p) /\ page[c][p].following = Idols(c, p)
         /\ page[c][p].requests = Asks(c, p) /\ page[c][p].public = Open(c, p)
BY FieldsType DEF PageFresh

LEMMA AwaitedAlone ==
  ASSUME TypeOK, NEW c \in Users, NEW ks, calls[c] = {}, Await(c, ks)
  PROVE  calls'[c] = ks /\ \A d \in Users \ {c} : calls'[d] = calls[d]
BY DEF TypeOK, Await

LEMMA ResumedAlone ==
  ASSUME TypeOK, NEW c \in Users, NEW k, NEW ks, Resume(c, k, ks)
  PROVE  calls'[c] = (calls[c] \ {k}) \cup ks /\ \A d \in Users \ {c} : calls'[d] = calls[d]
BY DEF TypeOK, Resume

LEMMA IssuedAlone ==
  ASSUME TypeOK, NEW c \in Users, NEW ws, Issue(c, ws)
  PROVE  \A d \in Users \ {c} : pending'[d] = pending[d]
BY DEF TypeOK, Issue

LEMMA StillIdle ==
  ASSUME NEW c \in Users, OthersIdle(c),
         \A d \in Users \ {c} : calls'[d] = calls[d],
         \A d \in Users \ {c} : pending'[d] = pending[d]
  PROVE  OthersIdle(c)'
BY DEF OthersIdle, Idle

-----------------------------------------------------------------------------
(* The relation of FollowSpec, as device c's queue will leave it.          *)

FansBecome(c, u, S) == \A v \in Users : Fans(c, v)' = IF v = u THEN S ELSE Fans(c, v)
AsksBecome(c, u, S) == \A v \in Users : Asks(c, v)' = IF v = u THEN S ELSE Asks(c, v)
OpenBecome(c, u, b) == \A v \in Users : Open(c, v)' = IF v = u THEN b ELSE Open(c, v)

FansStay(c) == \A v \in Users : Fans(c, v)' = Fans(c, v)
AsksStay(c) == \A v \in Users : Asks(c, v)' = Asks(c, v)
OpenStay(c) == \A v \in Users : Open(c, v)' = Open(c, v)

Follows(c, p) == /\ p # c /\ c \notin Fans(c, p) /\ Open(c, p)
                 /\ FansBecome(c, p, Fans(c, p) \cup {c}) /\ AsksStay(c) /\ OpenStay(c)

Requests(c, p) == /\ p # c /\ c \notin Fans(c, p) /\ c \notin Asks(c, p) /\ ~Open(c, p)
                  /\ FansStay(c) /\ AsksBecome(c, p, Asks(c, p) \cup {c}) /\ OpenStay(c)

Accepts(c, r) == /\ r \in Asks(c, c)
                 /\ FansBecome(c, c, Fans(c, c) \cup {r})
                 /\ AsksBecome(c, c, Asks(c, c) \ {r}) /\ OpenStay(c)

Denies(c, r) == /\ r \in Asks(c, c)
                /\ FansStay(c) /\ AsksBecome(c, c, Asks(c, c) \ {r}) /\ OpenStay(c)

Unfollows(c, p) == /\ c \in Fans(c, p)
                   /\ FansBecome(c, p, Fans(c, p) \ {c}) /\ AsksStay(c) /\ OpenStay(c)

Switches(c, b) == FansStay(c) /\ AsksStay(c) /\ OpenBecome(c, c, b)

Rests(c) == FansStay(c) /\ AsksStay(c) /\ OpenStay(c)

Moves(c) == \/ Rests(c)
            \/ \E p \in Users : \/ Follows(c, p)
                                \/ Requests(c, p)
                                \/ Accepts(c, p)
                                \/ Denies(c, p)
                                \/ Unfollows(c, p)
            \/ \E b \in BOOLEAN : Switches(c, b)

LEMMA RestsFrom ==
  ASSUME NEW c \in Users, SameGraph(c), SameRest(c)
  PROVE  Rests(c)
BY DEF SameGraph, SameRest, Rests, FansStay, AsksStay, OpenStay

-----------------------------------------------------------------------------
(* The buttons of a profile page.                                          *)

\* Presses that leave lists and feeds alone: nothing was due, and what is due now
\* tells nothing about a follow.
LEMMA QuietPress ==
  ASSUME TypeOK, NEW c \in Users, Alone(c), calls[c] = {}, SameGraph(c), SameFeeds(c),
         UNCHANGED <<kept, missed, torn>>,
         \A k \in calls'[c] : k.op \notin Telling,
         \A d \in Users \ {c} : calls'[d] = calls[d],
         \A d \in Users \ {c} : pending'[d] = pending[d]
  PROVE  Alone(c)'
<1>1. OthersIdle(c)'
  BY StillIdle DEF Alone
<1>2. SameDue(c) /\ LoneWaits(c)
  BY DEF SameDue, LoneWaits
<1>3. /\ \A k \in calls'[c] : k.op \in {"clear", "unfollow"} => k.uid \in Users
      /\ \A k \in calls'[c] : k.op = "fill" => k.from \in Users
  BY DEF Telling
<1> QED
  BY <1>1, <1>2, <1>3, AloneKept, OwnerAssumption

LEMMA OpenProfileTurn ==
  ASSUME OwnFeedInv, Serialized, NEW c \in Users, Alone(c), NEW p \in Users, OpenProfile(c, p)
  PROVE  Alone(c)' /\ Moves(c)
<1>1. TypeOK /\ Press(~PageFresh(c, p)) /\ UNCHANGED <<server, pending, kept, missed, torn>>
  BY DEF OwnFeedInv, OpenProfile, history
<1>2. calls[c] = {}
  BY <1>1, PressFinds
<1>3. PICK ks : ks = {Callback("page", p)}
  OBVIOUS
<1>4. calls'[c] = ks /\ \A d \in Users \ {c} : calls'[d] = calls[d]
  BY <1>1, <1>2, <1>3, AwaitedAlone DEF OpenProfile
<1>5. \A k \in ks : k.op \notin Telling
  BY <1>3 DEF Callback, Telling
<1>6. SameGraph(c) /\ SameRest(c) /\ SameFeeds(c)
  BY <1>1, NothingIssued
<1>7. Alone(c)'
  BY <1>1, <1>2, <1>4, <1>5, <1>6, QuietPress
<1> QED
  BY <1>6, <1>7, RestsFrom DEF Moves

LEMMA RequestTurn ==
  ASSUME OwnFeedInv, Serialized, NEW c \in Users, Alone(c), NEW p \in Users, RequestPressed(c, p)
  PROVE  Alone(c)' /\ Moves(c)
<1>1. TypeOK /\ Press(PageFresh(c, p)) /\ UNCHANGED <<server, kept, missed, torn>> /\ p # c
  BY DEF OwnFeedInv, RequestPressed, OwnPages
<1>2. calls[c] = {} /\ me[c].following = Idols(c, c) /\ PageFresh(c, p)
  BY <1>1, PressFinds
<1>3. page[c][p].requests = Asks(c, p) /\ page[c][p].public = Open(c, p)
  BY <1>1, <1>2, PageShows
<1>4. PICK ks : ks = RequestReads(c, p)
  OBVIOUS
<1>5. calls'[c] = ks /\ \A d \in Users \ {c} : calls'[d] = calls[d]
  BY <1>1, <1>2, <1>4, AwaitedAlone DEF RequestPressed
<1>6. \A k \in ks : k.op \notin Telling
  BY <1>4 DEF RequestReads, Callback, Telling
<1>7. c \notin Fans(c, p) /\ ~Open(c, p)
  <2>1. p \notin Idols(c, c) /\ ~Open(c, p)
    BY <1>2, <1>3 DEF RequestPressed, IsPrivate
  <2>2. ~Due(c, "accept", c)
    BY <1>2 DEF Due
  <2> QED
    BY <2>1, <2>2 DEF Alone, Mirror
<1>8. CASE UNCHANGED pending
  <2>1. SameGraph(c) /\ SameRest(c) /\ SameFeeds(c)
    BY <1>1, <1>8, NothingIssued
  <2>2. Alone(c)'
    BY <1>1, <1>2, <1>5, <1>6, <1>8, <2>1, QuietPress
  <2> QED
    BY <2>1, <2>2, RestsFrom DEF Moves
<1>9. CASE c \notin page[c][p].requests
  <2>1. PICK m : m = modifyRequests(page[c][p].requests \cup {c}, p)
    OBVIOUS
  <2>2. /\ m \in Mutation /\ m.op = "requests" /\ m.uid = p
        /\ m.val = Asks(c, p) \cup {c}
    <3>1. Asks(c, p) \in SUBSET Users
      BY <1>1, FieldsType
    <3> QED
      BY <1>3, <2>1, <3>1, Shapes DEF modifyRequests, Write, ListField
  <2>3. Issue(c, <<m>>)
    BY <1>9, <2>1 DEF RequestPressed
  <2>4. /\ SameFeeds(c)
        /\ \A u \in Users : /\ Fans(c, u)' = Put(m, "followers", u, Fans(c, u))
                            /\ Idols(c, u)' = Put(m, "following", u, Idols(c, u))
                            /\ Asks(c, u)' = Put(m, "requests", u, Asks(c, u))
                            /\ Open(c, u)' = Put(m, "public", u, Open(c, u))
    BY <1>1, <2>2, <2>3, OneSeen DEF ListField
  <2>5. /\ SameGraph(c) /\ FansStay(c) /\ OpenStay(c)
        /\ AsksBecome(c, p, Asks(c, p) \cup {c})
    BY <2>2, <2>4 DEF Put, SameGraph, FansStay, OpenStay, AsksBecome
  <2>6. \A d \in Users \ {c} : pending'[d] = pending[d]
    BY <1>1, <2>3, IssuedAlone
  <2>7. Alone(c)'
    BY <1>1, <1>2, <1>5, <1>6, <2>4, <2>5, <2>6, QuietPress
  <2>8. Requests(c, p)
    BY <1>1, <1>3, <1>7, <1>9, <2>5 DEF Requests
  <2> QED
    BY <2>7, <2>8 DEF Moves
<1> QED
  BY <1>8, <1>9 DEF RequestPressed

LEMMA FollowTurn ==
  ASSUME OwnFeedInv, Serialized, NEW c \in Users, Alone(c), NEW p \in Users, FollowPressed(c, p)
  PROVE  Alone(c)' /\ Moves(c)
<1>1. TypeOK /\ Press(PageFresh(c, p)) /\ UNCHANGED <<server, kept, missed, torn>> /\ p # c
  BY DEF OwnFeedInv, FollowPressed, OwnPages, history
<1>2. calls[c] = {} /\ me[c].following = Idols(c, c) /\ PageFresh(c, p)
  BY <1>1, PressFinds
<1>3. page[c][p].followers = Fans(c, p) /\ page[c][p].public = Open(c, p)
  BY <1>1, <1>2, PageShows
<1>4. PICK fill : fill = [op |-> "fill", uid |-> c, from |-> p, n |-> presses]
  OBVIOUS
<1>5. PICK ks : ks = {fill, Callback("refreshMe", p)}
  OBVIOUS
<1>6. calls'[c] = ks /\ \A d \in Users \ {c} : calls'[d] = calls[d]
  BY <1>1, <1>2, <1>4, <1>5, AwaitedAlone DEF FollowPressed
<1>7. /\ fill \in ks /\ fill.op = "fill" /\ fill.uid = c /\ fill.from = p
      /\ \A k \in ks : k = fill \/ k.op = "refreshMe"
  BY <1>4, <1>5 DEF Callback
<1>8. c \notin Fans(c, p) /\ Open(c, p)
  <2>1. p \notin Idols(c, c) /\ Open(c, p)
    BY <1>2, <1>3 DEF FollowPressed, IsPrivate
  <2>2. ~Due(c, "accept", c)
    BY <1>2 DEF Due
  <2> QED
    BY <2>1, <2>2 DEF Alone, Mirror
<1>9. PICK m, w : /\ m = modifyFollowing(me[c].following \cup {p}, c)
                  /\ w = modifyFollowers(page[c][p].followers \cup {c}, p)
  OBVIOUS
<1>10. /\ m \in Mutation /\ m.op = "following" /\ m.uid = c /\ m.val = Idols(c, c) \cup {p}
       /\ w \in Mutation /\ w.op = "followers" /\ w.uid = p /\ w.val = Fans(c, p) \cup {c}
  <2>1. Idols(c, c) \in SUBSET Users /\ Fans(c, p) \in SUBSET Users
    BY <1>1, FieldsType
  <2> QED
    BY <1>2, <1>3, <1>9, <2>1, Shapes DEF modifyFollowing, modifyFollowers, Write, ListField
<1>11. Issue(c, <<m, w>>)
  BY <1>9 DEF FollowPressed
<1>12. /\ SameFeeds(c)
       /\ \A u \in Users :
            /\ Fans(c, u)' = Put(m, "followers", u, Put(w, "followers", u, Fans(c, u)))
            /\ Idols(c, u)' = Put(m, "following", u, Put(w, "following", u, Idols(c, u)))
            /\ Asks(c, u)' = Put(m, "requests", u, Put(w, "requests", u, Asks(c, u)))
            /\ Open(c, u)' = Open(c, u)
  BY <1>1, <1>10, <1>11, PairSeen DEF ListField
<1>13. /\ FansBecome(c, p, Fans(c, p) \cup {c}) /\ AsksStay(c) /\ OpenStay(c)
       /\ \A u \in Users : Idols(c, u)' = IF u = c THEN Idols(c, u) \cup {p} ELSE Idols(c, u)
  BY <1>10, <1>12 DEF Put, FansBecome, AsksStay, OpenStay
<1>14. \A u \in Users : Fans(c, u)' = IF u = p THEN Fans(c, u) \cup {c} ELSE Fans(c, u)
  BY <1>13 DEF FansBecome
<1>15. OthersIdle(c)'
  BY <1>1, <1>6, <1>11, IssuedAlone, StillIdle DEF Alone
<1>16. Mirror(c)'
  <2>1. \A f : ~Due(c, "accept", f) /\ ~Due(c, "accept", f)'
    BY <1>2, <1>6, <1>7 DEF Due
  <2> QED
    BY <1>13, <1>14, <2>1 DEF Alone, Mirror
<1>17. CallsFit(c)'
  BY <1>6, <1>7, <1>14 DEF CallsFit
<1>18. Complete(c)'
  <2>1. FillDue(c, c, p)' /\ (\A f, u : ~FillDue(c, f, u)) /\ \A e : ~DropDue(c, e)
    BY <1>2, <1>6, <1>7 DEF FillDue, DropDue
  <2> QED
    BY <1>1, <1>12, <1>14, <2>1, OwnerAssumption DEF Alone, Complete, SameFeeds
<1>19. Exact(c)'
  <2>1. (\A u : ~Due(c, "clear", u)) /\ \A e : ~DropDue(c, e)'
    BY <1>2, <1>6, <1>7 DEF Due, DropDue
  <2> QED
    BY <1>1, <1>12, <1>14, <2>1, OwnerAssumption DEF Alone, Exact, Readers, SameFeeds
<1>20. Alone(c)'
  BY <1>15, <1>16, <1>17, <1>18, <1>19 DEF Alone
<1>21. Follows(c, p)
  BY <1>1, <1>8, <1>13 DEF Follows
<1> QED
  BY <1>20, <1>21 DEF Moves

LEMMA UnfollowTurn ==
  ASSUME OwnFeedInv, Serialized, NEW c \in Users, Alone(c), NEW p \in Users, UnfollowPressed(c, p)
  PROVE  Alone(c)' /\ Moves(c)
<1>1. TypeOK /\ Press(PageFresh(c, p)) /\ UNCHANGED <<server, kept, missed, torn>> /\ p # c
  BY DEF OwnFeedInv, UnfollowPressed, OwnPages, history
<1>2. calls[c] = {} /\ me[c].following = Idols(c, c) /\ PageFresh(c, p)
  BY <1>1, PressFinds
<1>3. page[c][p].followers = Fans(c, p)
  BY <1>1, <1>2, PageShows
<1>4. PICK clear : clear = Callback("clear", p)
  OBVIOUS
<1>5. PICK ks : ks = {clear, Callback("refreshMe", p)}
  OBVIOUS
<1>6. calls'[c] = ks /\ \A d \in Users \ {c} : calls'[d] = calls[d]
  BY <1>1, <1>2, <1>4, <1>5, AwaitedAlone DEF UnfollowPressed
<1>7. /\ clear \in ks /\ clear.op = "clear" /\ clear.uid = p
      /\ \A k \in ks : k = clear \/ k.op = "refreshMe"
  BY <1>4, <1>5 DEF Callback
<1>8. c \in Fans(c, p)
  <2>1. p \in Idols(c, c)
    BY <1>2, <1>3 DEF UnfollowPressed
  <2> QED
    BY <2>1 DEF Alone, Mirror
<1>9. PICK m, w : /\ m = modifyFollowing(me[c].following \ {p}, c)
                  /\ w = modifyFollowers(page[c][p].followers \ {c}, p)
  OBVIOUS
<1>10. /\ m \in Mutation /\ m.op = "following" /\ m.uid = c /\ m.val = Idols(c, c) \ {p}
       /\ w \in Mutation /\ w.op = "followers" /\ w.uid = p /\ w.val = Fans(c, p) \ {c}
  <2>1. Idols(c, c) \in SUBSET Users /\ Fans(c, p) \in SUBSET Users
    BY <1>1, FieldsType
  <2> QED
    BY <1>2, <1>3, <1>9, <2>1, Shapes DEF modifyFollowing, modifyFollowers, Write, ListField
<1>11. Issue(c, <<m, w>>)
  BY <1>9 DEF UnfollowPressed, unfollowUser
<1>12. /\ SameFeeds(c)
       /\ \A u \in Users :
            /\ Fans(c, u)' = Put(m, "followers", u, Put(w, "followers", u, Fans(c, u)))
            /\ Idols(c, u)' = Put(m, "following", u, Put(w, "following", u, Idols(c, u)))
            /\ Asks(c, u)' = Put(m, "requests", u, Put(w, "requests", u, Asks(c, u)))
            /\ Open(c, u)' = Open(c, u)
  BY <1>1, <1>10, <1>11, PairSeen DEF ListField
<1>13. /\ FansBecome(c, p, Fans(c, p) \ {c}) /\ AsksStay(c) /\ OpenStay(c)
       /\ \A u \in Users : Idols(c, u)' = IF u = c THEN Idols(c, u) \ {p} ELSE Idols(c, u)
  BY <1>10, <1>12 DEF Put, FansBecome, AsksStay, OpenStay
<1>14. \A u \in Users : Fans(c, u)' = IF u = p THEN Fans(c, u) \ {c} ELSE Fans(c, u)
  BY <1>13 DEF FansBecome
<1>15. OthersIdle(c)'
  BY <1>1, <1>6, <1>11, IssuedAlone, StillIdle DEF Alone
<1>16. Mirror(c)'
  <2>1. \A f : ~Due(c, "accept", f) /\ ~Due(c, "accept", f)'
    BY <1>2, <1>6, <1>7 DEF Due
  <2> QED
    BY <1>13, <1>14, <2>1 DEF Alone, Mirror
<1>17. CallsFit(c)'
  BY <1>6, <1>7, <1>14 DEF CallsFit
<1>18. Complete(c)'
  <2>1. (\A f, u : ~FillDue(c, f, u)) /\ \A e : ~DropDue(c, e)
    BY <1>2 DEF FillDue, DropDue
  <2> QED
    BY <1>1, <1>12, <1>14, <2>1, OwnerAssumption DEF Alone, Complete, SameFeeds
<1>19. Exact(c)'
  <2>1. Due(c, "clear", p)' /\ (\A u : ~Due(c, "clear", u)) /\ \A e : ~DropDue(c, e)'
    BY <1>2, <1>6, <1>7 DEF Due, DropDue
  <2> QED
    BY <1>1, <1>12, <1>14, <2>1, OwnerAssumption DEF Alone, Exact, Readers, SameFeeds
<1>20. Alone(c)'
  BY <1>15, <1>16, <1>17, <1>18, <1>19 DEF Alone
<1>21. Unfollows(c, p)
  BY <1>1, <1>8, <1>13 DEF Unfollows
<1> QED
  BY <1>20, <1>21 DEF Moves

-----------------------------------------------------------------------------
(* The buttons of the lists and of the settings.                           *)

LEMMA AcceptTurn ==
  ASSUME OwnFeedInv, Serialized, NEW c \in Users, Alone(c), NEW r \in Users, AcceptPressed(c, r)
  PROVE  Alone(c)' /\ Moves(c)
<1>1. TypeOK /\ Press(RequestListFresh(c)) /\ UNCHANGED <<server, kept, missed, torn>>
  BY DEF OwnFeedInv, AcceptPressed
<1>2. /\ calls[c] = {} /\ RequestListFresh(c)
      /\ me[c].followers = Fans(c, c) /\ me[c].requests = Asks(c, c)
  BY <1>1, PressFinds
<1>3. /\ requestList[c].followers = Fans(c, c) /\ requestList[c].requests = Asks(c, c)
      /\ r \in Asks(c, c)
  BY <1>2 DEF RequestListFresh, AcceptPressed
<1>4. PICK due, fill : /\ due = Callback("accept", r)
                       /\ fill = [op |-> "fill", uid |-> r, from |-> c, n |-> presses]
  OBVIOUS
<1>5. PICK ks : ks = {due, fill}
  OBVIOUS
<1>6. calls'[c] = ks /\ \A d \in Users \ {c} : calls'[d] = calls[d]
  BY <1>1, <1>2, <1>4, <1>5, AwaitedAlone DEF AcceptPressed, AcceptReads
<1>7. /\ due \in ks /\ due.op = "accept" /\ due.uid = r
      /\ fill \in ks /\ fill.op = "fill" /\ fill.uid = r /\ fill.from = c
      /\ \A k \in ks : k = due \/ k = fill
  BY <1>4, <1>5 DEF Callback
<1>9. PICK m, w : /\ m = modifyFollowers(requestList[c].followers \cup {r}, c)
                  /\ w = modifyRequests(requestList[c].requests \ {r}, c)
  OBVIOUS
<1>10. /\ m \in Mutation /\ m.op = "followers" /\ m.uid = c /\ m.val = Fans(c, c) \cup {r}
       /\ w \in Mutation /\ w.op = "requests" /\ w.uid = c /\ w.val = Asks(c, c) \ {r}
  <2>1. Fans(c, c) \in SUBSET Users /\ Asks(c, c) \in SUBSET Users
    BY <1>1, FieldsType
  <2> QED
    BY <1>3, <1>9, <2>1, Shapes DEF modifyFollowers, modifyRequests, Write, ListField
<1>11. Issue(c, <<m, w>>)
  BY <1>9 DEF AcceptPressed, AcceptWrites
<1>12. /\ SameFeeds(c)
       /\ \A u \in Users :
            /\ Fans(c, u)' = Put(m, "followers", u, Put(w, "followers", u, Fans(c, u)))
            /\ Idols(c, u)' = Put(m, "following", u, Put(w, "following", u, Idols(c, u)))
            /\ Asks(c, u)' = Put(m, "requests", u, Put(w, "requests", u, Asks(c, u)))
            /\ Open(c, u)' = Open(c, u)
  BY <1>1, <1>10, <1>11, PairSeen DEF ListField
<1>13. /\ FansBecome(c, c, Fans(c, c) \cup {r}) /\ AsksBecome(c, c, Asks(c, c) \ {r})
       /\ OpenStay(c) /\ \A u \in Users : Idols(c, u)' = Idols(c, u)
  BY <1>10, <1>12 DEF Put, FansBecome, AsksBecome, OpenStay
<1>14. \A u \in Users : Fans(c, u)' = IF u = c THEN Fans(c, u) \cup {r} ELSE Fans(c, u)
  BY <1>13 DEF FansBecome
<1>15. OthersIdle(c)'
  BY <1>1, <1>6, <1>11, IssuedAlone, StillIdle DEF Alone
<1>16. Mirror(c)'
  <2>1. \A f : ~Due(c, "accept", f) /\ (Due(c, "accept", f)' <=> f = r)
    BY <1>2, <1>6, <1>7 DEF Due
  <2> QED
    BY <1>13, <1>14, <2>1 DEF Alone, Mirror
<1>17. CallsFit(c)'
  BY <1>6, <1>7, <1>14 DEF CallsFit
<1>18. Complete(c)'
  <2>1. FillDue(c, r, c)' /\ (\A f, u : ~FillDue(c, f, u)) /\ \A e : ~DropDue(c, e)
    BY <1>2, <1>6, <1>7 DEF FillDue, DropDue
  <2> QED
    BY <1>1, <1>12, <1>14, <2>1, OwnerAssumption DEF Alone, Complete, SameFeeds
<1>19. Exact(c)'
  <2>1. (\A u : ~Due(c, "clear", u)) /\ \A e : ~DropDue(c, e)'
    BY <1>2, <1>6, <1>7 DEF Due, DropDue
  <2> QED
    BY <1>1, <1>12, <1>14, <2>1, OwnerAssumption DEF Alone, Exact, Readers, SameFeeds
<1>20. Alone(c)'
  BY <1>15, <1>16, <1>17, <1>18, <1>19 DEF Alone
<1>21. Accepts(c, r)
  BY <1>3, <1>13 DEF Accepts
<1> QED
  BY <1>20, <1>21 DEF Moves

LEMMA DenyTurn ==
  ASSUME OwnFeedInv, Serialized, NEW c \in Users, Alone(c), NEW r \in Users, DenyPressed(c, r)
  PROVE  Alone(c)' /\ Moves(c)
<1>1. /\ TypeOK /\ Press(RequestListFresh(c)) /\ UNCHANGED <<server, kept, missed, torn>>
      /\ \A d \in Users : calls'[d] = calls[d]
  BY DEF OwnFeedInv, DenyPressed, history
<1>2. calls[c] = {} /\ RequestListFresh(c) /\ me[c].requests = Asks(c, c)
  BY <1>1, PressFinds
<1>3. requestList[c].requests = Asks(c, c) /\ r \in Asks(c, c)
  BY <1>2 DEF RequestListFresh, DenyPressed
<1>4. PICK m : m = modifyRequests(requestList[c].requests \ {r}, c)
  OBVIOUS
<1>5. m \in Mutation /\ m.op = "requests" /\ m.uid = c /\ m.val = Asks(c, c) \ {r}
  <2>1. Asks(c, c) \in SUBSET Users
    BY <1>1, FieldsType
  <2> QED
    BY <1>3, <1>4, <2>1, Shapes DEF modifyRequests, Write, ListField
<1>6. Issue(c, <<m>>)
  BY <1>4 DEF DenyPressed
<1>7. /\ SameFeeds(c)
      /\ \A u \in Users : /\ Fans(c, u)' = Put(m, "followers", u, Fans(c, u))
                          /\ Idols(c, u)' = Put(m, "following", u, Idols(c, u))
                          /\ Asks(c, u)' = Put(m, "requests", u, Asks(c, u))
                          /\ Open(c, u)' = Put(m, "public", u, Open(c, u))
  BY <1>1, <1>5, <1>6, OneSeen DEF ListField
<1>8. /\ SameGraph(c) /\ FansStay(c) /\ OpenStay(c)
      /\ AsksBecome(c, c, Asks(c, c) \ {r})
  BY <1>5, <1>7 DEF Put, SameGraph, FansStay, OpenStay, AsksBecome
<1>9. \A d \in Users \ {c} : pending'[d] = pending[d]
  BY <1>1, <1>6, IssuedAlone
<1>10. \A k \in calls'[c] : k.op \notin Telling
  BY <1>1, <1>2
<1>11. Alone(c)'
  BY <1>1, <1>2, <1>7, <1>8, <1>9, <1>10, QuietPress
<1>12. Denies(c, r)
  BY <1>3, <1>8 DEF Denies
<1> QED
  BY <1>11, <1>12 DEF Moves

LEMMA SwitchTurn ==
  ASSUME OwnFeedInv, Serialized, NEW c \in Users, Alone(c), NEW b \in BOOLEAN, TogglePrivacy(c, b)
  PROVE  Alone(c)' /\ Moves(c)
<1>1. /\ TypeOK /\ Press(TRUE) /\ UNCHANGED <<server, kept, missed, torn>>
      /\ \A d \in Users : calls'[d] = calls[d]
  BY DEF OwnFeedInv, TogglePrivacy
<1>2. calls[c] = {}
  BY <1>1, PressFinds
<1>4. PICK m : m = Write("public", c, b)
  OBVIOUS
<1>5. m \in Mutation /\ m.op = "public" /\ m.uid = c /\ m.val = b
  BY <1>4, Shapes DEF Write
<1>6. Issue(c, <<m>>)
  BY <1>4 DEF TogglePrivacy
<1>7. /\ SameFeeds(c)
      /\ \A u \in Users : /\ Fans(c, u)' = Put(m, "followers", u, Fans(c, u))
                          /\ Idols(c, u)' = Put(m, "following", u, Idols(c, u))
                          /\ Asks(c, u)' = Put(m, "requests", u, Asks(c, u))
                          /\ Open(c, u)' = Put(m, "public", u, Open(c, u))
  BY <1>1, <1>5, <1>6, OneSeen DEF ListField
<1>8. SameGraph(c) /\ FansStay(c) /\ AsksStay(c) /\ OpenBecome(c, c, b)
  BY <1>5, <1>7 DEF Put, SameGraph, FansStay, AsksStay, OpenBecome
<1>9. \A d \in Users \ {c} : pending'[d] = pending[d]
  BY <1>1, <1>6, IssuedAlone
<1>10. \A k \in calls'[c] : k.op \notin Telling
  BY <1>1, <1>2
<1>11. Alone(c)'
  BY <1>1, <1>2, <1>7, <1>8, <1>9, <1>10, QuietPress
<1>12. Switches(c, b)
  BY <1>8 DEF Switches
<1> QED
  BY <1>11, <1>12 DEF Moves

LEMMA ListUnfollowTurn ==
  ASSUME OwnFeedInv, Serialized, NEW c \in Users, Alone(c), NEW p \in Users,
         ListUnfollowPressed(c, p)
  PROVE  Alone(c)' /\ Moves(c)
<1>1. /\ TypeOK /\ Press(followList[c] = me[c].following) /\ UNCHANGED <<server, pending, me, missed, torn>>
      /\ kept' = kept \cup {<<c, p>>}
  BY DEF OwnFeedInv, ListUnfollowPressed
<1>2. /\ calls[c] = {} /\ me[c].following = Idols(c, c) /\ followList[c] = me[c].following
  BY <1>1, PressFinds
<1>3. p \in Idols(c, c)
  BY <1>2 DEF ListUnfollowPressed
<1>4. PICK k : k = Callback("unfollow", p)
  OBVIOUS
<1>5. PICK ks : ks = {k}
  OBVIOUS
<1>6. calls'[c] = ks /\ \A d \in Users \ {c} : calls'[d] = calls[d]
  BY <1>1, <1>2, <1>4, <1>5, AwaitedAlone DEF ListUnfollowPressed
<1>7. k.op = "unfollow" /\ k.uid = p
  BY <1>4 DEF Callback
<1>8. SameGraph(c) /\ SameRest(c) /\ SameFeeds(c)
  BY <1>1, NothingIssued
<1>9. /\ \A f, u : ~FillDue(c, f, u) /\ ~FillDue(c, f, u)'
      /\ \A f : ~Due(c, "accept", f) /\ ~Due(c, "accept", f)'
      /\ \A f : ~Due(c, "clear", f)
      /\ \A e : ~DropDue(c, e) /\ ~DropDue(c, e)'
  BY <1>2, <1>5, <1>6, <1>7 DEF FillDue, Due, DropDue
<1>10. OthersIdle(c)'
  BY <1>1, <1>6, StillIdle DEF Alone
<1>11. Mirror(c)'
  BY <1>8, <1>9 DEF Alone, Mirror, SameGraph
<1>12. CallsFit(c)'
  BY <1>1, <1>2, <1>3, <1>5, <1>6, <1>7, <1>8 DEF CallsFit, SameGraph
<1>13. Complete(c)'
  BY <1>1, <1>8, <1>9, OwnerAssumption DEF Alone, Complete, SameGraph, SameFeeds
<1>14. Exact(c)'
  BY <1>1, <1>8, <1>9, OwnerAssumption DEF Alone, Exact, Readers, SameGraph, SameFeeds
<1>15. Alone(c)'
  BY <1>10, <1>11, <1>12, <1>13, <1>14 DEF Alone
<1> QED
  BY <1>8, <1>15, RestsFrom DEF Moves

-----------------------------------------------------------------------------
(* Writes of entries and feeds.                                            *)

\* A loop over a set visits all of it.
LEMMA OrderVisits ==
  ASSUME NEW S, NEW T \in SUBSET S, IsFiniteSet(S), NEW q \in SetToSeqs(T)
  PROVE  q \in Seq(T) /\ q \in Seq(S) /\ ToSet(q) = T
<1> DEFINE n == Cardinality(T)
<1>1. IsFiniteSet(T) /\ n \in Nat
  BY FS_Subset, FS_CardinalityType
<1>2. q \in [1..n -> T] /\ \A i, j \in 1..n : i # j => q[i] # q[j]
  BY DEF SetToSeqs
<1>3. q \in Injection(1..n, T)
  BY <1>2 DEF Injection, IsInjective
<1>4. IsFiniteSet(1..n) /\ Cardinality(1..n) = n
  BY <1>1, FS_Interval
<1>5. q \in Surjection(1..n, T)
  BY <1>1, <1>3, <1>4, FS_Injection
<1>6. DOMAIN q = 1..n /\ ToSet(q) = T
  BY <1>2, <1>5 DEF Surjection, ToSet
<1> QED
  BY <1>1, <1>2, <1>6

\* Entry e was written or deleted, and told to the readers T and to c.
FannedOut(c, T, e, op) ==
  \A f \in Entries :
    /\ EntryStands(c, f)' <=> (IF f = e THEN op = "feedSet" ELSE EntryStands(c, f))
    /\ \A u \in Users : Fed(c, u, f)' <=> (IF f = e /\ u \in T \cup {c} THEN op = "feedSet"
                                          ELSE Fed(c, u, f))

LEMMA FanOutSeen ==
  ASSUME TypeOK, NEW c \in Users, NEW T \in SUBSET Users, NEW us \in SetToSeqs(T),
         NEW e \in Entries,
         NEW eop \in {"entrySet", "entryDel"}, NEW op \in {"feedSet", "feedDel"},
         eop = "entrySet" <=> op = "feedSet",
         Issue(c, <<EntryWrite(eop, e)>> \o FanOut(op, c, us, e)), UNCHANGED server
  PROVE  SameGraph(c) /\ SameRest(c) /\ FannedOut(c, T, e, op)
<1> DEFINE first == EntryWrite(eop, e)
<1> DEFINE To(v) == [op |-> op, uid |-> v, entry |-> e]
<1> DEFINE fan == FeedWrites(op, us, e)
<1> DEFINE own == FeedWrites(op, <<c>>, e)
<1> DEFINE ws == <<first>> \o (fan \o own)
<1>0. us \in Seq(T) /\ us \in Seq(Users) /\ ToSet(us) = T
  BY FiniteAssumption, OrderVisits
<1>1. first \in Mutation /\ first.op = eop /\ first.entry = e
  BY Shapes DEF EntryWrite
<1>2. \A v \in Users : /\ To(v) \in Mutation /\ To(v).op = op /\ To(v).uid = v
                       /\ To(v).entry = e
  BY Shapes
<1>3. /\ fan \in Seq(Mutation)
      /\ \A m \in ToSet(fan) : \E v \in T : m = To(v)
      /\ \A v \in T : To(v) \in ToSet(fan)
  <2>1. fan \in Seq(Mutation) /\ DOMAIN fan = DOMAIN us /\ \A i \in DOMAIN us : fan[i] = To(us[i])
    BY <1>0, <1>2 DEF FeedWrites
  <2>2. /\ \A i \in DOMAIN us : us[i] \in T
        /\ \A v \in T : \E i \in DOMAIN us : us[i] = v
    BY <1>0 DEF ToSet
  <2> HIDE DEF fan, To
  <2> QED
    BY <2>1, <2>2 DEF ToSet
<1>4. own \in Seq(Mutation) /\ ToSet(own) = {To(c)}
  BY <1>2 DEF FeedWrites, ToSet
<1>5. <<first>> \in Seq(Mutation) /\ ToSet(<<first>>) = {first}
  BY <1>1 DEF ToSet
<1>6. ws \in Seq(Mutation) /\ ToSet(ws) = {first} \cup (ToSet(fan) \cup {To(c)})
  <2> HIDE DEF first, own, fan, To
  <2>1. fan \o own \in Seq(Mutation) /\ ToSet(fan \o own) = ToSet(fan) \cup {To(c)}
    BY <1>3, <1>4, JoinedSet
  <2>2. PICK rest : rest = fan \o own
    OBVIOUS
  <2>3. rest \in Seq(Mutation) /\ ToSet(rest) = ToSet(fan) \cup {To(c)}
    BY <2>1, <2>2
  <2>4. PICK one \in Seq(Mutation) : one = <<first>>
    BY <1>5
  <2>5. one \o rest \in Seq(Mutation) /\ ToSet(one \o rest) = ToSet(one) \cup ToSet(rest)
    BY <2>3, JoinedSet
  <2> QED
    BY <1>5, <2>2, <2>3, <2>4, <2>5
<1>7. Issue(c, ws)
  BY DEF FanOut
<1> HIDE DEF first, own, fan, ws, To
<1>8. /\ \A m \in ToSet(ws) : m = first \/ \E v \in T \cup {c} : m = To(v)
      /\ \A v \in T \cup {c} : To(v) \in ToSet(ws)
      /\ first \in ToSet(ws)
  BY <1>3, <1>6
<1>9. \A m \in ToSet(ws) : m.op \in {"entrySet", "entryDel", "feedSet", "feedDel"}
  BY <1>1, <1>2, <1>8
<1>10. SameGraph(c) /\ SameRest(c)
  BY <1>6, <1>7, <1>9, ListsUnwritten
<1>11. /\ pending'[c] = pending[c] \o ws /\ pending[c] \in Seq(Mutation) /\ ws \in Seq(Mutation)
       /\ UNCHANGED <<feed, entries>>
  BY <1>6, <1>7 DEF Issue, TypeOK, server
<1>12. ASSUME NEW f \in Entries
       PROVE  EntryStands(c, f)' <=> (IF f = e THEN op = "feedSet" ELSE EntryStands(c, f))
  <2>1. CASE f # e
    <3>1. \A m \in ToSet(ws) : m \notin EntryOf(f)
      BY <1>1, <1>2, <1>8, <2>1 DEF EntryOf
    <3> QED
      BY <1>11, <2>1, <3>1, SaysAppended DEF EntryStands
  <2>2. CASE f = e
    <3>1. /\ \E m \in ToSet(ws) : m \in EntryOf(e)
          /\ \A m \in ToSet(ws) : m.op = eop \/ m \notin EntryOf(e)
      BY <1>1, <1>2, <1>8 DEF EntryOf
    <3>2. CASE op = "feedSet"
      <4>1. \A m \in ToSet(ws) : m.op = "entrySet" \/ m \notin EntryOf(e)
        BY <3>1, <3>2
      <4>2. ASSUME NEW stored PROVE Says(pending[c] \o ws, EntryOf(e), "entrySet", stored)
        BY <1>11, <3>1, <4>1, SaysReplaced
      <4> QED
        BY <1>11, <2>2, <3>2, <4>2 DEF EntryStands
    <3>3. CASE op # "feedSet"
      <4>1. \A m \in ToSet(ws) : m.op # "entrySet" \/ m \notin EntryOf(e)
        BY <3>1, <3>3
      <4>2. ASSUME NEW stored PROVE ~Says(pending[c] \o ws, EntryOf(e), "entrySet", stored)
        BY <1>11, <3>1, <4>1, SaysReplaced
      <4> QED
        BY <1>11, <2>2, <3>3, <4>2 DEF EntryStands
    <3> QED
      BY <3>2, <3>3
  <2> QED
    BY <2>1, <2>2
<1>13. ASSUME NEW f \in Entries, NEW u \in Users
       PROVE  Fed(c, u, f)' <=> (IF f = e /\ u \in T \cup {c} THEN op = "feedSet"
                                 ELSE Fed(c, u, f))
  <2>1. CASE ~(f = e /\ u \in T \cup {c})
    <3>1. \A m \in ToSet(ws) : m \notin FeedOf(u, f)
      BY <1>1, <1>2, <1>8, <2>1 DEF FeedOf
    <3>2. ASSUME NEW stored
          PROVE  Says(pending[c] \o ws, FeedOf(u, f), "feedSet", stored)
                   = Says(pending[c], FeedOf(u, f), "feedSet", stored)
      BY <1>11, <3>1, SaysAppended
    <3>3. Fed(c, u, f)' = Fed(c, u, f)
      BY <1>11, <3>2 DEF Fed
    <3> QED
      BY <2>1, <3>3
  <2>2. CASE f = e /\ u \in T \cup {c}
    <3>1. /\ \E m \in ToSet(ws) : m \in FeedOf(u, e)
          /\ \A m \in ToSet(ws) : m.op = op \/ m \notin FeedOf(u, e)
      BY <1>1, <1>2, <1>8, <2>2 DEF FeedOf
    <3>2. CASE op = "feedSet"
      <4>1. \A m \in ToSet(ws) : m.op = "feedSet" \/ m \notin FeedOf(u, e)
        BY <3>1, <3>2
      <4>2. ASSUME NEW stored PROVE Says(pending[c] \o ws, FeedOf(u, e), "feedSet", stored)
        BY <1>11, <3>1, <4>1, SaysReplaced
      <4> QED
        BY <1>11, <2>2, <3>2, <4>2 DEF Fed
    <3>3. CASE op # "feedSet"
      <4>1. \A m \in ToSet(ws) : m.op # "feedSet" \/ m \notin FeedOf(u, e)
        BY <3>1, <3>3
      <4>2. ASSUME NEW stored PROVE ~Says(pending[c] \o ws, FeedOf(u, e), "feedSet", stored)
        BY <1>11, <3>1, <4>1, SaysReplaced
      <4> QED
        BY <1>11, <2>2, <3>3, <4>2 DEF Fed
    <3> QED
      BY <3>2, <3>3
  <2> QED
    BY <2>1, <2>2
<1> QED
  BY <1>10, <1>12, <1>13 DEF FannedOut

\* The entries E were added to v's feed or deleted from it.
FeedGets(c, v, E, op) ==
  \A f \in Entries :
    /\ EntryStands(c, f)' = EntryStands(c, f)
    /\ \A u \in Users : Fed(c, u, f)' <=> (IF u = v /\ f \in E THEN op = "feedSet"
                                          ELSE Fed(c, u, f))

LEMMA FeedWritten ==
  ASSUME TypeOK, NEW c \in Users, NEW v \in Users, NEW E \in SUBSET Entries,
         NEW es \in SetToSeqs(E), NEW op \in {"feedSet", "feedDel"},
         Issue(c, [i \in DOMAIN es |-> [op |-> op, uid |-> v, entry |-> es[i]]]),
         UNCHANGED server
  PROVE  SameGraph(c) /\ SameRest(c) /\ FeedGets(c, v, E, op)
<1> DEFINE Of(e) == [op |-> op, uid |-> v, entry |-> e]
<1> DEFINE ws == [i \in DOMAIN es |-> Of(es[i])]
<1>0. es \in Seq(E) /\ es \in Seq(Entries) /\ ToSet(es) = E
  BY FiniteAssumption, OrderVisits
<1>1. \A e \in Entries : /\ Of(e) \in Mutation /\ Of(e).op = op /\ Of(e).uid = v
                         /\ Of(e).entry = e
  BY Shapes
<1>2. /\ ws \in Seq(Mutation)
      /\ \A m \in ToSet(ws) : \E e \in E : m = Of(e)
      /\ \A e \in E : Of(e) \in ToSet(ws)
  <2>1. ws \in Seq(Mutation) /\ DOMAIN ws = DOMAIN es /\ \A i \in DOMAIN es : ws[i] = Of(es[i])
    BY <1>0, <1>1
  <2>2. /\ \A i \in DOMAIN es : es[i] \in E
        /\ \A e \in E : \E i \in DOMAIN es : es[i] = e
    BY <1>0 DEF ToSet
  <2> HIDE DEF ws, Of
  <2> QED
    BY <2>1, <2>2 DEF ToSet
<1>3. Issue(c, ws)
  OBVIOUS
<1> HIDE DEF ws, Of
<1>4. \A m \in ToSet(ws) : m.op \in {"entrySet", "entryDel", "feedSet", "feedDel"}
  BY <1>1, <1>2
<1>5. SameGraph(c) /\ SameRest(c)
  BY <1>2, <1>3, <1>4, ListsUnwritten
<1>6. /\ pending'[c] = pending[c] \o ws /\ pending[c] \in Seq(Mutation) /\ ws \in Seq(Mutation)
      /\ UNCHANGED <<feed, entries>>
  BY <1>2, <1>3 DEF Issue, TypeOK, server
<1>7. ASSUME NEW f \in Entries
      PROVE  EntryStands(c, f)' = EntryStands(c, f)
  <2>1. \A m \in ToSet(ws) : m \notin EntryOf(f)
    BY <1>1, <1>2 DEF EntryOf
  <2> QED
    BY <1>6, <2>1, SaysAppended DEF EntryStands
<1>8. ASSUME NEW f \in Entries, NEW u \in Users
      PROVE  Fed(c, u, f)' <=> (IF u = v /\ f \in E THEN op = "feedSet" ELSE Fed(c, u, f))
  <2>1. CASE ~(u = v /\ f \in E)
    <3>1. \A m \in ToSet(ws) : m \notin FeedOf(u, f)
      BY <1>1, <1>2, <2>1 DEF FeedOf
    <3>2. ASSUME NEW stored
          PROVE  Says(pending[c] \o ws, FeedOf(u, f), "feedSet", stored)
                   = Says(pending[c], FeedOf(u, f), "feedSet", stored)
      BY <1>6, <3>1, SaysAppended
    <3>3. Fed(c, u, f)' = Fed(c, u, f)
      BY <1>6, <3>2 DEF Fed
    <3> QED
      BY <2>1, <3>3
  <2>2. CASE u = v /\ f \in E
    <3>1. /\ \E m \in ToSet(ws) : m \in FeedOf(u, f)
          /\ \A m \in ToSet(ws) : m.op = op \/ m \notin FeedOf(u, f)
      BY <1>1, <1>2, <2>2 DEF FeedOf
    <3>2. CASE op = "feedSet"
      <4>1. \A m \in ToSet(ws) : m.op = "feedSet" \/ m \notin FeedOf(u, f)
        BY <3>1, <3>2
      <4>2. ASSUME NEW stored PROVE Says(pending[c] \o ws, FeedOf(u, f), "feedSet", stored)
        BY <1>6, <3>1, <4>1, SaysReplaced
      <4> QED
        BY <1>6, <2>2, <3>2, <4>2 DEF Fed
    <3>3. CASE op # "feedSet"
      <4>1. \A m \in ToSet(ws) : m.op # "feedSet" \/ m \notin FeedOf(u, f)
        BY <3>1, <3>3
      <4>2. ASSUME NEW stored PROVE ~Says(pending[c] \o ws, FeedOf(u, f), "feedSet", stored)
        <5>1. \E m \in ToSet(ws) : m \in FeedOf(u, f)
          BY <3>1
        <5>2. pending[c] \in Seq(Mutation) /\ ws \in Seq(Mutation)
          BY <1>6
        <5> QED
          BY <4>1, <5>1, <5>2, SaysReplaced
      <4> QED
        BY <1>6, <2>2, <3>3, <4>2 DEF Fed
    <3> QED
      BY <3>2, <3>3
  <2> QED
    BY <2>1, <2>2
<1> QED
  BY <1>5, <1>7, <1>8 DEF FeedGets

\* addToFirebase writes the new entry to the feed of everybody who follows the author.
LEMMA PublishTurn ==
  ASSUME OwnFeedInv, Serialized, NEW c \in Users, Alone(c), NEW e \in Entries, Publish(c, e)
  PROVE  Alone(c)' /\ Moves(c)
<1>1. /\ TypeOK /\ Press(TRUE) /\ UNCHANGED <<server, kept, missed, torn>> /\ owner[e] = c
      /\ \A d \in Users : calls'[d] = calls[d]
  BY DEF OwnFeedInv, Publish
<1>2. calls[c] = {} /\ me[c].followers = Fans(c, c)
  BY <1>1, PressFinds
<1>3. PICK T \in SUBSET Users : T = Fans(c, c)
  BY <1>1, FieldsType
<1>4. PICK us \in SetToSeqs(T) :
        Issue(c, <<EntryWrite("entrySet", e)>> \o FanOut("feedSet", c, us, e))
  BY <1>2, <1>3 DEF Publish
<1>13. SameGraph(c) /\ SameRest(c) /\ FannedOut(c, T, e, "feedSet")
  BY <1>1, <1>4, FanOutSeen
<1>5. /\ SameGraph(c) /\ SameRest(c)
      /\ \A f \in Entries :
           /\ EntryStands(c, f)' <=> (f = e \/ EntryStands(c, f))
           /\ \A u \in Users : Fed(c, u, f)' <=> (f = e /\ u \in T \cup {c}) \/ Fed(c, u, f)
  BY <1>13 DEF FannedOut
<1>6. \A f, u : ~FillDue(c, f, u) /\ ~FillDue(c, f, u)' /\ ~Due(c, "accept", f)
                /\ ~Due(c, "accept", f)' /\ ~Due(c, "clear", f)
                /\ ~DropDue(c, f) /\ ~DropDue(c, f)'
  BY <1>1, <1>2 DEF FillDue, Due, DropDue
<1>7. OthersIdle(c)'
  BY <1>1, <1>4, IssuedAlone, StillIdle DEF Alone
<1>8. Mirror(c)'
  BY <1>5, <1>6 DEF Alone, Mirror, SameGraph
<1>9. CallsFit(c)'
  BY <1>1, <1>2 DEF CallsFit
<1>10. Complete(c)'
  BY <1>1, <1>3, <1>5, <1>6, OwnerAssumption DEF Alone, Complete, SameGraph
<1>11. Exact(c)'
  BY <1>1, <1>3, <1>5, <1>6, OwnerAssumption DEF Alone, Exact, Readers, SameGraph
<1>12. Alone(c)'
  BY <1>7, <1>8, <1>9, <1>10, <1>11 DEF Alone
<1> QED
  BY <1>5, <1>12, RestsFrom DEF Moves

LEMMA DeleteTurn ==
  ASSUME OwnFeedInv, Serialized, NEW c \in Users, Alone(c), NEW e \in Entries, DeleteEntry(c, e)
  PROVE  Alone(c)' /\ Moves(c)
<1>1. /\ TypeOK /\ Press(TRUE) /\ UNCHANGED <<server, kept, missed, torn>> /\ owner[e] = c
      /\ \A d \in Users : calls'[d] = calls[d]
  BY DEF OwnFeedInv, DeleteEntry, history
<1>2. calls[c] = {} /\ me[c].followers = Fans(c, c)
  BY <1>1, PressFinds
<1>3. PICK T \in SUBSET Users : T = Fans(c, c)
  BY <1>1, FieldsType
<1>4. PICK us \in SetToSeqs(T) :
        Issue(c, <<EntryWrite("entryDel", e)>> \o FanOut("feedDel", c, us, e))
  BY <1>2, <1>3 DEF DeleteEntry
<1>13. SameGraph(c) /\ SameRest(c) /\ FannedOut(c, T, e, "feedDel")
  BY <1>1, <1>4, FanOutSeen
<1>5. /\ SameGraph(c) /\ SameRest(c)
      /\ \A f \in Entries :
           /\ EntryStands(c, f)' <=> (f # e /\ EntryStands(c, f))
           /\ \A u \in Users : Fed(c, u, f)' <=> ~(f = e /\ u \in T \cup {c}) /\ Fed(c, u, f)
  BY <1>13 DEF FannedOut
<1>6. \A f, u : ~FillDue(c, f, u) /\ ~FillDue(c, f, u)' /\ ~Due(c, "accept", f)
                /\ ~Due(c, "accept", f)' /\ ~Due(c, "clear", f)
                /\ ~DropDue(c, f) /\ ~DropDue(c, f)'
  BY <1>1, <1>2 DEF FillDue, Due, DropDue
<1>7. OthersIdle(c)'
  BY <1>1, <1>4, IssuedAlone, StillIdle DEF Alone
<1>8. Mirror(c)'
  BY <1>5, <1>6 DEF Alone, Mirror, SameGraph
<1>9. CallsFit(c)'
  BY <1>1, <1>2 DEF CallsFit
<1>10. Complete(c)'
  BY <1>1, <1>3, <1>5, <1>6, OwnerAssumption DEF Alone, Complete, SameGraph
<1>11. Exact(c)'
  BY <1>1, <1>3, <1>5, <1>6, OwnerAssumption DEF Alone, Exact, Readers, SameGraph
<1>12. Alone(c)'
  BY <1>7, <1>8, <1>9, <1>10, <1>11 DEF Alone
<1> QED
  BY <1>5, <1>12, RestsFrom DEF Moves

\* The deletion of a trip takes an entry from the feed of every reader.
LEMMA DropSeen ==
  ASSUME TypeOK, NEW c \in Users, NEW T \in SUBSET Users, NEW us \in SetToSeqs(T),
         NEW e \in Entries, Issue(c, FanOut("feedDel", c, us, e)), UNCHANGED server
  PROVE  /\ SameGraph(c) /\ SameRest(c)
         /\ \A f \in Entries :
              /\ EntryStands(c, f)' = EntryStands(c, f)
              /\ \A u \in Users : Fed(c, u, f)' <=> ~(f = e /\ u \in T \cup {c}) /\ Fed(c, u, f)
<1> DEFINE To(v) == [op |-> "feedDel", uid |-> v, entry |-> e]
<1> DEFINE fan == FeedWrites("feedDel", us, e)
<1> DEFINE own == FeedWrites("feedDel", <<c>>, e)
<1> DEFINE ws == fan \o own
<1>0. us \in Seq(T) /\ us \in Seq(Users) /\ ToSet(us) = T
  BY FiniteAssumption, OrderVisits
<1>1. \A v \in Users : /\ To(v) \in Mutation /\ To(v).op = "feedDel" /\ To(v).uid = v
                       /\ To(v).entry = e
  BY Shapes
<1>2. /\ fan \in Seq(Mutation)
      /\ \A m \in ToSet(fan) : \E v \in T : m = To(v)
      /\ \A v \in T : To(v) \in ToSet(fan)
  <2>1. fan \in Seq(Mutation) /\ DOMAIN fan = DOMAIN us /\ \A i \in DOMAIN us : fan[i] = To(us[i])
    BY <1>0, <1>1 DEF FeedWrites
  <2>2. /\ \A i \in DOMAIN us : us[i] \in T
        /\ \A v \in T : \E i \in DOMAIN us : us[i] = v
    BY <1>0 DEF ToSet
  <2> HIDE DEF fan, To
  <2> QED
    BY <2>1, <2>2 DEF ToSet
<1>3. own \in Seq(Mutation) /\ ToSet(own) = {To(c)}
  BY <1>1 DEF FeedWrites, ToSet
<1>4. ws \in Seq(Mutation) /\ ToSet(ws) = ToSet(fan) \cup {To(c)}
  <2> HIDE DEF own, fan, To
  <2> QED
    BY <1>2, <1>3, JoinedSet
<1>5. Issue(c, ws)
  BY DEF FanOut
<1> HIDE DEF own, fan, ws, To
<1>6. /\ \A m \in ToSet(ws) : \E v \in T \cup {c} : m = To(v)
      /\ \A v \in T \cup {c} : To(v) \in ToSet(ws)
  BY <1>2, <1>4
<1>7. \A m \in ToSet(ws) : m.op = "feedDel" /\ m.entry = e /\ m.uid \in T \cup {c}
  BY <1>1, <1>6
<1>8. SameGraph(c) /\ SameRest(c)
  BY <1>4, <1>5, <1>7, ListsUnwritten
<1>9. /\ pending'[c] = pending[c] \o ws /\ pending[c] \in Seq(Mutation) /\ ws \in Seq(Mutation)
      /\ UNCHANGED <<feed, entries>>
  BY <1>4, <1>5 DEF Issue, TypeOK, server
<1>10. ASSUME NEW f \in Entries
       PROVE  EntryStands(c, f)' = EntryStands(c, f)
  <2>1. \A m \in ToSet(ws) : m \notin EntryOf(f)
    BY <1>7 DEF EntryOf
  <2> QED
    BY <1>9, <2>1, SaysAppended DEF EntryStands
<1>11. ASSUME NEW f \in Entries, NEW u \in Users
       PROVE  Fed(c, u, f)' <=> ~(f = e /\ u \in T \cup {c}) /\ Fed(c, u, f)
  <2>1. CASE ~(f = e /\ u \in T \cup {c})
    <3>1. \A m \in ToSet(ws) : m \notin FeedOf(u, f)
      BY <1>7, <2>1 DEF FeedOf
    <3>2. ASSUME NEW stored
          PROVE  Says(pending[c] \o ws, FeedOf(u, f), "feedSet", stored)
                   = Says(pending[c], FeedOf(u, f), "feedSet", stored)
      BY <1>9, <3>1, SaysAppended
    <3>3. Fed(c, u, f)' = Fed(c, u, f)
      BY <1>9, <3>2 DEF Fed
    <3> QED
      BY <2>1, <3>3
  <2>2. CASE f = e /\ u \in T \cup {c}
    <3>1. To(u) \in ToSet(ws) /\ To(u) \in FeedOf(u, e)
      BY <1>1, <1>6, <2>2 DEF FeedOf
    <3>2. \A m \in ToSet(ws) : m.op # "feedSet" \/ m \notin FeedOf(u, e)
      BY <1>7
    <3>3. ASSUME NEW stored PROVE ~Says(pending[c] \o ws, FeedOf(u, e), "feedSet", stored)
      BY <1>9, <3>1, <3>2, SaysReplaced
    <3>4. ~Fed(c, u, e)'
      BY <1>9, <3>3 DEF Fed
    <3> QED
      BY <2>2, <3>4
  <2> QED
    BY <2>1, <2>2
<1> QED
  BY <1>8, <1>10, <1>11

LEMMA DropTurn ==
  ASSUME OwnFeedInv, Serialized, NEW c \in Users, Alone(c), NEW e \in Entries,
         DeleteTripEntry(c, e)
  PROVE  Alone(c)' /\ Moves(c)
<1>1. TypeOK /\ Press(TRUE) /\ UNCHANGED <<server, kept, missed, torn>> /\ owner[e] = c
  BY DEF OwnFeedInv, DeleteTripEntry, history
<1>2. calls[c] = {} /\ me[c].followers = Fans(c, c)
  BY <1>1, PressFinds
<1>3. PICK T \in SUBSET Users : T = Fans(c, c)
  BY <1>1, FieldsType
<1>4. PICK us \in SetToSeqs(T) : Issue(c, FanOut("feedDel", c, us, e))
  BY <1>2, <1>3 DEF DeleteTripEntry
<1>5. /\ SameGraph(c) /\ SameRest(c)
      /\ \A f \in Entries :
           /\ EntryStands(c, f)' = EntryStands(c, f)
           /\ \A u \in Users : Fed(c, u, f)' <=> ~(f = e /\ u \in T \cup {c}) /\ Fed(c, u, f)
  BY <1>1, <1>4, DropSeen
<1>14. PICK k : k = [op |-> "drop", entry |-> e, n |-> presses]
  OBVIOUS
<1>15. PICK ks : ks = {k}
  OBVIOUS
<1>16. calls'[c] = ks /\ \A d \in Users \ {c} : calls'[d] = calls[d]
  BY <1>1, <1>2, <1>14, <1>15, AwaitedAlone DEF DeleteTripEntry
<1>17. k.op = "drop" /\ k.entry = e
  BY <1>14
<1>6. \A f, u : ~FillDue(c, f, u) /\ ~FillDue(c, f, u)' /\ ~Due(c, "accept", f)
                /\ ~Due(c, "accept", f)' /\ ~Due(c, "clear", f)
                /\ ~DropDue(c, f) /\ (DropDue(c, f)' <=> f = e)
  BY <1>2, <1>15, <1>16, <1>17 DEF FillDue, Due, DropDue
<1>7. OthersIdle(c)'
  BY <1>1, <1>4, <1>16, IssuedAlone, StillIdle DEF Alone
<1>8. Mirror(c)'
  BY <1>5, <1>6 DEF Alone, Mirror, SameGraph
<1>9. CallsFit(c)'
  BY <1>15, <1>16, <1>17 DEF CallsFit
<1>10. Complete(c)'
  BY <1>1, <1>3, <1>5, <1>6, OwnerAssumption DEF Alone, Complete, SameGraph
<1>11. Exact(c)'
  BY <1>1, <1>3, <1>5, <1>6, OwnerAssumption DEF Alone, Exact, Readers, SameGraph
<1>12. Alone(c)'
  BY <1>7, <1>8, <1>9, <1>10, <1>11 DEF Alone
<1> QED
  BY <1>5, <1>12, RestsFrom DEF Moves

-----------------------------------------------------------------------------
(* The callbacks of the device at work.                                    *)

LEMMA FeedIsLocal ==
  ASSUME TypeOK, NEW c \in Users, NEW e \in Entries
  PROVE  e \in LocalFeed(c) <=> Fed(c, c, e)
<1> DEFINE q == pending[c]
<1>1. \A i \in DOMAIN q : q[i] \in Mutation
  BY DEF TypeOK
<1>2. {i \in DOMAIN q : q[i] \in FeedOf(c, e)}
        = {i \in DOMAIN q : /\ q[i].op \in {"feedSet", "feedDel"}
                            /\ q[i].uid = c /\ q[i].entry = e}
  BY <1>1 DEF FeedOf
<1> QED
  BY <1>2 DEF LocalFeed, Fed, Says

\* An unfollow from the list is due alone, and so is the deletion of a trip's entry.
LEMMA NoLoneDue ==
  ASSUME NEW c \in Users, CallsFit(c), NEW k \in calls[c], k.op \notin Lone
  PROVE  /\ \A j \in calls[c] : j.op \notin Lone
         /\ \A e : ~DropDue(c, e)
<1>1. \A j \in calls[c] : j.op \notin Lone
  BY DEF CallsFit, Lone
<1> QED
  BY <1>1 DEF DropDue, Lone

\* The fill after a follow or an accept.
LEMMA FillTurn ==
  ASSUME OwnFeedInv, NEW c \in Users, Alone(c), NEW k \in calls[c], FeedFilled(c, k)
  PROVE  Alone(c)' /\ Moves(c)
<1>1. /\ TypeOK /\ UNCHANGED <<server, kept, torn>> /\ k \in Call /\ k.op = "fill" /\ Resume(c, k, {})
  BY DEF OwnFeedInv, TypeOK, FeedFilled, history
<1>2. k.uid \in Users /\ k.from \in Users /\ k.uid \in Fans(c, k.from)
  BY <1>1 DEF Call, Alone, CallsFit
<1>3. PICK ks : ks = {}
  OBVIOUS
<1>4. /\ \A j \in calls'[c] : j \in calls[c]
      /\ \A j \in calls[c] : j = k \/ j \in calls'[c]
      /\ \A d \in Users \ {c} : calls'[d] = calls[d]
  BY <1>1, <1>3, ResumedAlone
<1>5. /\ \A j \in calls[c] : j.op \notin Lone
      /\ \A e : ~DropDue(c, e) /\ ~DropDue(c, e)'
  <2>1. (\A j \in calls[c] : j.op \notin Lone) /\ \A e : ~DropDue(c, e)
    BY <1>1, NoLoneDue DEF Alone, Lone
  <2> QED
    BY <1>4, <2>1 DEF DropDue
<1> DEFINE found == Standing(c, k.from)
<1>6. PICK E \in SUBSET found :
        /\ E = found \/ Cardinality(E) = FillLimit
        /\ missed' = missed \ ({k.uid} \X E)
        /\ \E es \in SetToSeqs(E) :
             Issue(c, [i \in DOMAIN es |-> [op |-> "feedSet", uid |-> k.uid, entry |-> es[i]]])
  BY DEF FeedFilled
<1>7. found \in SUBSET Entries /\ \A e \in Entries : e \in found <=> (EntryStands(c, e) /\ owner[e] = k.from)
  <2>1. \A e \in Entries : e \in LocalEntries(c) <=> EntryStands(c, e)
    BY <1>1, StandsIsLocal
  <2> QED
    BY <2>1 DEF LocalEntries, Standing
<1> HIDE DEF found
<1>8. E \in SUBSET Entries
  BY <1>7
<1>9. Cardinality(Entries) <= FillLimit => E = found
  <2> SUFFICES ASSUME Cardinality(Entries) <= FillLimit, Cardinality(E) = FillLimit PROVE E = found
    BY <1>6
  <2>1. /\ Cardinality(E) <= Cardinality(Entries)
        /\ Cardinality(E) = Cardinality(Entries) => E = Entries
        /\ Cardinality(Entries) \in Nat
    BY <1>8, FiniteAssumption, FS_Subset, FS_CardinalityType
  <2>2. E = Entries
    BY <2>1, BoundsAssumption
  <2> QED
    BY <1>7, <2>2
<1>10. PICK es \in SetToSeqs(E) :
         Issue(c, [i \in DOMAIN es |-> [op |-> "feedSet", uid |-> k.uid, entry |-> es[i]]])
  BY <1>6
<1>11. SameGraph(c) /\ SameRest(c) /\ FeedGets(c, k.uid, E, "feedSet")
  BY <1>1, <1>2, <1>8, <1>10, FeedWritten
<1>12. \A f \in Entries :
         /\ EntryStands(c, f)' = EntryStands(c, f)
         /\ \A u \in Users : Fed(c, u, f)' <=> (u = k.uid /\ f \in E) \/ Fed(c, u, f)
  BY <1>11 DEF FeedGets
<1>13. /\ \A f, u : FillDue(c, f, u) => FillDue(c, f, u)' \/ (f = k.uid /\ u = k.from)
       /\ \A f : Due(c, "accept", f)' <=> Due(c, "accept", f)
       /\ \A f : Due(c, "clear", f)' <=> Due(c, "clear", f)
  BY <1>1, <1>4 DEF FillDue, Due
<1>14. OthersIdle(c)'
  BY <1>1, <1>4, <1>10, IssuedAlone, StillIdle DEF Alone
<1>15. Mirror(c)'
  BY <1>11, <1>13 DEF Alone, Mirror, SameGraph
<1>16. CallsFit(c)'
  <2>1. \A j \in calls'[c] : /\ j.op = "clear" => j.uid \in Users /\ c \notin Fans(c, j.uid)
                             /\ j.op = "fill" => j.from \in Users /\ j.uid \in Fans(c, j.from)
    <3>1. \A j \in calls[c] : j \in Call
      BY <1>1 DEF TypeOK
    <3> QED
      BY <1>4, <3>1 DEF Alone, CallsFit, Call
  <2> QED
    BY <1>4, <1>5, <1>11, <2>1 DEF CallsFit, SameGraph, Lone
<1>17. Complete(c)'
  <2>1. \A f \in Users, e \in Entries :
          <<f, e>> \in missed => <<f, e>> \in missed' \/ (f = k.uid /\ e \in E)
    BY <1>6
  <2> QED
    BY <1>1, <1>5, <1>7, <1>9, <1>11, <1>12, <1>13, <2>1, OwnerAssumption
    DEF Alone, Complete, SameGraph
<1>18. Exact(c)'
  BY <1>1, <1>2, <1>5, <1>7, <1>11, <1>12, <1>13, OwnerAssumption DEF Alone, Exact, Readers, SameGraph
<1>19. Alone(c)'
  BY <1>14, <1>15, <1>16, <1>17, <1>18 DEF Alone
<1> QED
  BY <1>11, <1>19, RestsFrom DEF Moves

\* A fill that fails is remembered.
LEMMA FillFailsTurn ==
  ASSUME OwnFeedInv, NEW c \in Users, Alone(c), NEW k \in calls[c], FillFails(c, k)
  PROVE  Alone(c)' /\ Moves(c)
<1>1. /\ TypeOK /\ UNCHANGED <<server, pending, kept, torn>> /\ k \in Call /\ k.op = "fill"
      /\ Resume(c, k, {}) /\ missed' = missed \cup ({k.uid} \X Standing(c, k.from))
  BY DEF OwnFeedInv, TypeOK, FillFails
<1>2. k.uid \in Users /\ k.from \in Users
  BY <1>1 DEF Call
<1>3. PICK ks : ks = {}
  OBVIOUS
<1>4. /\ \A j \in calls'[c] : j \in calls[c]
      /\ \A j \in calls[c] : j = k \/ j \in calls'[c]
      /\ \A d \in Users \ {c} : calls'[d] = calls[d]
  BY <1>1, <1>3, ResumedAlone
<1>5. /\ \A j \in calls[c] : j.op \notin Lone
      /\ \A e : ~DropDue(c, e) /\ ~DropDue(c, e)'
  <2>1. (\A j \in calls[c] : j.op \notin Lone) /\ \A e : ~DropDue(c, e)
    BY <1>1, NoLoneDue DEF Alone, Lone
  <2> QED
    BY <1>4, <2>1 DEF DropDue
<1>6. SameGraph(c) /\ SameRest(c) /\ SameFeeds(c)
  BY <1>1, NothingIssued
<1>7. /\ \A f, u : FillDue(c, f, u) => FillDue(c, f, u)' \/ (f = k.uid /\ u = k.from)
      /\ \A f : Due(c, "accept", f)' <=> Due(c, "accept", f)
      /\ \A f : Due(c, "clear", f)' <=> Due(c, "clear", f)
  BY <1>1, <1>4 DEF FillDue, Due
<1>8. \A f \in Users, e \in Entries :
        \/ <<f, e>> \in missed
        \/ f = k.uid /\ owner[e] = k.from /\ EntryStands(c, e)
        => <<f, e>> \in missed'
  <2>1. \A e \in Entries : e \in LocalEntries(c) <=> EntryStands(c, e)
    BY <1>1, StandsIsLocal
  <2> QED
    BY <1>1, <2>1 DEF Standing
<1>9. OthersIdle(c)'
  BY <1>1, <1>4, StillIdle DEF Alone
<1>10. Mirror(c)'
  BY <1>6, <1>7 DEF Alone, Mirror, SameGraph
<1>11. CallsFit(c)'
  <2>1. \A j \in calls'[c] : /\ j.op = "clear" => j.uid \in Users /\ c \notin Fans(c, j.uid)
                             /\ j.op = "fill" => j.from \in Users /\ j.uid \in Fans(c, j.from)
    <3>1. \A j \in calls[c] : j \in Call
      BY <1>1 DEF TypeOK
    <3> QED
      BY <1>4, <3>1 DEF Alone, CallsFit, Call
  <2> QED
    BY <1>4, <1>5, <1>6, <2>1 DEF CallsFit, SameGraph, Lone
<1>12. Complete(c)'
  BY <1>1, <1>5, <1>6, <1>7, <1>8, OwnerAssumption DEF Alone, Complete, SameGraph, SameFeeds
<1>13. Exact(c)'
  BY <1>1, <1>5, <1>6, <1>7, OwnerAssumption DEF Alone, Exact, Readers, SameGraph, SameFeeds
<1>14. Alone(c)'
  BY <1>9, <1>10, <1>11, <1>12, <1>13 DEF Alone
<1> QED
  BY <1>6, <1>14, RestsFrom DEF Moves

\* The entry of a trip goes when it has been read; no feed lists it any more.
LEMMA DroppedTurn ==
  ASSUME OwnFeedInv, NEW c \in Users, Alone(c), NEW k \in calls[c], EntryDropped(c, k)
  PROVE  Alone(c)' /\ Moves(c)
<1>1. /\ TypeOK /\ UNCHANGED <<server, kept, missed, torn>> /\ k \in Call /\ k.op = "drop"
      /\ Resume(c, k, {})
  BY DEF OwnFeedInv, TypeOK, EntryDropped, history
<1>2. PICK e \in Entries : e = k.entry
  BY <1>1 DEF Call
<1>3. calls[c] = {k}
  BY <1>1 DEF Alone, CallsFit
<1>4. calls'[c] = {} /\ \A d \in Users \ {c} : calls'[d] = calls[d]
  <2>1. PICK ks : ks = {}
    OBVIOUS
  <2> QED
    BY <1>1, <1>3, <2>1, ResumedAlone
<1>5. \A f, u : ~FillDue(c, f, u) /\ ~FillDue(c, f, u)' /\ ~Due(c, "accept", f)
                /\ ~Due(c, "accept", f)' /\ ~Due(c, "clear", f)
                /\ (DropDue(c, f) <=> f = e) /\ ~DropDue(c, f)'
  BY <1>1, <1>2, <1>3, <1>4 DEF FillDue, Due, DropDue
<1> DEFINE ws == <<EntryWrite("entryDel", e)>>
<1>6. ws \in Seq(Mutation) /\ ToSet(ws) = {EntryWrite("entryDel", e)}
  BY Shapes DEF ToSet
<1>7. Issue(c, ws)
  BY <1>2 DEF EntryDropped
<1> HIDE DEF ws
<1>8. \A m \in ToSet(ws) : m.op = "entryDel" /\ m.entry = e
  BY <1>6 DEF EntryWrite
<1>9. SameGraph(c) /\ SameRest(c)
  BY <1>1, <1>6, <1>7, <1>8, ListsUnwritten
<1>10. /\ pending'[c] = pending[c] \o ws /\ pending[c] \in Seq(Mutation)
       /\ UNCHANGED <<feed, entries>>
  BY <1>1, <1>7 DEF Issue, TypeOK, server
<1>11. ASSUME NEW f \in Entries
       PROVE  EntryStands(c, f)' <=> f # e /\ EntryStands(c, f)
  <2>1. CASE f # e
    <3>1. \A m \in ToSet(ws) : m \notin EntryOf(f)
      BY <1>8, <2>1 DEF EntryOf
    <3>2. EntryStands(c, f)' = EntryStands(c, f)
      BY <1>6, <1>10, <3>1, SaysAppended DEF EntryStands
    <3> QED
      BY <2>1, <3>2
  <2>2. CASE f = e
    <3>1. /\ \E m \in ToSet(ws) : m \in EntryOf(e)
          /\ \A m \in ToSet(ws) : m.op # "entrySet" \/ m \notin EntryOf(e)
      BY <1>6, <1>8, Shapes DEF EntryWrite, EntryOf
    <3>2. ASSUME NEW stored PROVE ~Says(pending[c] \o ws, EntryOf(e), "entrySet", stored)
      BY <1>6, <1>10, <3>1, SaysReplaced
    <3>3. ~EntryStands(c, e)'
      BY <1>10, <3>2 DEF EntryStands
    <3> QED
      BY <2>2, <3>3
  <2> QED
    BY <2>1, <2>2
<1>12. ASSUME NEW f \in Entries, NEW u \in Users
       PROVE  Fed(c, u, f)' = Fed(c, u, f)
  <2>1. \A m \in ToSet(ws) : m \notin FeedOf(u, f)
    BY <1>8 DEF FeedOf
  <2> QED
    BY <1>6, <1>10, <2>1, SaysAppended DEF Fed
<1>13. OthersIdle(c)'
  BY <1>1, <1>4, <1>7, IssuedAlone, StillIdle DEF Alone
<1>14. Mirror(c)'
  BY <1>5, <1>9 DEF Alone, Mirror, SameGraph
<1>15. CallsFit(c)'
  BY <1>4 DEF CallsFit
<1>16. Complete(c)'
  BY <1>1, <1>5, <1>9, <1>11, <1>12, OwnerAssumption DEF Alone, Complete, SameGraph
<1>17. Exact(c)'
  BY <1>1, <1>5, <1>9, <1>11, <1>12, OwnerAssumption DEF Alone, Exact, Readers, SameGraph
<1>18. Alone(c)'
  BY <1>13, <1>14, <1>15, <1>16, <1>17 DEF Alone
<1> QED
  BY <1>9, <1>18, RestsFrom DEF Moves

\* Without an answer the entry stands and is torn.
LEMMA DropFailsTurn ==
  ASSUME OwnFeedInv, NEW c \in Users, Alone(c), NEW k \in calls[c], DropFails(c, k)
  PROVE  Alone(c)' /\ Moves(c)
<1>1. /\ TypeOK /\ UNCHANGED <<server, pending, kept, missed>> /\ k \in Call /\ k.op = "drop"
      /\ Resume(c, k, {}) /\ torn' = torn \cup ({k.entry} \cap LocalEntries(c))
  BY DEF OwnFeedInv, TypeOK, DropFails
<1>2. PICK e \in Entries : e = k.entry
  BY <1>1 DEF Call
<1>3. calls[c] = {k}
  BY <1>1 DEF Alone, CallsFit
<1>4. calls'[c] = {} /\ \A d \in Users \ {c} : calls'[d] = calls[d]
  <2>1. PICK ks : ks = {}
    OBVIOUS
  <2> QED
    BY <1>1, <1>3, <2>1, ResumedAlone
<1>5. \A f, u : ~FillDue(c, f, u) /\ ~FillDue(c, f, u)' /\ ~Due(c, "accept", f)
                /\ ~Due(c, "accept", f)' /\ ~Due(c, "clear", f)
                /\ (DropDue(c, f) <=> f = e) /\ ~DropDue(c, f)'
  BY <1>1, <1>2, <1>3, <1>4 DEF FillDue, Due, DropDue
<1>6. SameGraph(c) /\ SameRest(c) /\ SameFeeds(c)
  BY <1>1, NothingIssued
<1>7. torn \subseteq torn' /\ (EntryStands(c, e) => e \in torn')
  BY <1>1, <1>2, StandsIsLocal
<1>8. OthersIdle(c)'
  BY <1>1, <1>4, StillIdle DEF Alone
<1>9. Mirror(c)'
  BY <1>5, <1>6 DEF Alone, Mirror, SameGraph
<1>10. CallsFit(c)'
  BY <1>4 DEF CallsFit
<1>11. Complete(c)'
  BY <1>1, <1>5, <1>6, <1>7, OwnerAssumption DEF Alone, Complete, SameGraph, SameFeeds
<1>12. Exact(c)'
  BY <1>1, <1>5, <1>6, OwnerAssumption DEF Alone, Exact, Readers, SameGraph, SameFeeds
<1>13. Alone(c)'
  BY <1>8, <1>9, <1>10, <1>11, <1>12 DEF Alone
<1> QED
  BY <1>6, <1>13, RestsFrom DEF Moves

\* The clear after an unfollow.
LEMMA ClearTurn ==
  ASSUME OwnFeedInv, NEW c \in Users, Alone(c), NEW k \in calls[c], FeedCleared(c, k)
  PROVE  Alone(c)' /\ Moves(c)
<1>1. /\ TypeOK /\ UNCHANGED <<server, missed, torn>> /\ kept' = kept \ {<<c, k.uid>>}
      /\ k \in Call /\ k.op = "clear" /\ Resume(c, k, {}) /\ k.uid # c
  BY DEF OwnFeedInv, TypeOK, FeedCleared, CallsOwned, CallOwned
<1>2. k.uid \in Users /\ c \notin Fans(c, k.uid)
  BY <1>1 DEF Call, Alone, CallsFit
<1>3. PICK ks : ks = {}
  OBVIOUS
<1>4. /\ \A j \in calls'[c] : j \in calls[c]
      /\ \A j \in calls[c] : j = k \/ j \in calls'[c]
      /\ \A d \in Users \ {c} : calls'[d] = calls[d]
  BY <1>1, <1>3, ResumedAlone
<1>5. /\ \A j \in calls[c] : j.op \notin Lone
      /\ \A e : ~DropDue(c, e) /\ ~DropDue(c, e)'
  <2>1. (\A j \in calls[c] : j.op \notin Lone) /\ \A e : ~DropDue(c, e)
    BY <1>1, NoLoneDue DEF Alone, Lone
  <2> QED
    BY <1>4, <2>1 DEF DropDue
<1> DEFINE E == {e \in LocalFeed(c) : owner[e] = k.uid}
<1>6. PICK es \in SetToSeqs(E) :
        Issue(c, [i \in DOMAIN es |-> [op |-> "feedDel", uid |-> c, entry |-> es[i]]])
  BY DEF FeedCleared
<1>7. E \in SUBSET Entries /\ \A e \in Entries : e \in E <=> (Fed(c, c, e) /\ owner[e] = k.uid)
  <2>1. \A e \in Entries : e \in LocalFeed(c) <=> Fed(c, c, e)
    BY <1>1, FeedIsLocal
  <2> QED
    BY <2>1 DEF LocalFeed
<1> HIDE DEF E
<1>8. SameGraph(c) /\ SameRest(c) /\ FeedGets(c, c, E, "feedDel")
  BY <1>1, <1>6, <1>7, FeedWritten
<1>9. \A f \in Entries :
        /\ EntryStands(c, f)' = EntryStands(c, f)
        /\ \A u \in Users : Fed(c, u, f)' <=> ~(u = c /\ f \in E) /\ Fed(c, u, f)
  BY <1>8 DEF FeedGets
<1>10. /\ \A f, u : FillDue(c, f, u)' <=> FillDue(c, f, u)
       /\ \A f : Due(c, "accept", f)' <=> Due(c, "accept", f)
       /\ \A f : Due(c, "clear", f) => Due(c, "clear", f)' \/ f = k.uid
  BY <1>1, <1>4 DEF FillDue, Due
<1>11. OthersIdle(c)'
  BY <1>1, <1>4, <1>6, IssuedAlone, StillIdle DEF Alone
<1>12. Mirror(c)'
  BY <1>8, <1>10 DEF Alone, Mirror, SameGraph
<1>13. CallsFit(c)'
  <2>1. \A j \in calls'[c] : /\ j.op = "clear" => j.uid \in Users /\ c \notin Fans(c, j.uid)
                             /\ j.op = "fill" => j.from \in Users /\ j.uid \in Fans(c, j.from)
    <3>1. \A j \in calls[c] : j \in Call
      BY <1>1 DEF TypeOK
    <3> QED
      BY <1>4, <3>1 DEF Alone, CallsFit, Call
  <2> QED
    BY <1>4, <1>5, <1>8, <2>1 DEF CallsFit, SameGraph, Lone
<1>14. Complete(c)'
  BY <1>1, <1>2, <1>5, <1>7, <1>8, <1>9, <1>10, OwnerAssumption DEF Alone, Complete, SameGraph
<1>15. Exact(c)'
  BY <1>1, <1>5, <1>7, <1>8, <1>9, <1>10, OwnerAssumption DEF Alone, Exact, Readers, SameGraph
<1>16. Alone(c)'
  BY <1>11, <1>12, <1>13, <1>14, <1>15 DEF Alone
<1> QED
  BY <1>8, <1>16, RestsFrom DEF Moves

\* The requester's own document, once it has been read.
LEMMA AcceptedTurn ==
  ASSUME OwnFeedInv, NEW c \in Users, Alone(c), NEW k \in calls[c], AcceptFetched(c, k)
  PROVE  Alone(c)' /\ Moves(c)
<1>1. /\ TypeOK /\ UNCHANGED <<server, kept, missed, torn>> /\ k \in Call /\ k.op = "accept" /\ Resume(c, k, {})
  BY DEF OwnFeedInv, TypeOK, AcceptFetched, history
<1>2. PICK r \in Users : r = k.uid
  BY <1>1 DEF Call
<1>3. PICK ks : ks = {}
  OBVIOUS
<1>4. /\ \A j \in calls'[c] : j \in calls[c]
      /\ \A j \in calls[c] : j = k \/ j \in calls'[c]
      /\ \A d \in Users \ {c} : calls'[d] = calls[d]
  BY <1>1, <1>3, ResumedAlone
<1>5. /\ \A j \in calls[c] : j.op \notin Lone
      /\ \A e : ~DropDue(c, e) /\ ~DropDue(c, e)'
  <2>1. (\A j \in calls[c] : j.op \notin Lone) /\ \A e : ~DropDue(c, e)
    BY <1>1, NoLoneDue DEF Alone, Lone
  <2> QED
    BY <1>4, <2>1 DEF DropDue
<1>6. PICK m : m = modifyFollowing(View(c, r).following \cup {c}, r)
  OBVIOUS
<1>7. m \in Mutation /\ m.op = "following" /\ m.uid = r /\ m.val = Idols(c, r) \cup {c}
  <2>1. Idols(c, r) \in SUBSET Users /\ View(c, r).following = Idols(c, r)
    BY <1>1, FieldsType
  <2> QED
    BY <1>6, <2>1, Shapes DEF modifyFollowing, Write, ListField
<1>8. Issue(c, <<m>>)
  BY <1>2, <1>6 DEF AcceptFetched
<1>9. /\ SameFeeds(c)
      /\ \A u \in Users : /\ Fans(c, u)' = Put(m, "followers", u, Fans(c, u))
                          /\ Idols(c, u)' = Put(m, "following", u, Idols(c, u))
                          /\ Asks(c, u)' = Put(m, "requests", u, Asks(c, u))
                          /\ Open(c, u)' = Put(m, "public", u, Open(c, u))
  BY <1>1, <1>7, <1>8, OneSeen DEF ListField
<1>10. /\ Rests(c)
       /\ \A u \in Users : Fans(c, u)' = Fans(c, u)
       /\ \A u \in Users : Idols(c, u)' = IF u = r THEN Idols(c, u) \cup {c} ELSE Idols(c, u)
  BY <1>7, <1>9 DEF Put, Rests, FansStay, AsksStay, OpenStay
<1>11. /\ \A f, u : FillDue(c, f, u)' <=> FillDue(c, f, u)
       /\ Due(c, "accept", r)
       /\ \A f : Due(c, "accept", f)' => Due(c, "accept", f)
       /\ \A f : Due(c, "accept", f) => Due(c, "accept", f)' \/ f = r
       /\ \A f : Due(c, "clear", f)' <=> Due(c, "clear", f)
  BY <1>1, <1>2, <1>4 DEF FillDue, Due
<1>12. OthersIdle(c)'
  BY <1>1, <1>4, <1>8, IssuedAlone, StillIdle DEF Alone
<1>13. Mirror(c)'
  BY <1>10, <1>11 DEF Alone, Mirror
<1>14. CallsFit(c)'
  <2>1. \A j \in calls'[c] : /\ j.op = "clear" => j.uid \in Users /\ c \notin Fans(c, j.uid)
                             /\ j.op = "fill" => j.from \in Users /\ j.uid \in Fans(c, j.from)
    <3>1. \A j \in calls[c] : j \in Call
      BY <1>1 DEF TypeOK
    <3> QED
      BY <1>4, <3>1 DEF Alone, CallsFit, Call
  <2> QED
    BY <1>4, <1>5, <1>10, <2>1 DEF CallsFit, Lone
<1>15. Complete(c)'
  BY <1>1, <1>5, <1>9, <1>10, <1>11, OwnerAssumption DEF Alone, Complete, SameFeeds
<1>16. Exact(c)'
  BY <1>1, <1>5, <1>9, <1>10, <1>11, OwnerAssumption DEF Alone, Exact, Readers, SameFeeds
<1>17. Alone(c)'
  BY <1>12, <1>13, <1>14, <1>15, <1>16 DEF Alone
<1> QED
  BY <1>10, <1>17 DEF Moves

\* The list unfollow, once the other user's document has been read.
LEMMA UnfollowedTurn ==
  ASSUME OwnFeedInv, NEW c \in Users, Alone(c), NEW k \in calls[c], UnfollowFetched(c, k)
  PROVE  Alone(c)' /\ Moves(c)
<1>1. /\ TypeOK /\ UNCHANGED <<server, kept, missed, torn>> /\ k \in Call /\ k.op = "unfollow"
  BY DEF OwnFeedInv, TypeOK, UnfollowFetched, history
<1>2. PICK p \in Users : p = k.uid
  BY <1>1 DEF Call
<1>3. /\ calls[c] = {k} /\ me[c].following = Idols(c, c) /\ p \in Idols(c, c)
      /\ <<c, p>> \in kept
  BY <1>1, <1>2 DEF Alone, CallsFit
<1>4. PICK ks : ks = {[op |-> "self", n |-> k.n]}
  OBVIOUS
<1>5. calls'[c] = ks /\ \A d \in Users \ {c} : calls'[d] = calls[d]
  <2>1. Resume(c, k, ks)
    BY <1>4 DEF UnfollowFetched
  <2> QED
    BY <1>1, <1>3, <2>1, ResumedAlone
<1>6. \A j \in ks : j.op = "self"
  BY <1>4
<1>7. PICK m, w : /\ m = modifyFollowing(me[c].following \ {p}, c)
                  /\ w = modifyFollowers(View(c, p).followers \ {c}, p)
  OBVIOUS
<1>8. /\ m \in Mutation /\ m.op = "following" /\ m.uid = c /\ m.val = Idols(c, c) \ {p}
      /\ w \in Mutation /\ w.op = "followers" /\ w.uid = p /\ w.val = Fans(c, p) \ {c}
  <2>1. Idols(c, c) \in SUBSET Users /\ Fans(c, p) \in SUBSET Users
        /\ View(c, p).followers = Fans(c, p)
    BY <1>1, FieldsType
  <2> QED
    BY <1>3, <1>7, <2>1, Shapes DEF modifyFollowing, modifyFollowers, Write, ListField
<1>9. Issue(c, <<m, w>>)
  BY <1>2, <1>7 DEF UnfollowFetched, unfollowUser
<1>10. /\ SameFeeds(c)
       /\ \A u \in Users :
            /\ Fans(c, u)' = Put(m, "followers", u, Put(w, "followers", u, Fans(c, u)))
            /\ Idols(c, u)' = Put(m, "following", u, Put(w, "following", u, Idols(c, u)))
            /\ Asks(c, u)' = Put(m, "requests", u, Put(w, "requests", u, Asks(c, u)))
            /\ Open(c, u)' = Open(c, u)
  BY <1>1, <1>8, <1>9, PairSeen DEF ListField
<1>11. /\ FansBecome(c, p, Fans(c, p) \ {c}) /\ AsksStay(c) /\ OpenStay(c)
       /\ \A u \in Users : Idols(c, u)' = IF u = c THEN Idols(c, u) \ {p} ELSE Idols(c, u)
  BY <1>8, <1>10 DEF Put, FansBecome, AsksStay, OpenStay
<1>12. \A u \in Users : Fans(c, u)' = IF u = p THEN Fans(c, u) \ {c} ELSE Fans(c, u)
  BY <1>11 DEF FansBecome
<1>13. OthersIdle(c)'
  BY <1>1, <1>5, <1>9, IssuedAlone, StillIdle DEF Alone
<1>14. /\ \A f : ~Due(c, "accept", f) /\ ~Due(c, "accept", f)' /\ ~Due(c, "clear", f)
       /\ \A f, u : ~FillDue(c, f, u)
       /\ \A e : ~DropDue(c, e) /\ ~DropDue(c, e)'
  BY <1>1, <1>3, <1>5, <1>6 DEF Due, FillDue, DropDue
<1>15. Mirror(c)'
  BY <1>11, <1>12, <1>14 DEF Alone, Mirror
<1>16. CallsFit(c)'
  BY <1>5, <1>6 DEF CallsFit
<1>17. Complete(c)'
  BY <1>1, <1>10, <1>12, <1>14, OwnerAssumption DEF Alone, Complete, SameFeeds
<1>18. Exact(c)'
  BY <1>1, <1>3, <1>10, <1>12, <1>14, OwnerAssumption DEF Alone, Exact, Readers, SameFeeds
<1>19. Alone(c)'
  BY <1>13, <1>15, <1>16, <1>17, <1>18 DEF Alone
<1>20. Unfollows(c, p)
  <2>1. c \in Fans(c, p)
    BY <1>3 DEF Alone, Mirror
  <2> QED
    BY <1>11, <2>1 DEF Unfollows
<1> QED
  BY <1>19, <1>20 DEF Moves

\* Callbacks that only read.
LEMMA FetchTurn ==
  ASSUME OwnFeedInv, TypeOK', NEW c \in Users, Alone(c), NEW k \in calls[c],
         OtherFetched(c, k) \/ MeFetched(c, k) \/ SelfFetched(c, k)
  PROVE  Alone(c)' /\ Moves(c)
<1>1. /\ TypeOK /\ UNCHANGED <<server, pending, kept, missed, torn>>
      /\ k.op \in {"page", "refreshOther", "refreshMe", "self"}
  BY DEF OwnFeedInv, OtherFetched, MeFetched, SelfFetched, history
<1>2. PICK ks : /\ Resume(c, k, ks)
                /\ ks = {} \/ (k.op = "refreshMe" /\ ks = {[k EXCEPT !.op = "refreshOther"]})
  BY DEF OtherFetched, MeFetched, SelfFetched
<1>3. \A j \in ks : j.op \notin Telling
  <2>1. CASE ks = {}
    BY <2>1
  <2>2. CASE k.op = "refreshMe" /\ ks = {[k EXCEPT !.op = "refreshOther"]}
    <3>1. k \in Call
      BY <1>1 DEF TypeOK
    <3>2. [k EXCEPT !.op = "refreshOther"].op = "refreshOther"
      BY <2>2, <3>1 DEF Call
    <3> QED
      BY <2>2, <3>2 DEF Telling
  <2> QED
    BY <1>2, <2>1, <2>2
<1>4. calls'[c] = (calls[c] \ {k}) \cup ks /\ \A d \in Users \ {c} : calls'[d] = calls[d]
  BY <1>1, <1>2, ResumedAlone
<1>5. SameDue(c)
  BY <1>1, <1>3, <1>4 DEF SameDue, Telling
<1>6. LoneWaits(c)
  BY <1>1, NoLoneDue DEF Alone, LoneWaits, Lone
<1>7. OthersIdle(c)'
  BY <1>1, <1>4, StillIdle DEF Alone
<1>8. SameGraph(c) /\ SameRest(c) /\ SameFeeds(c)
  BY <1>1, NothingIssued
<1>9. /\ \A j \in calls'[c] : j.op \in {"clear", "unfollow"} => j.uid \in Users
      /\ \A j \in calls'[c] : j.op = "fill" => j.from \in Users
  <2>1. \A j \in calls'[c] : j \in Call
    BY DEF TypeOK
  <2> QED
    BY <2>1 DEF Call
<1>10. Alone(c)'
  BY <1>1, <1>5, <1>6, <1>7, <1>8, <1>9, AloneKept, OwnerAssumption
<1> QED
  BY <1>8, <1>10, RestsFrom DEF Moves

\* Copies that a device d brings up to date without a press or a callback.
LEMMA CopyTurn ==
  ASSUME OwnFeedInv, TypeOK', NEW c \in Users, Alone(c), NEW d \in Users,
         OpenRequests(d) \/ OpenFollowing(d) \/ ListenerStep(d)
  PROVE  Alone(c)' /\ Moves(c)
<1>1. /\ TypeOK /\ UNCHANGED <<server, pending, calls, kept, missed, torn>>
      /\ me'[c] = me[c] \/ me'[c] = View(c, c)
  BY DEF OwnFeedInv, TypeOK, OpenRequests, OpenFollowing, ListenerStep,
         Snapshot, ListenerFetched, history
<1>2. SameGraph(c) /\ SameRest(c) /\ SameFeeds(c)
  BY <1>1, NothingIssued
<1>3. View(c, c).following = Idols(c, c)
  BY <1>1, FieldsType
<1>4. SameDue(c)
  BY <1>1 DEF SameDue
<1>5. LoneWaits(c)
  BY <1>1, <1>2, <1>3 DEF LoneWaits, SameGraph
<1>6. OthersIdle(c)'
  BY <1>1, StillIdle DEF Alone
<1>7. /\ \A j \in calls'[c] : j.op \in {"clear", "unfollow"} => j.uid \in Users
      /\ \A j \in calls'[c] : j.op = "fill" => j.from \in Users
  <2>1. \A j \in calls'[c] : j \in Call
    BY DEF TypeOK
  <2> QED
    BY <2>1 DEF Call
<1>8. Alone(c)'
  BY <1>1, <1>2, <1>4, <1>5, <1>6, <1>7, AloneKept, OwnerAssumption
<1> QED
  BY <1>2, <1>8, RestsFrom DEF Moves

LEMMA CommitTurn ==
  ASSUME OwnFeedInv, TypeOK', NEW c \in Users, Alone(c), Commit(c)
  PROVE  Alone(c)' /\ Moves(c)
<1>1. /\ TypeOK /\ UNCHANGED <<me, calls, kept, missed, torn>>
      /\ \A d \in Users \ {c} : pending'[d] = pending[d]
  BY DEF OwnFeedInv, TypeOK, Commit, history
<1>2. SameGraph(c) /\ SameRest(c) /\ SameFeeds(c)
  BY <1>1, CommitSeen
<1>3. SameDue(c) /\ LoneWaits(c)
  BY <1>1 DEF SameDue, LoneWaits
<1>4. OthersIdle(c)'
  BY <1>1, StillIdle DEF Alone
<1>5. /\ \A j \in calls'[c] : j.op \in {"clear", "unfollow"} => j.uid \in Users
      /\ \A j \in calls'[c] : j.op = "fill" => j.from \in Users
  <2>1. \A j \in calls'[c] : j \in Call
    BY DEF TypeOK
  <2> QED
    BY <2>1 DEF Call
<1>6. Alone(c)'
  BY <1>1, <1>2, <1>3, <1>4, <1>5, AloneKept, OwnerAssumption
<1> QED
  BY <1>2, <1>6, RestsFrom DEF Moves

-----------------------------------------------------------------------------
(* Turns.                                                                  *)

LEMMA PressTurn ==
  ASSUME OwnFeedInv, Serialized, NEW c \in Users, Alone(c),
         \/ ProfileStep(c)
         \/ ListStep(c) /\ ~OpenRequests(c) /\ ~OpenFollowing(c)
         \/ OwnStep(c)
  PROVE  Alone(c)' /\ Moves(c)
<1>1. ASSUME ProfileStep(c)
      PROVE  Alone(c)' /\ Moves(c)
  <2>1. ASSUME NEW p \in Users PROVE ~FollowPressedTooEarly(c, p)
    BY DEF FollowPressedTooEarly, Press
  <2> QED
    BY <1>1, <2>1, OpenProfileTurn, RequestTurn, FollowTurn, UnfollowTurn DEF ProfileStep
<1>2. ASSUME ListStep(c), ~OpenRequests(c), ~OpenFollowing(c)
      PROVE  Alone(c)' /\ Moves(c)
  BY <1>2, AcceptTurn, DenyTurn, ListUnfollowTurn DEF ListStep
<1>3. ASSUME OwnStep(c)
      PROVE  Alone(c)' /\ Moves(c)
  <2>1. ~Killed(c)
    BY DEF Killed, Press
  <2> QED
    BY <1>3, <2>1, SwitchTurn, PublishTurn, DeleteTurn, DropTurn DEF OwnStep
<1> QED
  BY <1>1, <1>2, <1>3

\* Everybody presses only when all has settled.
LEMMA PressQuiet ==
  ASSUME Serialized, NEW d \in Users,
         \/ ProfileStep(d)
         \/ ListStep(d) /\ ~OpenRequests(d) /\ ~OpenFollowing(d)
         \/ OwnStep(d)
  PROVE  Quiet
<1>1. ASSUME NEW fresh, Press(fresh) PROVE Quiet
  BY <1>1 DEF Press
<1>2. ASSUME ProfileStep(d) PROVE Quiet
  BY <1>1, <1>2 DEF ProfileStep, OpenProfile, RequestPressed, FollowPressed, UnfollowPressed,
                    FollowPressedTooEarly
<1>3. ASSUME ListStep(d), ~OpenRequests(d), ~OpenFollowing(d) PROVE Quiet
  BY <1>1, <1>3 DEF ListStep, AcceptPressed, DenyPressed, ListUnfollowPressed
<1>4. ASSUME OwnStep(d) PROVE Quiet
  BY <1>1, <1>4 DEF OwnStep, TogglePrivacy, Publish, DeleteEntry, DeleteTripEntry, Killed
<1> QED
  BY <1>2, <1>3, <1>4

LEMMA Turn ==
  ASSUME Serialized, OwnFeedInv, TypeOK', NEW b \in Users, Alone(b), [Next]_vars
  PROVE  \E c \in Users : Alone(c) /\ Alone(c)' /\ Moves(c)
<1>1. CASE UNCHANGED vars
  <2>1. UNCHANGED <<server, pending, calls, me, kept, missed, torn>>
    BY <1>1 DEF vars, history
  <2>2. TypeOK /\ SameGraph(b) /\ SameRest(b) /\ SameFeeds(b)
    BY <2>1, NothingIssued DEF OwnFeedInv
  <2>3. SameDue(b) /\ LoneWaits(b)
    BY <2>1 DEF SameDue, LoneWaits
  <2>4. OthersIdle(b)'
    BY <2>1, StillIdle DEF Alone
  <2>5. \A j \in calls'[b] : /\ j.op \in {"clear", "unfollow"} => j.uid \in Users
                             /\ j.op = "fill" => j.from \in Users
    <3>1. \A j \in calls'[b] : j \in Call
      BY DEF TypeOK
    <3> QED
      BY <3>1 DEF Call
  <2>6. Alone(b)'
    BY <2>1, <2>2, <2>3, <2>4, <2>5, AloneKept, OwnerAssumption
  <2> QED
    BY <2>2, <2>6, RestsFrom DEF Moves
<1>2. ASSUME NEW d \in Users, OpenRequests(d) \/ OpenFollowing(d) \/ ListenerStep(d)
      PROVE  Alone(b)' /\ Moves(b)
  BY <1>2, CopyTurn
<1>3. ASSUME NEW d \in Users, \/ ProfileStep(d)
                              \/ ListStep(d) /\ ~OpenRequests(d) /\ ~OpenFollowing(d)
                              \/ OwnStep(d)
      PROVE  Alone(d) /\ Alone(d)' /\ Moves(d)
  <2>1. Quiet
    BY <1>3, PressQuiet
  <2>2. Alone(d)
    BY <2>1, QuietTurns DEF OwnFeedInv
  <2> QED
    BY <1>3, <2>2, PressTurn
<1>4. ASSUME NEW d \in Users, CallbackStep(d)
      PROVE  Alone(b)' /\ Moves(b)
  <2>1. PICK k \in calls[d] : \/ OtherFetched(d, k)
                              \/ MeFetched(d, k)
                              \/ FeedFilled(d, k)
                              \/ FillFails(d, k)
                              \/ FeedCleared(d, k)
                              \/ AcceptFetched(d, k)
                              \/ UnfollowFetched(d, k)
                              \/ SelfFetched(d, k)
                              \/ EntryDropped(d, k)
                              \/ DropFails(d, k)
    BY <1>4 DEF CallbackStep
  <2>2. d = b
    BY <2>1 DEF Alone, OthersIdle, Idle
  <2> QED
    BY <2>1, <2>2, FetchTurn, FillTurn, FillFailsTurn, ClearTurn, AcceptedTurn,
       UnfollowedTurn, DroppedTurn, DropFailsTurn
<1>5. ASSUME NEW d \in Users, Commit(d)
      PROVE  Alone(b)' /\ Moves(b)
  <2>1. d = b
    BY <1>5 DEF Alone, OthersIdle, Idle, Commit
  <2> QED
    BY <1>5, <2>1, CommitTurn
<1> QED
  BY <1>1, <1>2, <1>3, <1>4, <1>5 DEF Next, NetworkStep, ListStep

TurnInv == OwnFeedInv /\ (Users # {} => \E c \in Users : Alone(c))

LEMMA TurnInit ==
  ASSUME Init
  PROVE  TurnInv
<1>1. OwnFeedInv
  BY OwnFeedInit
<1>2. ASSUME NEW c \in Users PROVE Alone(c)
  <2>1. \A d \in Users : calls[d] = {} /\ pending[d] = <<>>
    BY DEF Init
  <2>2. /\ \A u \in Users : Fans(c, u) = {} /\ Idols(c, u) = {}
        /\ \A e \in Entries : /\ ~EntryStands(c, e)
                              /\ \A u \in Users : ~Fed(c, u, e)
    <3>1. /\ \A u \in Users : followers[u] = {} /\ following[u] = {}
          /\ \A e \in Entries : e \notin entries /\ \A u \in Users : e \notin feed[u]
      BY DEF Init
    <3>2. pending[c] = <<>>
      BY <2>1
    <3>3. \A u \in Users : Fans(c, u) = {} /\ Idols(c, u) = {}
      BY <3>1, <3>2, NothingQueued
    <3>4. \A e \in Entries : ~EntryStands(c, e) /\ \A u \in Users : ~Fed(c, u, e)
      BY <3>1, <3>2 DEF EntryStands, Fed, Says
    <3> QED
      BY <3>3, <3>4
  <2>3. \A f : ~Due(c, "accept", f)
    BY <2>1 DEF Due
  <2> QED
    BY <2>1, <2>2, <2>3 DEF Alone, OthersIdle, Idle, Mirror, CallsFit, Complete, Exact
<1> QED
  BY <1>1, <1>2 DEF TurnInv

LEMMA TurnStep ==
  ASSUME Serialized, TurnInv, [Next]_vars
  PROVE  TurnInv'
<1>1. OwnFeedInv /\ OwnFeedInv' /\ TypeOK'
  BY AgreesStep DEF TurnInv, OwnFeedInv
<1>2. Users # {} => \E c \in Users : Alone(c)'
  BY <1>1, Turn DEF TurnInv
<1> QED
  BY <1>1, <1>2 DEF TurnInv

\* Users who take turns leave at most one device at work, and what that device has
\* queued and asked for always completes the two lists of a follow and the feeds.
THEOREM TurnsKept == Serialized => (Spec => []TurnInv)
<1> SUFFICES ASSUME Serialized PROVE Spec => []TurnInv
  OBVIOUS
<1>1. Init => TurnInv
  BY TurnInit
<1>2. TurnInv /\ [Next]_vars => TurnInv'
  BY TurnStep
<1> QED
  BY <1>1, <1>2, PTL DEF Spec

\* followButtonPressed, unfollowUser, acceptRequest and their callbacks write the two
\* lists of a follow in two steps: when users take turns, once everything has landed
\* the lists agree, for any number of users, presses and orders of the network.
THEOREM FollowsMirrored == Serialized => (Spec => []MirrorWhenQuiet)
<1> SUFFICES ASSUME Serialized PROVE Spec => []MirrorWhenQuiet
  OBVIOUS
<1>1. TurnInv => MirrorWhenQuiet
  <2> SUFFICES ASSUME TurnInv, Quiet, NEW f \in Users, NEW u \in Users
               PROVE  f \in followers[u] <=> u \in following[f]
    BY DEF MirrorWhenQuiet
  <2>1. PICK c \in Users : Alone(c)
    BY DEF TurnInv
  <2>2. calls[c] = {} /\ pending[c] = <<>>
    BY DEF Quiet
  <2>3. f \in Fans(c, u) <=> u \in Idols(c, f)
    BY <2>1, <2>2 DEF Alone, Mirror, Due
  <2> QED
    BY <2>2, <2>3, NothingQueued
<1>2. Spec => []TurnInv
  BY TurnsKept
<1> QED
  BY <1>1, <1>2, PTL

\* addToFirebase, deleteEntry, the fill after a follow or an accept and the clear after
\* an unfollow add up: once everything has landed a follower's feed has all that the
\* users it follows have stored (FillLimit permitting) and nothing they deleted, unless
\* the follow began again after an unfollow from the following list.
THEOREM FeedsExact == Serialized => (Spec => []FeedsExactWhenQuiet)
<1> SUFFICES ASSUME Serialized PROVE Spec => []FeedsExactWhenQuiet
  OBVIOUS
<1>1. TurnInv => FeedsExactWhenQuiet
  <2> SUFFICES ASSUME TurnInv PROVE FeedsExactWhenQuiet
    OBVIOUS
  <2>1. ASSUME Quiet, Cardinality(Entries) <= FillLimit, NEW u \in Users,
               NEW e \in entries \ torn, owner[e] \in following[u], <<u, e>> \notin missed
        PROVE  e \in feed[u]
    <3>1. PICK c \in Users : Alone(c)
      BY DEF TurnInv
    <3>2. calls[c] = {} /\ pending[c] = <<>>
      BY <2>1 DEF Quiet
    <3>3. e \in Entries /\ owner[e] \in Users
      BY OwnerAssumption DEF TurnInv, OwnFeedInv, TypeOK
    <3>4. u \in Fans(c, owner[e])
      BY <2>1, <3>1, <3>2, <3>3, NothingQueued DEF Alone, Mirror
    <3>5. EntryStands(c, e) /\ ~FillDue(c, u, owner[e]) /\ ~DropDue(c, e)
      BY <3>2, <3>3, NothingQueued DEF FillDue, DropDue
    <3>6. Fed(c, u, e)
      BY <2>1, <3>1, <3>3, <3>4, <3>5 DEF Alone, Complete
    <3> QED
      BY <3>2, <3>3, <3>6, NothingQueued
  <2>2. ASSUME Quiet, NEW e \in drawn \ entries, NEW f \in followers[owner[e]],
               <<f, owner[e]>> \notin kept, e \in feed[f]
        PROVE  FALSE
    <3>1. PICK c \in Users : Alone(c)
      BY OwnerAssumption DEF TurnInv, OwnFeedInv, TypeOK
    <3>2. calls[c] = {} /\ pending[c] = <<>>
      BY <2>2 DEF Quiet
    <3>3. e \in Entries /\ owner[e] \in Users /\ f \in Users
      BY OwnerAssumption DEF TurnInv, OwnFeedInv, TypeOK
    <3>4. Fed(c, f, e) /\ ~EntryStands(c, e) /\ ~Due(c, "clear", owner[e])
      BY <2>2, <3>2, <3>3, NothingQueued DEF Due
    <3> QED
      BY <2>2, <3>1, <3>3, <3>4 DEF Alone, Exact
  <2> QED
    BY <2>1, <2>2 DEF FeedsExactWhenQuiet, FeedCompleteWhenQuiet, DeletedLeavesFollowersFeeds
<1>2. Spec => []TurnInv
  BY TurnsKept
<1> QED
  BY <1>1, <1>2, PTL

-----------------------------------------------------------------------------
(* FollowGraph implements FollowSpec.                                      *)

\* The lists of FollowSpec are those device c's queue will leave.
Shows(c) ==
  /\ FollowsNow \in SUBSET (Users \X Users)
  /\ WaitingNow \in SUBSET (Users \X Users)
  /\ OpenNow \in SUBSET Users
  /\ \A f, u \in Users : /\ <<f, u>> \in FollowsNow <=> f \in Fans(c, u)
                         /\ <<f, u>> \in WaitingNow <=> f \in Asks(c, u)
  /\ \A u \in Users : u \in OpenNow <=> Open(c, u)

LEMMA AloneShows == \A c \in Users : TypeOK /\ OthersIdle(c) => Shows(c)
<1> SUFFICES ASSUME NEW c \in Users, TypeOK, OthersIdle(c) PROVE Shows(c)
  OBVIOUS
<1>1. ASSUME NEW field, NEW u \in Users, NEW stored
      PROVE  Landed(field, u, stored) = LocalField(c, field, u, stored)
  <2>1. \A d \in Users \ {c} : LocalField(d, field, u, stored) = stored
    BY DEF OthersIdle, Idle, LocalField
  <2> DEFINE ahead == {d \in Users : LocalField(d, field, u, stored) # stored}
  <2>2. Landed(field, u, stored) = IF ahead = {} THEN stored
                                   ELSE LocalField(CHOOSE d \in ahead : TRUE, field, u, stored)
    BY DEF Landed
  <2>3. CASE LocalField(c, field, u, stored) = stored
    <3>1. ahead = {}
      BY <2>1, <2>3
    <3> QED
      BY <2>2, <2>3, <3>1
  <2>4. CASE LocalField(c, field, u, stored) # stored
    <3>1. ahead = {c}
      BY <2>1, <2>4
    <3> HIDE DEF ahead
    <3>2. (CHOOSE d \in ahead : TRUE) = c
      BY <3>1
    <3> QED
      BY <2>2, <3>1, <3>2
  <2> QED
    BY <2>3, <2>4
<1>2. ASSUME NEW u \in Users
      PROVE  /\ Landed("followers", u, followers[u]) = Fans(c, u)
             /\ Landed("requests", u, requests[u]) = Asks(c, u)
             /\ Landed("public", u, public[u]) = Open(c, u)
  BY <1>1, FieldRead DEF Fans, Asks, Open
<1> QED
  BY <1>2 DEF Shows, FollowsNow, WaitingNow, OpenNow

LEMMA AloneShowsNext == (\A c \in Users : TypeOK /\ OthersIdle(c) => Shows(c))'
BY AloneShows, PTL

LEMMA MoveImplements ==
  ASSUME NEW c \in Users, Shows(c), Shows(c)', Moves(c)
  PROVE  [Abs!Next]_Abs!vars
<1> USE DEF FansBecome, AsksBecome, OpenBecome, FansStay, AsksStay, OpenStay
<1>1. CASE Rests(c)
  <2>1. FollowsNow' = FollowsNow /\ WaitingNow' = WaitingNow /\ OpenNow' = OpenNow
    BY <1>1 DEF Shows, Rests
  <2> QED
    BY <2>1 DEF Abs!vars
<1>2. ASSUME NEW p \in Users, Follows(c, p)
      PROVE  Abs!Next
  <2>1. /\ FollowsNow' = FollowsNow \cup {<<c, p>>}
        /\ WaitingNow' = WaitingNow /\ OpenNow' = OpenNow
    BY <1>2 DEF Shows, Follows
  <2>2. Abs!Follow(c, p)
    BY <1>2, <2>1 DEF Shows, Follows, Abs!Follow, Abs!Pairs
  <2> QED
    BY <2>2 DEF Abs!Next
<1>3. ASSUME NEW p \in Users, Requests(c, p)
      PROVE  Abs!Next
  <2>1. /\ WaitingNow' = WaitingNow \cup {<<c, p>>}
        /\ FollowsNow' = FollowsNow /\ OpenNow' = OpenNow
    BY <1>3 DEF Shows, Requests
  <2>2. Abs!Request(c, p)
    BY <1>3, <2>1 DEF Shows, Requests, Abs!Request, Abs!Pairs
  <2> QED
    BY <2>2 DEF Abs!Next
<1>4. ASSUME NEW p \in Users, Accepts(c, p)
      PROVE  Abs!Next
  <2>1. /\ WaitingNow' = WaitingNow \ {<<p, c>>}
        /\ FollowsNow' = FollowsNow \cup {<<p, c>>} /\ OpenNow' = OpenNow
    BY <1>4 DEF Shows, Accepts
  <2>2. Abs!Accept(p, c)
    BY <1>4, <2>1 DEF Shows, Accepts, Abs!Accept
  <2> QED
    BY <2>2 DEF Abs!Next
<1>5. ASSUME NEW p \in Users, Denies(c, p)
      PROVE  Abs!Next
  <2>1. /\ WaitingNow' = WaitingNow \ {<<p, c>>}
        /\ FollowsNow' = FollowsNow /\ OpenNow' = OpenNow
    BY <1>5 DEF Shows, Denies
  <2>2. Abs!Deny(p, c)
    BY <1>5, <2>1 DEF Shows, Denies, Abs!Deny
  <2> QED
    BY <2>2 DEF Abs!Next
<1>6. ASSUME NEW p \in Users, Unfollows(c, p)
      PROVE  Abs!Next
  <2>1. /\ FollowsNow' = FollowsNow \ {<<c, p>>}
        /\ WaitingNow' = WaitingNow /\ OpenNow' = OpenNow
    BY <1>6 DEF Shows, Unfollows
  <2>2. Abs!Unfollow(c, p)
    BY <1>6, <2>1 DEF Shows, Unfollows, Abs!Unfollow
  <2> QED
    BY <2>2 DEF Abs!Next
<1>7. ASSUME NEW b \in BOOLEAN, Switches(c, b)
      PROVE  Abs!Next
  <2>1. FollowsNow' = FollowsNow /\ WaitingNow' = WaitingNow
    <3>1. \A u \in Users : Fans(c, u)' = Fans(c, u) /\ Asks(c, u)' = Asks(c, u)
      BY <1>7 DEF Switches
    <3>2. \A f, u \in Users : /\ <<f, u>> \in FollowsNow' <=> <<f, u>> \in FollowsNow
                              /\ <<f, u>> \in WaitingNow' <=> <<f, u>> \in WaitingNow
      <4>1. \A f, u \in Users : /\ <<f, u>> \in FollowsNow <=> f \in Fans(c, u)
                                /\ <<f, u>> \in WaitingNow <=> f \in Asks(c, u)
        BY DEF Shows
      <4>2. \A f, u \in Users : /\ <<f, u>> \in FollowsNow' <=> f \in Fans(c, u)'
                                /\ <<f, u>> \in WaitingNow' <=> f \in Asks(c, u)'
        BY DEF Shows
      <4> QED
        BY <3>1, <4>1, <4>2
    <3>3. /\ FollowsNow' \in SUBSET (Users \X Users) /\ FollowsNow \in SUBSET (Users \X Users)
          /\ WaitingNow' \in SUBSET (Users \X Users) /\ WaitingNow \in SUBSET (Users \X Users)
      BY DEF Shows
    <3> QED
      BY <3>2, <3>3
  <2>3. \A u \in Users : u \in OpenNow' <=> (IF u = c THEN b ELSE u \in OpenNow)
    BY <1>7 DEF Shows, Switches
  <2>4. OpenNow' \in SUBSET Users /\ OpenNow \in SUBSET Users
    BY DEF Shows
  <2>7. OpenNow' \in {OpenNow \cup {c}, OpenNow \ {c}}
    <3>1. CASE b = TRUE
      <4>1. OpenNow' = OpenNow \cup {c}
        BY <2>3, <2>4, <3>1
      <4> QED
        BY <4>1
    <3>2. CASE b = FALSE
      <4>1. OpenNow' = OpenNow \ {c}
        BY <2>3, <2>4, <3>2
      <4> QED
        BY <4>1
    <3> QED
      BY <3>1, <3>2
  <2>2. Abs!SetPrivacy(c)
    BY <2>1, <2>7 DEF Abs!SetPrivacy
  <2> QED
    BY <2>2 DEF Abs!Next
<1> QED
  BY <1>1, <1>2, <1>3, <1>4, <1>5, <1>6, <1>7 DEF Moves

\* Pressed in turns, the buttons implement FollowSpec: every press is one step of it,
\* and no commit, callback or listener changes what it shows.
THEOREM FollowSpecImplemented == Serialized => (Spec => ImplementsFollowSpec)
<1> SUFFICES ASSUME Serialized PROVE Spec => Abs!Spec
  BY DEF ImplementsFollowSpec
<1>1. Init => Abs!Init
  <2> SUFFICES ASSUME Init PROVE Abs!Init
    OBVIOUS
  <2>1. ASSUME NEW c \in Users
        PROVE  Shows(c) /\ \A u \in Users : Fans(c, u) = {} /\ Asks(c, u) = {}
    <3>1. TypeOK /\ OthersIdle(c) /\ pending[c] = <<>>
      BY OwnFeedInit DEF OwnFeedInv, Init, OthersIdle, Idle
    <3>2. \A u \in Users : followers[u] = {} /\ requests[u] = {}
      BY DEF Init
    <3> QED
      BY <3>1, <3>2, AloneShows, NothingQueued
  <2>2. FollowsNow = {} /\ WaitingNow = {} /\ OpenNow \in SUBSET Users
    BY <2>1 DEF FollowsNow, WaitingNow, OpenNow, Shows
  <2> QED
    BY <2>2 DEF Abs!Init
<1>2. TurnInv /\ [Next]_vars => [Abs!Next]_Abs!vars
  <2> SUFFICES ASSUME TurnInv, [Next]_vars PROVE [Abs!Next]_Abs!vars
    OBVIOUS
  <2>1. OwnFeedInv /\ TypeOK /\ TypeOK'
    BY TypeStep DEF TurnInv, OwnFeedInv
  <2>2. CASE Users = {}
    <3>1. /\ FollowsNow = {} /\ WaitingNow = {} /\ OpenNow = {}
          /\ FollowsNow' = {} /\ WaitingNow' = {} /\ OpenNow' = {}
      BY <2>2 DEF FollowsNow, WaitingNow, OpenNow
    <3> QED
      BY <3>1 DEF Abs!vars
  <2>3. CASE Users # {}
    <3>1. PICK c \in Users : Alone(c) /\ Alone(c)' /\ Moves(c)
      BY <2>1, <2>3, Turn DEF TurnInv
    <3>2. Shows(c)
      BY <2>1, <3>1, AloneShows DEF Alone
    <3>3. Shows(c)'
      BY <2>1, <3>1, AloneShowsNext DEF Alone
    <3> QED
      BY <3>1, <3>2, <3>3, MoveImplements
  <2> QED
    BY <2>2, <2>3
<1>3. Spec => []TurnInv
  BY TurnsKept
<1> QED
  BY <1>1, <1>2, <1>3, PTL DEF Spec, Abs!Spec
=============================================================================

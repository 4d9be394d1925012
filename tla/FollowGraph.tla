---------------------------- MODULE FollowGraph ----------------------------
(***************************************************************************)
(* The social graph of the app and the news feed fan-out that follows it.  *)
(*                                                                         *)
(* Every user has one device.  A device never asks the server to add or    *)
(* remove ONE name: it reads a list, changes its own copy and writes the   *)
(* whole list back (modifyFollowers, modifyFollowing, modifyRequests in    *)
(* Models/User.swift).  The relation "f follows u" is stored twice, in     *)
(* f.following and in u.followers, by two separate writes.                 *)
(*                                                                         *)
(* Firestore (external) is modelled from the way the app uses it: a write  *)
(* is queued on the device in call order, is visible to that device at     *)
(* once and reaches the server later, one at a time; a read answers with   *)
(* the server's document overlaid with the device's own queue; answers     *)
(* arrive as callbacks, in any order.  The queue survives a relaunch.      *)
(*                                                                         *)
(* The lists are sets here: the code only asks whether a name is on a      *)
(* list, appends one name and filters one name out.                        *)
(***************************************************************************)
EXTENDS Naturals, Sequences, FiniteSets, SequencesExt

CONSTANTS Users,        \* accounts, one device each
          Entries,      \* entry ids a device may draw
          owner,        \* the user who draws an entry id
          FillLimit,    \* ".limit(to: 20)": entries copied into a new follower's feed
          MaxPresses,   \* bound on the buttons pressed in a behaviour
          MaxFetches,   \* bound on the fetches one listener has under way
          Serialized,   \* TRUE: a button is pressed only when the app is settled
          MayRestart,   \* TRUE: iOS may kill the app at any moment
          Unopened, Blank  \* a profile page never shown; one whose otherUser is nil

ASSUME OwnerAssumption == owner \in [Entries -> Users]

ASSUME FiniteAssumption == IsFiniteSet(Users) /\ IsFiniteSet(Entries)

ASSUME BoundsAssumption == /\ FillLimit \in Nat
                           /\ MaxPresses \in Nat
                           /\ MaxFetches \in Nat \ {0}
                           /\ Serialized \in BOOLEAN
                           /\ MayRestart \in BOOLEAN

VARIABLES followers, following, requests, public,  \* the documents users/{uid}
          feed,        \* users/{uid}/newsfeed: ids of the entries listed there
          entries,     \* the collection entries
          me,          \* the global currentUser of each device
          fetching,    \* fetches under way that the snapshot listener of a device began
          page,        \* ProfilePageViewController.otherUser, per profile shown
          requestList, \* FollowersListViewController.followers and .requests
          followList,  \* FollowingListViewController.following
          calls,       \* reads whose callback has not run yet
          pending,     \* writes the server has not applied yet, oldest first
          presses,     \* buttons pressed so far
          drawn,       \* entry ids already used
          asked, approved, everPublic, \* history: <<f, u>> asked, was accepted; u was public
          kept,        \* history: <<f, u>>, f unfollowed u where the feed is not cleared
          missed,      \* history: <<f, e>>, a fill that failed would have listed e in f's feed
          torn         \* history: entries whose writes were cut short: by the end of the
                       \* process, or by a read that failed in the deletion of a trip

server == <<followers, following, requests, public, feed, entries>>
screens == <<page, requestList, followList>>
history == <<drawn, asked, approved, everPublic, kept, missed, torn>>
vars == <<server, me, fetching, screens, calls, pending, presses, history>>

UserDoc == [followers : SUBSET Users, following : SUBSET Users,
            requests : SUBSET Users, public : BOOLEAN]

Mutation == [op : {"followers", "following", "requests"}, uid : Users, val : SUBSET Users]
            \cup [op : {"public"}, uid : Users, val : BOOLEAN]
            \cup [op : {"feedSet", "feedDel"}, uid : Users, entry : Entries]
            \cup [op : {"entrySet", "entryDel"}, entry : Entries]

\* One record per callback the view controllers pass to Firestore; n tells two
\* calls of the same kind apart.
Call == [op : {"page", "refreshMe", "refreshOther", "clear", "accept", "unfollow"},
         uid : Users, n : 0..MaxPresses]
        \cup [op : {"fill"}, uid : Users, from : Users, n : 0..MaxPresses]
        \cup [op : {"self"}, n : 0..MaxPresses]
        \cup [op : {"drop"}, entry : Entries, n : 0..MaxPresses]

TypeOK ==
  /\ followers \in [Users -> SUBSET Users]
  /\ following \in [Users -> SUBSET Users]
  /\ requests \in [Users -> SUBSET Users]
  /\ public \in [Users -> BOOLEAN]
  /\ feed \in [Users -> SUBSET Entries]
  /\ entries \in SUBSET Entries
  /\ me \in [Users -> UserDoc]
  /\ fetching \in [Users -> 0..MaxFetches]
  /\ page \in [Users -> [Users -> UserDoc \cup {Unopened, Blank}]]
  /\ requestList \in [Users -> [followers : SUBSET Users, requests : SUBSET Users]]
  /\ followList \in [Users -> SUBSET Users]
  /\ calls \in [Users -> SUBSET Call]
  /\ pending \in [Users -> Seq(Mutation)]
  /\ presses \in 0..MaxPresses
  /\ drawn \in SUBSET Entries
  /\ asked \in SUBSET (Users \X Users)
  /\ approved \in SUBSET (Users \X Users)
  /\ everPublic \in SUBSET Users
  /\ kept \in SUBSET (Users \X Users)
  /\ missed \in SUBSET (Users \X Entries)
  /\ torn \in SUBSET Entries

-----------------------------------------------------------------------------
(* Reads: the server's document overlaid with the device's own queue.      *)

Latest(hits) == CHOOSE i \in hits : \A j \in hits : j <= i

LocalField(c, field, u, stored) ==
  LET hits == {i \in DOMAIN pending[c] : /\ pending[c][i].op = field
                                         /\ pending[c][i].uid = u}
  IN  IF hits = {} THEN stored ELSE pending[c][Latest(hits)].val

\* fetchUser(uid:) as device c answers it.
View(c, u) ==
  [followers |-> LocalField(c, "followers", u, followers[u]),
   following |-> LocalField(c, "following", u, following[u]),
   requests  |-> LocalField(c, "requests", u, requests[u]),
   public    |-> LocalField(c, "public", u, public[u])]

LocalEntries(c) ==
  {e \in Entries :
     LET hits == {i \in DOMAIN pending[c] : /\ pending[c][i].op \in {"entrySet", "entryDel"}
                                            /\ pending[c][i].entry = e}
     IN  IF hits = {} THEN e \in entries ELSE pending[c][Latest(hits)].op = "entrySet"}

LocalFeed(c) ==
  {e \in Entries :
     LET hits == {i \in DOMAIN pending[c] : /\ pending[c][i].op \in {"feedSet", "feedDel"}
                                            /\ pending[c][i].uid = c
                                            /\ pending[c][i].entry = e}
     IN  IF hits = {} THEN e \in feed[c] ELSE pending[c][Latest(hits)].op = "feedSet"}

-----------------------------------------------------------------------------
(* Writes.                                                                 *)

Write(field, u, v) == [op |-> field, uid |-> u, val |-> v]
FeedWrites(op, us, e) == [i \in DOMAIN us |-> [op |-> op, uid |-> us[i], entry |-> e]]
EntryWrite(op, e) == [op |-> op, entry |-> e]

\* Mutant: "followersUids?.append((currentUser?.uid)!)" is forgotten.
FanOutWithoutSelf(op, c, us, e) == FeedWrites(op, us, e)

\* Mutant: only the author's own feed document is deleted.
FanOutDeletesOwn(op, c, us, e) ==
  IF op = "feedDel" THEN FeedWrites(op, <<c>>, e)
                    ELSE FeedWrites(op, us, e) \o FeedWrites(op, <<c>>, e)

\* One feed document per follower, then the author's own.
FanOut(op, c, us, e) == FeedWrites(op, us, e) \o FeedWrites(op, <<c>>, e)

Issue(c, writes) == pending' = [pending EXCEPT ![c] = @ \o writes]

modifyFollowers(list, u) == Write("followers", u, list)
modifyFollowing(list, u) == Write("following", u, list)
modifyRequests(list, u)  == Write("requests", u, list)

\* Mutant: the other user's followers list is written back unfiltered.
unfollowUserKeepsFollower(c, oldFollowingList, u, unfollowedFollowers) ==
  <<modifyFollowing(oldFollowingList \ {u}, c), modifyFollowers(unfollowedFollowers, u)>>

\* unfollowUser: both lists are filtered from the copies the caller hands over.
unfollowUser(c, oldFollowingList, u, unfollowedFollowers) ==
  <<modifyFollowing(oldFollowingList \ {u}, c),
    modifyFollowers(unfollowedFollowers \ {c}, u)>>

\* The server applies the oldest write of device c.
Commit(c) ==
  /\ pending[c] # <<>>
  /\ LET m == Head(pending[c]) IN
       /\ followers' = IF m.op = "followers" THEN [followers EXCEPT ![m.uid] = m.val] ELSE followers
       /\ following' = IF m.op = "following" THEN [following EXCEPT ![m.uid] = m.val] ELSE following
       /\ requests' = IF m.op = "requests" THEN [requests EXCEPT ![m.uid] = m.val] ELSE requests
       /\ public' = IF m.op = "public" THEN [public EXCEPT ![m.uid] = m.val] ELSE public
       /\ feed' = CASE m.op = "feedSet" -> [feed EXCEPT ![m.uid] = @ \cup {m.entry}]
                    [] m.op = "feedDel" -> [feed EXCEPT ![m.uid] = @ \ {m.entry}]
                    [] OTHER -> feed
       /\ entries' = CASE m.op = "entrySet" -> entries \cup {m.entry}
                       [] m.op = "entryDel" -> entries \ {m.entry}
                       [] OTHER -> entries
  /\ pending' = [pending EXCEPT ![c] = Tail(@)]
  /\ UNCHANGED <<me, fetching, screens, calls, presses, history>>

-----------------------------------------------------------------------------
(* When a button may be pressed.                                           *)

\* Nothing is in flight and every device has the newest copy of its own document.
Quiet == \A c \in Users : /\ calls[c] = {}
                          /\ pending[c] = <<>>
                          /\ fetching[c] = 0
                          /\ me[c] = View(c, c)

\* Every press is counted.  In the serialized mode users take turns: the app
\* has settled, and the screen pressed on shows the stored state.
Press(fresh) == /\ presses < MaxPresses
                /\ Serialized => Quiet /\ fresh
                /\ presses' = presses + 1

Loaded(c, p) == page[c][p] \notin {Unopened, Blank}
PageFresh(c, p) == page[c][p] = View(c, p)
RequestListFresh(c) == requestList[c] = [followers |-> me[c].followers,
                                         requests |-> me[c].requests]

Callback(op, uid) == [op |-> op, uid |-> uid, n |-> presses]
Await(c, new) == calls' = [calls EXCEPT ![c] = @ \cup new]
Resume(c, k, next) == calls' = [calls EXCEPT ![c] = (@ \ {k}) \cup next]

-----------------------------------------------------------------------------
(* currentUser follows the user's own document: the snapshot listener of   *)
(* TabBarViewController fetches the document again, and the callback of    *)
(* the fetch sets currentUser.  A snapshot of what currentUser is already  *)
(* changes nothing and is left out; a listener that has heard an error     *)
(* takes no step any more, and nothing obliges one to.                     *)

Snapshot(c) ==
  /\ me[c] # View(c, c)
  /\ fetching[c] < MaxFetches
  /\ fetching' = [fetching EXCEPT ![c] = @ + 1]
  /\ UNCHANGED <<server, me, screens, calls, pending, presses, history>>

ListenerFetched(c) ==
  /\ fetching[c] > 0
  /\ fetching' = [fetching EXCEPT ![c] = @ - 1]
  /\ me' = [me EXCEPT ![c] = View(c, c)]
  /\ UNCHANGED <<server, screens, calls, pending, presses, history>>

-----------------------------------------------------------------------------
(* The profile page of another user.                                       *)

\* viewWillAppear: on a page already shown otherUser keeps its old value until
\* the answer arrives.
OpenProfile(c, p) ==
  /\ p # c
  /\ Press(~PageFresh(c, p))
  /\ page' = [page EXCEPT ![c][p] = IF @ = Unopened THEN Blank ELSE @]
  /\ Await(c, {Callback("page", p)})
  /\ UNCHANGED <<server, fetching, me, requestList, followList, pending, history>>

\* The callback of viewWillAppear, and the inner one of fetchUsersInfo.
OtherFetched(c, k) ==
  /\ k.op \in {"page", "refreshOther"}
  /\ page' = [page EXCEPT ![c][k.uid] = View(c, k.uid)]
  /\ Resume(c, k, {})
  /\ UNCHANGED <<server, fetching, me, requestList, followList, pending, presses, history>>

\* Mutant: the privacy of the account is not looked at.
NeverPrivate(other) == FALSE

IsPrivate(other) == ~other.public

RequestReads(c, p) == {Callback("refreshMe", p)}

\* followButtonPressed, private branch: put myself on the request list I last saw.
RequestPressed(c, p) ==
  LET other == page[c][p] IN
  /\ Loaded(c, p)
  /\ Press(PageFresh(c, p))
  /\ p \notin me[c].following
  /\ IsPrivate(other)
  /\ IF c \in other.requests
     THEN UNCHANGED <<pending, asked>>
     ELSE /\ Issue(c, <<modifyRequests(other.requests \cup {c}, p)>>)
          /\ asked' = asked \cup {<<c, p>>}
  /\ Await(c, RequestReads(c, p))
  /\ UNCHANGED <<server, fetching, me, screens, drawn, approved, everPublic, kept, missed, torn>>

\* followButtonPressed, public branch: both lists, then the query for the feed.
FollowPressed(c, p) ==
  LET other == page[c][p] IN
  /\ Loaded(c, p)
  /\ Press(PageFresh(c, p))
  /\ p \notin me[c].following
  /\ ~IsPrivate(other)
  /\ Issue(c, <<modifyFollowing(me[c].following \cup {p}, c),
                modifyFollowers(other.followers \cup {c}, p)>>)
  /\ Await(c, {[op |-> "fill", uid |-> c, from |-> p, n |-> presses],
               Callback("refreshMe", p)})
  /\ UNCHANGED <<server, fetching, me, screens, history>>

\* followButtonPressed, else branch.
UnfollowPressed(c, p) ==
  /\ Loaded(c, p)
  /\ Press(PageFresh(c, p))
  /\ p \in me[c].following
  /\ Issue(c, unfollowUser(c, me[c].following, p, page[c][p].followers))
  /\ Await(c, {Callback("clear", p), Callback("refreshMe", p)})
  /\ UNCHANGED <<server, fetching, me, screens, history>>

\* fetchUsersInfo, outer callback; the inner one is OtherFetched.
MeFetched(c, k) ==
  /\ k.op = "refreshMe"
  /\ me' = [me EXCEPT ![c] = View(c, c)]
  /\ Resume(c, k, {[k EXCEPT !.op = "refreshOther"]})
  /\ UNCHANGED <<server, fetching, screens, pending, presses, history>>

Standing(c, u) == {e \in LocalEntries(c) : owner[e] = u}

\* The newest FillLimit entries of k.from go into the feed of k.uid.  Which ones
\* are newest is left open: timestamps are not modelled.
FeedFilled(c, k) ==
  /\ k.op = "fill"
  /\ \E newest \in SUBSET Standing(c, k.from) :
       /\ Cardinality(newest) <= FillLimit
       /\ newest = Standing(c, k.from) \/ Cardinality(newest) = FillLimit
       /\ \E es \in SetToSeqs(newest) :
            Issue(c, [i \in DOMAIN es |-> [op |-> "feedSet", uid |-> k.uid, entry |-> es[i]]])
       /\ missed' = missed \ ({k.uid} \X newest)
  /\ Resume(c, k, {})
  /\ UNCHANGED <<server, fetching, me, screens, presses,
                 drawn, asked, approved, everPublic, kept, torn>>

\* The query answers with an error, which is printed.
FillFails(c, k) ==
  /\ k.op = "fill"
  /\ Resume(c, k, {})
  /\ missed' = missed \cup ({k.uid} \X Standing(c, k.from))
  /\ UNCHANGED <<server, fetching, me, screens, pending, presses,
                 drawn, asked, approved, everPublic, kept, torn>>

\* The unfollower deletes the feed documents of k.uid it finds in its own feed.
FeedCleared(c, k) ==
  /\ k.op = "clear"
  /\ \E es \in SetToSeqs({e \in LocalFeed(c) : owner[e] = k.uid}) :
       Issue(c, [i \in DOMAIN es |-> [op |-> "feedDel", uid |-> c, entry |-> es[i]]])
  /\ Resume(c, k, {})
  /\ kept' = kept \ {<<c, k.uid>>}
  /\ UNCHANGED <<server, fetching, me, screens, presses, drawn, asked, approved, everPublic, missed, torn>>

-----------------------------------------------------------------------------
(* The followers and requests list.                                        *)

\* viewWillAppear, setUpFollowersList(user: currentUser!)
OpenRequests(c) ==
  /\ ~RequestListFresh(c)
  /\ requestList' = [requestList EXCEPT ![c] = [followers |-> me[c].followers,
                                                requests |-> me[c].requests]]
  /\ UNCHANGED <<server, fetching, me, page, followList, calls, pending, presses, history>>

\* Mutant: the answered request stays on the stored list.
AcceptWritesFollowersOnly(c, vc, r) == <<modifyFollowers(vc.followers \cup {r}, c)>>

AcceptWrites(c, vc, r) == <<modifyFollowers(vc.followers \cup {r}, c),
                            modifyRequests(vc.requests \ {r}, c)>>

AcceptReads(c, r) == {Callback("accept", r),
                      [op |-> "fill", uid |-> r, from |-> c, n |-> presses]}

\* acceptRequest: my followers and requests from the copies of this screen, the
\* requester's following list and feed from two reads.
AcceptPressed(c, r) ==
  LET vc == requestList[c] IN
  /\ r \in vc.requests
  /\ Press(RequestListFresh(c))
  /\ Issue(c, AcceptWrites(c, vc, r))
  /\ requestList' = [requestList EXCEPT ![c] = [followers |-> vc.followers \cup {r},
                                                requests |-> vc.requests \ {r}]]
  /\ Await(c, AcceptReads(c, r))
  /\ approved' = approved \cup {<<r, c>>}
  /\ UNCHANGED <<server, fetching, me, page, followList, drawn, asked, everPublic, kept, missed, torn>>

\* Mutant: the requester's followers list is changed instead.
AcceptFetchedWrongList(c, k) ==
  /\ k.op = "accept"
  /\ Issue(c, <<modifyFollowers(View(c, k.uid).followers \cup {c}, k.uid)>>)
  /\ Resume(c, k, {})
  /\ UNCHANGED <<server, fetching, me, screens, presses, history>>

AcceptFetched(c, k) ==
  /\ k.op = "accept"
  /\ Issue(c, <<modifyFollowing(View(c, k.uid).following \cup {c}, k.uid)>>)
  /\ Resume(c, k, {})
  /\ UNCHANGED <<server, fetching, me, screens, presses, history>>

DenyPressed(c, r) ==
  LET vc == requestList[c] IN
  /\ r \in vc.requests
  /\ Press(RequestListFresh(c))
  /\ Issue(c, <<modifyRequests(vc.requests \ {r}, c)>>)
  /\ requestList' = [requestList EXCEPT ![c] = [followers |-> vc.followers,
                                                requests |-> vc.requests \ {r}]]
  /\ UNCHANGED <<server, fetching, me, page, followList, calls, history>>

-----------------------------------------------------------------------------
(* The following list.                                                     *)

OpenFollowing(c) ==
  /\ followList[c] # me[c].following
  /\ followList' = [followList EXCEPT ![c] = me[c].following]
  /\ UNCHANGED <<server, fetching, me, page, requestList, calls, pending, presses, history>>

\* unfollow(followingRow:): nothing is written before the answer arrives.
ListUnfollowPressed(c, p) ==
  /\ p \in followList[c]
  /\ Press(followList[c] = me[c].following)
  /\ Await(c, {Callback("unfollow", p)})
  /\ kept' = kept \cup {<<c, p>>}
  /\ UNCHANGED <<server, fetching, me, screens, pending, drawn, asked, approved, everPublic, missed, torn>>

\* The list to filter is currentUser.following as it is when the callback runs.
UnfollowFetched(c, k) ==
  /\ k.op = "unfollow"
  /\ Issue(c, unfollowUser(c, me[c].following, k.uid, View(c, k.uid).followers))
  /\ Resume(c, k, {[op |-> "self", n |-> k.n]})
  /\ UNCHANGED <<server, fetching, me, screens, presses, history>>

SelfFetched(c, k) ==
  /\ k.op = "self"
  /\ me' = [me EXCEPT ![c] = View(c, c)]
  /\ followList' = [followList EXCEPT ![c] = View(c, c).following]
  /\ Resume(c, k, {})
  /\ UNCHANGED <<server, fetching, page, requestList, pending, presses, history>>

-----------------------------------------------------------------------------
(* Settings and entries.                                                   *)

\* switchToggled.  The switch shows "not private" until the settings are loaded,
\* so a private account can be made private again, never a public one public.
TogglePrivacy(c, isPublic) ==
  /\ Press(TRUE)
  /\ isPublic => ~View(c, c).public
  /\ Issue(c, <<Write("public", c, isPublic)>>)
  /\ everPublic' = IF isPublic THEN everPublic \cup {c} ELSE everPublic
  /\ UNCHANGED <<server, fetching, me, screens, calls, drawn, asked, approved, kept, missed, torn>>

\* addToFirebase: the entry, then one feed document per follower I know of, then mine.
Publish(c, e) ==
  /\ owner[e] = c
  /\ e \notin drawn
  /\ Press(TRUE)
  /\ \E us \in SetToSeqs(me[c].followers) :
       Issue(c, <<EntryWrite("entrySet", e)>> \o FanOut("feedSet", c, us, e))
  /\ drawn' = drawn \cup {e}
  /\ UNCHANGED <<server, fetching, me, screens, calls, asked, approved, everPublic, kept, missed, torn>>

\* deleteEntry: the same walk over the followers I know of now.
DeleteEntry(c, e) ==
  /\ owner[e] = c
  /\ e \in LocalEntries(c)
  /\ Press(TRUE)
  /\ \E us \in SetToSeqs(me[c].followers) :
       Issue(c, <<EntryWrite("entryDel", e)>> \o FanOut("feedDel", c, us, e))
  /\ UNCHANGED <<server, fetching, me, screens, calls, history>>

\* TripInfoViewController deletes a trip, and so each entry of it: the feed documents
\* at once, the entry when it has been read (its media list says which files to delete).
DeleteTripEntry(c, e) ==
  /\ owner[e] = c
  /\ e \in LocalEntries(c)
  /\ Press(TRUE)
  /\ \E us \in SetToSeqs(me[c].followers) : Issue(c, FanOut("feedDel", c, us, e))
  /\ Await(c, {[op |-> "drop", entry |-> e, n |-> presses]})
  /\ UNCHANGED <<server, me, fetching, screens, history>>

EntryDropped(c, k) ==
  /\ k.op = "drop"
  /\ k.entry \in LocalEntries(c)
  /\ Issue(c, <<EntryWrite("entryDel", k.entry)>>)
  /\ Resume(c, k, {})
  /\ UNCHANGED <<server, me, fetching, screens, presses, history>>

\* fetchEntry calls back neither after an error nor for a missing document.
DropFails(c, k) ==
  /\ k.op = "drop"
  /\ Resume(c, k, {})
  /\ torn' = torn \cup ({k.entry} \cap LocalEntries(c))
  /\ UNCHANGED <<server, me, fetching, screens, pending, presses,
                 drawn, asked, approved, everPublic, kept, missed>>

-----------------------------------------------------------------------------
(* The process ends and the user signs in again: screens and outstanding   *)
(* reads are gone.  Of the queued writes those are left that Firestore has *)
(* put into its LevelDB: it does so one by one, on a queue of its own that *)
(* tells nobody, so the writes of a handler may be cut anywhere.           *)

\* The author's entries with a write behind the first n, or whose deletion waits for a read.
CutShort(c, n) ==
  {e \in Entries :
     /\ owner[e] = c
     /\ \/ \E i \in (n + 1)..Len(pending[c]) :
             /\ pending[c][i].op \in {"entrySet", "entryDel", "feedSet", "feedDel"}
             /\ pending[c][i].entry = e
        \/ \E k \in calls[c] : k.op = "drop" /\ k.entry = e}

Relaunch(c) ==
  /\ \E n \in 0..Len(pending[c]) : /\ pending' = [pending EXCEPT ![c] = SubSeq(@, 1, n)]
                                   /\ torn' = torn \cup CutShort(c, n)
  /\ UNCHANGED <<server, drawn, asked, approved, everPublic, kept, missed>>
  /\ me' = [me EXCEPT ![c] = View(c, c)']
  /\ fetching' = [fetching EXCEPT ![c] = 1]
  /\ page' = [page EXCEPT ![c] = [p \in Users |-> Unopened]]
  /\ requestList' = [requestList EXCEPT ![c] = [followers |-> {}, requests |-> {}]]
  /\ followList' = [followList EXCEPT ![c] = {}]
  /\ calls' = [calls EXCEPT ![c] = {}]

\* iOS ends the process, or a read failed whose callback unwraps the answer it did not get.
Killed(c) == /\ MayRestart
             /\ Press(FALSE)
             /\ Relaunch(c)

\* The button is visible and enabled before the first answer arrives; both
\* branches then unwrap a nil otherUser before they write anything.
FollowPressedTooEarly(c, p) == /\ page[c][p] = Blank
                               /\ Press(FALSE)
                               /\ Relaunch(c)

-----------------------------------------------------------------------------
Init ==
  /\ followers = [u \in Users |-> {}]
  /\ following = [u \in Users |-> {}]
  /\ requests = [u \in Users |-> {}]
  /\ public \in [Users -> BOOLEAN]
  /\ feed = [u \in Users |-> {}]
  /\ entries = {}
  /\ me = [u \in Users |-> [followers |-> {}, following |-> {}, requests |-> {},
                            public |-> public[u]]]
  /\ fetching = [u \in Users |-> 0]
  /\ page = [c \in Users |-> [p \in Users |-> Unopened]]
  /\ requestList = [c \in Users |-> [followers |-> {}, requests |-> {}]]
  /\ followList = [c \in Users |-> {}]
  /\ calls = [c \in Users |-> {}]
  /\ pending = [c \in Users |-> <<>>]
  /\ presses = 0
  /\ drawn = {}
  /\ asked = {}
  /\ approved = {}
  /\ everPublic = {u \in Users : public[u]}
  /\ kept = {}
  /\ missed = {}
  /\ torn = {}

ProfileStep(c) == \E p \in Users : \/ OpenProfile(c, p)
                                   \/ RequestPressed(c, p)
                                   \/ FollowPressed(c, p)
                                   \/ UnfollowPressed(c, p)
                                   \/ FollowPressedTooEarly(c, p)

ListStep(c) == \/ OpenRequests(c)
               \/ OpenFollowing(c)
               \/ \E u \in Users : \/ AcceptPressed(c, u)
                                   \/ DenyPressed(c, u)
                                   \/ ListUnfollowPressed(c, u)

OwnStep(c) == \/ \E b \in BOOLEAN : TogglePrivacy(c, b)
              \/ \E e \in Entries : Publish(c, e) \/ DeleteEntry(c, e) \/ DeleteTripEntry(c, e)
              \/ Killed(c)

CallbackStep(c) == \E k \in calls[c] : \/ OtherFetched(c, k)
                                       \/ MeFetched(c, k)
                                       \/ FeedFilled(c, k)
                                       \/ FillFails(c, k)
                                       \/ FeedCleared(c, k)
                                       \/ AcceptFetched(c, k)
                                       \/ UnfollowFetched(c, k)
                                       \/ SelfFetched(c, k)
                                       \/ EntryDropped(c, k)
                                       \/ DropFails(c, k)

ListenerStep(c) == Snapshot(c) \/ ListenerFetched(c)

NetworkStep(c) == CallbackStep(c) \/ ListenerStep(c) \/ Commit(c)

Next == \E c \in Users : ProfileStep(c) \/ ListStep(c) \/ OwnStep(c) \/ NetworkStep(c)

Spec == Init /\ [][Next]_vars

\* Queued writes are sent and every read is answered in the end (from the cache when
\* the network is gone); users and listeners owe nothing.
Fairness == \A c \in Users : /\ WF_vars(CallbackStep(c))
                             /\ WF_vars(Commit(c))

FairSpec == Spec /\ Fairness

-----------------------------------------------------------------------------
(* Properties that hold however the devices interleave.                    *)

\* What entitles f to follow u: u's account has been public at some time, or f
\* asked and u pressed Accept.
Asked(f, u) == <<f, u>> \in asked
Consented(f, u) == u \in everPublic \/ (Asked(f, u) /\ <<f, u>> \in approved)

\* Two documents record "f follows u" and several screens rewrite both from old
\* copies; no interleaving of followButtonPressed, acceptRequest, unfollow and
\* their callbacks makes either document name a follower of an account that was
\* always private unless that follower asked and was accepted, and no request
\* list names a user who did not ask.
FollowersConsented ==
  \A u, v \in Users : /\ v \in followers[u] => Consented(v, u)
                      /\ v \in following[u] => Consented(u, v)
                      /\ v \in requests[u] => Asked(v, u)

\* Feed documents are written by four handlers on two devices (addToFirebase,
\* the fill after a follow, the fill after an accept, and the deletes): a feed
\* never lists an entry of an account whose owner did not consent to its reader.
FeedConsented ==
  \A u \in Users : \A e \in feed[u] : owner[e] = u \/ Consented(u, owner[e])

\* A device that has sent all its writes and waits for no read of an entry it deletes
\* left its owner's feed and the entries collection agreeing on the owner's entries,
\* although addToFirebase and both deleteEntry functions write them one by one, the
\* one of TripInfoViewController with a read in between: all but entries whose writes
\* a kill or a failed read cut short.
OwnFeedMatchesEntries ==
  \A c \in Users : pending[c] = <<>> =>
    \A e \in Entries \ torn :
      /\ owner[e] = c
      /\ \A k \in calls[c] : k.op = "drop" => k.entry # e
      => (e \in feed[c] <=> e \in entries)

\* The copies the handlers rewrite lists from are as consented as the documents.
DocConsented(u, doc) ==
  \A v \in Users : /\ v \in doc.followers => Consented(v, u)
                   /\ v \in doc.following => Consented(u, v)
                   /\ v \in doc.requests => Asked(v, u)
                   /\ doc.public => u \in everPublic

WriteConsented(m) ==
  /\ m.op = "followers" => \A v \in m.val : Consented(v, m.uid)
  /\ m.op = "following" => \A v \in m.val : Consented(m.uid, v)
  /\ m.op = "requests" => \A v \in m.val : Asked(v, m.uid)
  /\ m.op = "public" /\ m.val => m.uid \in everPublic
  /\ m.op = "feedSet" => owner[m.entry] = m.uid \/ Consented(m.uid, owner[m.entry])

CallConsented(c, k) ==
  /\ k.op = "accept" => Consented(k.uid, c)
  /\ k.op = "fill" => Consented(k.uid, k.from)

ServerConsented == /\ FollowersConsented
                   /\ FeedConsented
                   /\ \A u \in Users : public[u] => u \in everPublic

MeConsented == \A c \in Users : DocConsented(c, me[c])

PagesConsented == \A c, p \in Users : Loaded(c, p) => DocConsented(p, page[c][p])

ListsConsented == \A c, v \in Users :
                    /\ v \in requestList[c].followers => Consented(v, c)
                    /\ v \in requestList[c].requests => Asked(v, c)

CallsConsented == \A c \in Users : \A k \in calls[c] : CallConsented(c, k)

PendingConsented ==
  \A c \in Users : \A i \in DOMAIN pending[c] : WriteConsented(pending[c][i])

\* The strengthening of FollowersConsented and FeedConsented that every step
\* preserves: it also covers currentUser, every otherUser, the copies of the
\* followers screen, every outstanding callback and every queued write, because
\* acceptRequest, unfollowUser and followButtonPressed rewrite stored lists from them.
ConsentInv == /\ ServerConsented
              /\ MeConsented
              /\ PagesConsented
              /\ ListsConsented
              /\ CallsConsented
              /\ PendingConsented

\* What every step of every device keeps, restarts included: documents, copies,
\* callbacks and queued writes have their types and name only consented follows.
GraphInv == TypeOK /\ ConsentInv

-----------------------------------------------------------------------------
(* Properties of users who take turns (Serialized).                        *)

\* A follow is stored twice: once everything in flight has landed the two
\* documents agree, whichever buttons were pressed.
MirrorWhenQuiet == Quiet => \A f, u \in Users : f \in followers[u] <=> u \in following[f]

\* A settled follower's feed has every stored entry of the users it follows (as long
\* as FillLimit does not cut the fill short), unless the query for the fill failed or
\* the deletion of the entry got no further than the feeds.
FeedCompleteWhenQuiet ==
  Quiet /\ Cardinality(Entries) <= FillLimit =>
    \A u \in Users : \A e \in entries \ torn :
      owner[e] \in following[u] /\ <<u, e>> \notin missed => e \in feed[u]

\* CustomAnnotation.swift:70, deleteEntry, "delete from followers": once all is
\* settled no follower's feed lists an entry that was deleted, however it got there.
DeletedLeavesFollowersFeeds ==
  Quiet => \A e \in drawn \ entries : \A f \in followers[owner[e]] :
             <<f, owner[e]>> \notin kept => e \notin feed[f]

\* The fan-out of addToFirebase, the fill after a follow or an accept and the deletes
\* of deleteEntry and of an unfollow add up: once all has landed a follower's feed has
\* what the users it follows have stored, and nothing they deleted.
FeedsExactWhenQuiet == FeedCompleteWhenQuiet /\ DeletedLeavesFollowersFeeds

-----------------------------------------------------------------------------
(* Liveness: the network delivers, users may stop at any time.             *)

\* An accepted requester's own document comes to list the account it asked for,
\* although another device has to read it and write it back.
AcceptReachesRequester ==
  \A c, r \in Users : (\E k \in calls[c] : k.op = "accept" /\ k.uid = r) ~> c \in following[r]
=============================================================================

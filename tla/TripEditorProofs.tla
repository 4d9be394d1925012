--------------------------- MODULE TripEditorProofs --------------------------
(***************************************************************************)
(* Trips and their entries, whatever the number of either: what a user who *)
(* waits for every answer is left with, across failed calls and ends of    *)
(* the process.                                                            *)
(***************************************************************************)
EXTENDS TripEditor, FiniteSetTheorems, SequenceTheorems, WellFoundedInduction, TLAPS

\* What is under way.
Deleting == \E k \in calls : k.op \in {"fetchTrip", "fetchEntry"}
Loading == \E k \in calls : k.op \in {"trip", "entry"}

\* Updates of the entries of a trip are under way.
Naming(a) == a.op \in {"tripIDs", "orders"}

\* Documents are deleted while no editor is at work.
DeletionsAlone ==
  Deleting => /\ vc.phase = "closed" /\ acks = <<>>
              /\ \A k \in calls : k.op \in {"fetchTrip", "fetchEntry"}

\* What names a trip names a stored one.
NamesInv ==
  /\ \A k \in calls : k.op \in {"trip", "fetchTrip"} => trips[k.trip] # NoDoc
  /\ \A i \in 1..Len(acks) : acks[i].op # "stored" => trips[acks[i].trip] # NoDoc
  /\ vc.tripID # NoTrip =>
       trips[vc.tripID] # NoDoc \/ (vc.phase = "closed" /\ (Settled \/ Deleting))

\* A trip has its cover, or the upload is under way, unless one has failed.
CoverInv ==
  ~crashed /\ ~lost.cover => \A t \in Trips : trips[t] # NoDoc =>
    trips[t].cover \/ [op |-> "cover", trip |-> t] \in calls

BaseInv == TypeOK /\ IsFiniteSet(load.want) /\ DeletionsAlone /\ NamesInv /\ CoverInv /\ (torn => crashed)

-----------------------------------------------------------------------------
\* The rest is about a user who waits.

Injective(s) == \A i, j \in 1..Len(s) : s[i] = s[j] => i = j

\* The entries that the editor has in its hands.
Handled == ToSet(vc.list) \cup vc.map \cup vc.deleted

\* Ids are drawn once.
UsedInv ==
  /\ \A t \in Trips : trips[t] # NoDoc => t \in used
  /\ \A t \in Trips, e \in Entries : Lists(t, e) => e \in used
  /\ \A e \in Entries : Stored(e) => e \in used /\ docs[e].tripID \in used \cup {NoTrip}
  /\ vc.phase = "open" => Handled \subseteq used
  /\ \A s \in Presses : s >= presses => counts[s] = 0

\* An entry is on one list.
ListsInv ==
  /\ \A t, q \in Trips, e \in Entries : Lists(t, e) /\ Lists(q, e) => t = q
  /\ \A t \in Trips : trips[t] # NoDoc => Injective(trips[t].entries)
  /\ Injective(vc.list)
  /\ vc.phase = "open" =>
       \A t \in Trips, e \in Handled : Lists(t, e) => t = vc.tripID
  /\ \A k \in calls : k.op = "fetchEntry" => \A t \in Trips : ~Lists(t, k.entry)

\* An entry carries the id of no other trip than the one that lists it.
OwnersInv ==
  /\ \A t \in Trips, e \in Entries :
       Lists(t, e) /\ Stored(e) => docs[e].tripID \in {NoTrip, t}
  /\ vc.phase = "open" =>
       \A e \in ToSet(vc.list) \cup vc.map :
         /\ ann[e].tripID \in {NoTrip, vc.tripID}
         /\ Stored(e) => docs[e].tripID \in {NoTrip, vc.tripID}

\* What is deleted is in no list; when it has been saved it is not stored.
DeletedInv ==
  /\ vc.phase = "open" => vc.deleted \cap ToSet(vc.list) = {}
  /\ saving \/ vc.phase # "open" => \A e \in vc.deleted : ~Stored(e)

\* An editor that loads a trip.
LoadingInv ==
  Loading =>
    /\ vc.phase = "open" /\ ~saving /\ acks = <<>>
    /\ vc.tripID # NoTrip /\ vc.list = <<>> /\ vc.deleted = {}
    /\ \A k \in calls :
         \/ k.op = "trip" /\ calls = {k} /\ k.trip = vc.tripID
            /\ load = NotLoading /\ vc.map = {}
         \/ k.op = "entry" /\ k.entry \in load.want \ load.got
            /\ load.want = ToSet(trips[vc.tripID].entries)
            /\ load.got = vc.map /\ load.got \subseteq load.want

\* Every entry of the trip is loaded or under way.
LoadedInv ==
  Loading /\ ~failed /\ ~torn =>
    \A e \in load.want : e \in load.got \/ [op |-> "entry", entry |-> e] \in calls

\* Nothing is under way but covers and the names and orders of one trip, which are
\* written last.
RestInv ==
  ~saving /\ ~Loading /\ ~Deleting =>
    /\ \A k \in calls : k.op = "cover"
    /\ vc.phase = "open" => Settled
    /\ \A i \in 1..Len(acks) : Naming(acks[i])
    /\ \A i \in 1..Len(acks) : acks[i].op = "tripIDs" =>
         /\ i = Len(acks)
         /\ acks[i].ids = trips[acks[i].trip].entries
         /\ \A e \in ToSet(acks[i].ids) : Stored(e) /\ docs[e].tripID = acks[i].trip

-----------------------------------------------------------------------------
(* A save.                                                                 *)

press == presses - 1
UploadOf(e) == [op |-> "upload", entry |-> e, press |-> press]
Uploading == {e \in Entries : UploadOf(e) \in calls}
UserCall == [op |-> "user", ids |-> vc.list, press |-> press]
UpdatedAck == [op |-> "updated", trip |-> vc.tripID, ids |-> vc.list]

\* The update that a press of save begins with.
Named == IF \E i \in 1..Len(acks) : Naming(acks[i]) THEN 1 ELSE 0

\* The entries are uploaded and counted.
Uploads ==
  /\ UserCall \notin calls
  /\ \A i \in 1..Len(acks) : acks[i].op # "updated"
  /\ counts[press] + Cardinality(Uploading) + Len(acks) - Named = Len(vc.list)
  /\ counts[press] < Len(vc.list)

\* All are stored, the document of the user is read.
Asking ==
  /\ UserCall \in calls /\ Uploading = {}
  /\ \A i \in 1..Len(acks) : Naming(acks[i])

\* The trip is written.
Updating ==
  /\ UserCall \notin calls /\ Uploading = {}
  /\ \E j \in 1..Len(acks) :
       /\ acks[j] = UpdatedAck
       /\ \A i \in 1..Len(acks) : i # j => Naming(acks[i])
  /\ vc.tripID # NoTrip
  /\ trips[vc.tripID].entries = vc.list

SavingInv ==
  saving =>
    /\ vc.phase = "open" /\ vc.list # <<>> /\ presses > 0
    /\ \A k \in calls : \/ k.op = "cover"
                        \/ k.op = "upload" /\ k = UploadOf(k.entry) /\ k.entry \in ToSet(vc.list)
                        \/ k = UserCall
    /\ \A i \in 1..Len(acks) :
         \/ acks[i] = [op |-> "stored", press |-> press]
         \/ Naming(acks[i]) /\ acks[i].trip = vc.tripID
            /\ (acks[i].op = "tripIDs" => i = 1 /\ acks[i].ids = vc.list)
         \/ acks[i] = UpdatedAck
    /\ \A i, j \in 1..Len(acks) : Naming(acks[i]) /\ Naming(acks[j]) => i = j
    /\ \A e \in ToSet(vc.list) : Stored(e) \/ e \in Uploading
    /\ Uploads \/ Asking \/ Updating
    /\ vc.tripID # NoTrip /\ ~failed /\ ~torn => trips[vc.tripID].entries = vc.list

-----------------------------------------------------------------------------
(* What a save and a deletion come to.                                     *)

Numbered(t) ==
  \A i \in 1..Len(trips[t].entries) :
    docs[trips[t].entries[i]] = [tripID |-> t, order |-> i - 1]

Naming1(t) == \E i \in 1..Len(acks) : acks[i].op = "tripIDs" /\ acks[i].trip = t

NumberedInv ==
  ~crashed => \A t \in Trips : trips[t] # NoDoc =>
    \/ Numbered(t)
    \/ saving /\ vc.tripID = t
    \/ ~saving /\ Naming1(t)

\* The entries of a trip are stored, and no others carry its id.
WholeInv ==
  ~failed /\ ~torn =>
    /\ \A t \in Trips, e \in Entries : Lists(t, e) => Stored(e) \/ (saving /\ e \in Uploading)
    /\ \A t \in Trips, e \in Entries :
         trips[t] # NoDoc /\ Stored(e) /\ docs[e].tripID = t => Lists(t, e)
    /\ ~Loading => vc.map = ToSet(vc.list)
    /\ vc.phase = "open" /\ ~Loading /\ vc.tripID # NoTrip =>
         ToSet(trips[vc.tripID].entries) \subseteq ToSet(vc.list) \cup vc.deleted

\* The entries of a deleted trip are deleted, or could not be read.
GoneInv ==
  ~failed /\ ~crashed => \A t \in Trips, e \in Entries :
    Stored(e) /\ docs[e].tripID = t /\ trips[t] = NoDoc =>
      [op |-> "fetchEntry", entry |-> e] \in calls \/ e \in lost.entries

CarefulInv == /\ UsedInv /\ ListsInv /\ OwnersInv /\ DeletedInv
              /\ LoadingInv /\ LoadedInv /\ RestInv /\ SavingInv
              /\ NumberedInv /\ WholeInv /\ GoneInv

\* The user has waited so far, and every save has come to an end.
Patient == hasty = 0 /\ ~lost.save

IInv == BaseInv /\ (Patient => CarefulInv)

-----------------------------------------------------------------------------
(* Lists.                                                                  *)

LEMMA Members ==
  ASSUME NEW s \in Seq(Entries)
  PROVE  /\ ToSet(s) \subseteq Entries
         /\ \A e : e \in ToSet(s) <=> \E i \in 1..Len(s) : s[i] = e
         /\ \A i \in 1..Len(s) : s[i] \in ToSet(s)
         /\ IsFiniteSet(ToSet(s))
<1>1. DOMAIN s = 1..Len(s) /\ Len(s) \in Nat
  OBVIOUS
<1>2. \A e : e \in ToSet(s) <=> \E i \in 1..Len(s) : s[i] = e
  BY <1>1 DEF ToSet
<1>3. s \in [1..Len(s) -> ToSet(s)]
  BY <1>1, <1>2
<1>4. s \in Surjection(1..Len(s), ToSet(s))
  BY <1>2, <1>3 DEF Surjection
<1>5. IsFiniteSet(1..Len(s))
  BY <1>1, FS_Interval
<1>6. IsFiniteSet(ToSet(s))
  BY <1>4, <1>5, FS_Surjection
<1> QED
  BY <1>2, <1>6

LEMMA MembersCounted ==
  ASSUME NEW s \in Seq(Entries)
  PROVE  /\ Cardinality(ToSet(s)) \in Nat /\ Cardinality(ToSet(s)) <= Len(s)
         /\ Injective(s) => Cardinality(ToSet(s)) = Len(s)
         /\ s # <<>> => Cardinality(ToSet(s)) > 0
<1>1. DOMAIN s = 1..Len(s) /\ Len(s) \in Nat
  OBVIOUS
<1>2. s \in [1..Len(s) -> ToSet(s)]
  BY <1>1, Members
<1>3. s \in Surjection(1..Len(s), ToSet(s))
  BY <1>2, Members DEF Surjection
<1>4. IsFiniteSet(1..Len(s)) /\ Cardinality(1..Len(s)) = Len(s)
  BY <1>1, FS_Interval
<1>5. Cardinality(ToSet(s)) \in Nat /\ Cardinality(ToSet(s)) <= Len(s)
  <2>1. Cardinality(ToSet(s)) \in Nat
    BY Members, FS_CardinalityType
  <2>2. Cardinality(ToSet(s)) <= Cardinality(1..Len(s))
    BY <1>3, <1>4, FS_Surjection
  <2> QED
    BY <1>4, <2>1, <2>2
<1>6. ASSUME Injective(s)
      PROVE  Cardinality(ToSet(s)) = Len(s)
  <2>1. s \in Injection(1..Len(s), ToSet(s))
    BY <1>2, <1>6 DEF Injective, Injection, IsInjective
  <2>2. s \in Bijection(1..Len(s), ToSet(s))
    BY <1>3, <2>1 DEF Bijection
  <2>3. ExistsBijection(1..Len(s), ToSet(s))
    BY <2>2 DEF ExistsBijection
  <2> QED
    BY <1>4, <2>3, FS_Bijection
<1>7. ASSUME s # <<>>
      PROVE  Cardinality(ToSet(s)) > 0
  <2>1. 1 \in 1..Len(s)
    BY <1>1, <1>7
  <2>2. ToSet(s) # {}
    BY <2>1, Members
  <2>3. Cardinality(ToSet(s)) # 0
    BY <2>2, Members, FS_EmptySet
  <2> QED
    BY <1>5, <2>3
<1> QED
  BY <1>5, <1>6, <1>7

LEMMA Appended ==
  ASSUME NEW s \in Seq(Entries), NEW e \in Entries
  PROVE  /\ Append(s, e) \in Seq(Entries)
         /\ ToSet(Append(s, e)) = ToSet(s) \cup {e}
         /\ Injective(s) /\ e \notin ToSet(s) => Injective(Append(s, e))
<1> DEFINE r == Append(s, e)
<1>1. r \in Seq(Entries) /\ Len(r) = Len(s) + 1 /\ Len(s) \in Nat
  OBVIOUS
<1>2. \A i \in 1..Len(r) : r[i] = IF i <= Len(s) THEN s[i] ELSE e
  OBVIOUS
<1> HIDE DEF r
<1>3. ToSet(r) = ToSet(s) \cup {e}
  <2>1. ASSUME NEW x \in ToSet(r)
        PROVE  x \in ToSet(s) \cup {e}
    <3>1. PICK i \in 1..Len(r) : r[i] = x
      BY <1>1, Members
    <3> QED
      BY <1>1, <1>2, <3>1, Members
  <2>2. ASSUME NEW x \in ToSet(s)
        PROVE  x \in ToSet(r)
    <3>1. PICK i \in 1..Len(s) : s[i] = x
      BY Members
    <3>2. i \in 1..Len(r) /\ r[i] = x
      BY <1>1, <1>2, <3>1
    <3> QED
      BY <1>1, <3>2, Members
  <2>3. e \in ToSet(r)
    <3>1. Len(r) \in 1..Len(r) /\ r[Len(r)] = e
      BY <1>1, <1>2
    <3> QED
      BY <1>1, <3>1, Members
  <2> QED
    BY <2>1, <2>2, <2>3
<1>4. ASSUME Injective(s), e \notin ToSet(s),
             NEW i \in 1..Len(r), NEW j \in 1..Len(r), r[i] = r[j]
      PROVE  i = j
  <2>1. \A k \in 1..Len(s) : s[k] # e
    BY <1>4, Members
  <2> QED
    BY <1>1, <1>2, <1>4, <2>1 DEF Injective
<1> QED
  BY <1>1, <1>3, <1>4 DEF r, Injective

LEMMA LeastExists ==
  ASSUME NEW S \in SUBSET Nat, S # {}
  PROVE  \E x \in S : \A y \in S : x <= y
<1> DEFINE R == OpToRel(<, Nat)
<1>1. IsWellFoundedOn(R, Nat)
  BY NatLessThanWellFounded
<1>2. \A a, b \in Nat : a < b => <<a, b>> \in R
  BY DEF OpToRel
<1> HIDE DEF R
<1>3. PICK x \in S : \A y \in S : ~(<<y, x>> \in R)
  BY <1>1, WFMin
<1>4. ASSUME NEW y \in S
      PROVE  x <= y
  <2>1. x \in Nat /\ y \in Nat
    OBVIOUS
  <2>2. ~(y < x)
    BY <1>2, <1>3, <2>1, Zenon
  <2> QED
    BY <2>1, <2>2
<1> QED
  BY <1>4

\* The search of deleteAnnotation finds a position.
LEMMA FirstIndex ==
  ASSUME NEW s \in Seq(Entries), NEW t, Contains(s, t)
  PROVE  LET k == SelectInSeq(s, LAMBDA x : x = t)
         IN  k \in 1..Len(s) /\ s[k] = t
<1> DEFINE I == {i \in 1..Len(s) : s[i] = t}
<1>1. I # {} /\ I \subseteq 1..Len(s) /\ I \in SUBSET Nat
  BY DEF Contains
<1>2. \E x \in I : \A y \in I : x <= y
  BY <1>1, LeastExists
<1>3. Min(I) \in I
  BY <1>2 DEF Min
<1>4. SelectInSeq(s, LAMBDA x : x = t) = Min(I)
  BY <1>1 DEF SelectInSeq
<1> QED
  BY <1>3, <1>4

\* s without position k is r.
Without(r, s, k) ==
  /\ Len(r) = Len(s) - 1
  /\ \A i \in 1..Len(r) : r[i] = IF i < k THEN s[i] ELSE s[i + 1]

LEMMA RemovedAt ==
  ASSUME NEW s \in Seq(Entries), NEW k \in 1..Len(s)
  PROVE  RemoveAt(s, k) \in Seq(Entries) /\ Without(RemoveAt(s, k), s, k)
<1> DEFINE a == SubSeq(s, 1, k - 1)
           b == SubSeq(s, k + 1, Len(s))
<1>1. a \in Seq(Entries) /\ Len(a) = k - 1 /\ \A i \in 1..(k - 1) : a[i] = s[i]
  OBVIOUS
<1>2. b \in Seq(Entries) /\ Len(b) = Len(s) - k /\ \A i \in 1..(Len(s) - k) : b[i] = s[k + i]
  OBVIOUS
<1>3. RemoveAt(s, k) = a \o b
  BY DEF RemoveAt
<1> HIDE DEF a, b
<1>4. a \o b \in Seq(Entries) /\ Len(a \o b) = Len(a) + Len(b)
  BY <1>1, <1>2, ConcatProperties
<1>5. \A i \in 1..Len(a \o b) : (a \o b)[i] = IF i <= Len(a) THEN a[i] ELSE b[i - Len(a)]
  BY <1>1, <1>2, ConcatProperties
<1>6. Len(a \o b) = Len(s) - 1
  BY <1>1, <1>2, <1>4
<1>7. ASSUME NEW i \in 1..Len(a \o b)
      PROVE  (a \o b)[i] = IF i < k THEN s[i] ELSE s[i + 1]
  <2>1. CASE i < k
    BY <1>1, <1>5, <2>1
  <2>2. CASE ~(i < k)
    <3>1. (a \o b)[i] = b[i - (k - 1)]
      BY <1>1, <1>5, <2>2
    <3>2. i - (k - 1) \in 1..(Len(s) - k) /\ k + (i - (k - 1)) = i + 1
      BY <1>6, <2>2
    <3> QED
      BY <1>2, <2>2, <3>1, <3>2
  <2> QED
    BY <2>1, <2>2
<1> QED
  BY <1>3, <1>4, <1>6, <1>7 DEF Without


\* deleteAnnotation takes the entry out of the list.
LEMMA Deleted ==
  ASSUME NEW s \in Seq(Entries), NEW e \in ToSet(s)
  PROVE  LET r == RemoveAt(s, SelectInSeq(s, LAMBDA x : x = e))
         IN  r \in Seq(Entries) /\ (Injective(s) => ToSet(r) = ToSet(s) \ {e} /\ Injective(r))
<1> DEFINE k == SelectInSeq(s, LAMBDA x : x = e)
           r == RemoveAt(s, k)
<1>1. Contains(s, e)
  BY Members DEF Contains
<1>2. k \in 1..Len(s) /\ s[k] = e
  BY <1>1, FirstIndex
<1> HIDE DEF k
<1>3. r \in Seq(Entries) /\ Without(r, s, k)
  BY <1>2, RemovedAt
<1> HIDE DEF r
<1>4. Len(s) \in Nat /\ Len(r) \in Nat /\ Len(r) = Len(s) - 1
  BY <1>3 DEF Without
<1>5. \A i \in 1..Len(r) : r[i] = IF i < k THEN s[i] ELSE s[i + 1]
  BY <1>3 DEF Without
<1>6. ASSUME Injective(s), NEW x \in ToSet(r)
      PROVE  x \in ToSet(s) \ {e}
  <2>1. PICK i \in 1..Len(r) : r[i] = x
    BY <1>3, Members
  <2>2. PICK j \in 1..Len(s) : s[j] = x /\ j # k
    BY <1>2, <1>4, <1>5, <2>1
  <2>3. x # e
    BY <1>2, <1>6, <2>2 DEF Injective
  <2> QED
    BY <2>2, <2>3, Members
<1>7. ASSUME NEW x \in ToSet(s) \ {e}
      PROVE  x \in ToSet(r)
  <2>1. PICK i \in 1..Len(s) : s[i] = x
    BY Members
  <2>2. i # k
    BY <1>2, <2>1
  <2>3. CASE i < k
    <3>1. i \in 1..Len(r) /\ r[i] = x
      BY <1>2, <1>4, <1>5, <2>1, <2>3
    <3> QED
      BY <1>3, <3>1, Members
  <2>4. CASE i > k
    <3>1. i - 1 \in 1..Len(r) /\ ~(i - 1 < k) /\ (i - 1) + 1 = i
      BY <1>2, <1>4, <2>4
    <3>2. r[i - 1] = x
      BY <1>5, <2>1, <3>1
    <3> QED
      BY <1>3, <3>1, <3>2, Members
  <2> QED
    BY <1>2, <2>2, <2>3, <2>4
<1>8. ASSUME Injective(s), NEW i \in 1..Len(r), NEW j \in 1..Len(r), r[i] = r[j]
      PROVE  i = j
  BY <1>2, <1>4, <1>5, <1>8 DEF Injective
<1>9. Injective(s) => Injective(r)
  BY <1>8 DEF Injective
<1> QED
  BY <1>3, <1>6, <1>7, <1>9 DEF r, k

\* moveRow of the order screen: a permutation of the list.
LEMMA Moved ==
  ASSUME NEW s \in Seq(Entries), NEW i \in DOMAIN s, NEW j \in DOMAIN s
  PROVE  LET r == InsertAt(RemoveAt(s, i), j, s[i])
         IN  r \in Seq(Entries) /\ ToSet(r) = ToSet(s) /\ (Injective(s) => Injective(r))
<1> DEFINE q == RemoveAt(s, i)
           r == InsertAt(q, j, s[i])
           a == SubSeq(q, 1, j - 1)
           b == SubSeq(q, j, Len(q))
<1>1. i \in 1..Len(s) /\ j \in 1..Len(s) /\ Len(s) \in Nat /\ s[i] \in Entries
  OBVIOUS
<1>2. q \in Seq(Entries) /\ Without(q, s, i)
  BY <1>1, RemovedAt
<1>3. r = (a \o <<s[i]>>) \o b
  BY DEF InsertAt
<1> HIDE DEF q, r
<1>4. Len(q) \in Nat /\ Len(q) = Len(s) - 1
  BY <1>1, <1>2 DEF Without
<1>5. a \in Seq(Entries) /\ Len(a) = j - 1 /\ \A m \in 1..(j - 1) : a[m] = q[m]
  BY <1>1, <1>2, <1>4
<1>6. b \in Seq(Entries) /\ Len(b) = Len(s) - j /\ \A m \in 1..(Len(s) - j) : b[m] = q[j + m - 1]
  BY <1>1, <1>2, <1>4
<1> HIDE DEF a, b
<1> DEFINE c == a \o <<s[i]>>
<1>7. c \in Seq(Entries) /\ Len(c) = j /\ \A m \in 1..j : c[m] = IF m < j THEN a[m] ELSE s[i]
  <2>1. <<s[i]>> \in Seq(Entries) /\ Len(<<s[i]>>) = 1 /\ <<s[i]>>[1] = s[i]
    BY <1>1
  <2>2. c \in Seq(Entries) /\ Len(c) = j
    BY <1>1, <1>5, <2>1, ConcatProperties
  <2>3. \A m \in 1..Len(c) : c[m] = IF m <= Len(a) THEN a[m] ELSE <<s[i]>>[m - Len(a)]
    BY <1>5, <2>1, ConcatProperties
  <2>4. ASSUME NEW m \in 1..j
        PROVE  c[m] = IF m < j THEN a[m] ELSE s[i]
    <3>1. CASE m < j
      BY <1>1, <1>5, <2>2, <2>3, <3>1
    <3>2. CASE m = j
      <4>1. ~(m <= Len(a)) /\ m - Len(a) = 1 /\ m \in 1..Len(c)
        BY <1>1, <1>5, <2>2, <3>2
      <4>2. c[m] = <<s[i]>>[m - Len(a)]
        BY <2>3, <4>1
      <4>3. c[m] = <<s[i]>>[1]
        BY <4>1, <4>2
      <4> HIDE DEF c
      <4>4. c[m] = s[i]
        BY <2>1, <4>3, Zenon
      <4> QED
        BY <3>2, <4>4
    <3>3. m < j \/ m = j
      BY <1>1
    <3> QED
      BY <3>1, <3>2, <3>3
  <2> QED
    BY <2>2, <2>4
<1>8. r = c \o b
  BY <1>3
<1> HIDE DEF c
<1>9. r \in Seq(Entries) /\ Len(r) = Len(s)
  <2>1. r \in Seq(Entries) /\ Len(r) = Len(c) + Len(b)
    BY <1>6, <1>7, <1>8, ConcatProperties
  <2> QED
    BY <1>1, <1>6, <1>7, <2>1
<1>10. ASSUME NEW m \in 1..Len(s)
       PROVE  /\ m < j => r[m] = q[m] /\ m \in 1..Len(q)
              /\ m = j => r[m] = s[i]
              /\ m > j => r[m] = q[m - 1] /\ m - 1 \in 1..Len(q)
  <2>1. r[m] = IF m <= Len(c) THEN c[m] ELSE b[m - Len(c)]
    BY <1>6, <1>7, <1>8, <1>9, ConcatProperties
  <2>2. CASE m < j
    BY <1>1, <1>4, <1>5, <1>7, <2>1, <2>2
  <2>3. CASE m = j
    BY <1>1, <1>7, <2>1, <2>3
  <2>4. CASE m > j
    <3>1. m - j \in 1..(Len(s) - j) /\ j + (m - j) - 1 = m - 1 /\ ~(m <= Len(c))
      BY <1>1, <1>7, <2>4
    <3>2. r[m] = b[m - j]
      BY <1>7, <2>1, <3>1
    <3>3. b[m - j] = q[m - 1]
      BY <1>6, <3>1
    <3>4. m - 1 \in 1..Len(q)
      BY <1>1, <1>4, <2>4
    <3> QED
      BY <2>4, <3>2, <3>3, <3>4
  <2> QED
    BY <1>1, <2>2, <2>3, <2>4
\* Position m of the new list is position Old(m) of the old one.
<1> DEFINE Old(m) == IF m = j THEN i
                     ELSE LET n == IF m < j THEN m ELSE m - 1 IN IF n < i THEN n ELSE n + 1
<1>11. ASSUME NEW m \in 1..Len(s)
       PROVE  Old(m) \in 1..Len(s) /\ r[m] = s[Old(m)]
  <2>1. \A n \in 1..Len(q) : q[n] = IF n < i THEN s[n] ELSE s[n + 1]
    BY <1>2 DEF Without
  <2>2. CASE m = j
    BY <1>1, <1>10, <2>2
  <2>3. CASE m < j
    <3>1. r[m] = q[m] /\ m \in 1..Len(q)
      BY <1>10, <2>3
    <3>2. q[m] = IF m < i THEN s[m] ELSE s[m + 1]
      BY <2>1, <3>1
    <3> QED
      BY <1>1, <1>4, <2>3, <3>1, <3>2
  <2>4. CASE m > j
    <3>1. r[m] = q[m - 1] /\ m - 1 \in 1..Len(q)
      BY <1>10, <2>4
    <3>2. q[m - 1] = IF m - 1 < i THEN s[m - 1] ELSE s[(m - 1) + 1]
      BY <2>1, <3>1
    <3> QED
      BY <1>1, <1>4, <2>4, <3>1, <3>2
  <2> QED
    BY <1>1, <2>2, <2>3, <2>4
<1>12. ASSUME NEW m \in 1..Len(s), NEW n \in 1..Len(s), Old(m) = Old(n)
       PROVE  m = n
  BY <1>1, <1>12
<1>13. ASSUME NEW n \in 1..Len(s)
       PROVE  \E m \in 1..Len(s) : Old(m) = n
  <2>1. CASE n = i
    BY <1>1, <2>1
  <2>2. CASE n < i
    <3>1. CASE n < j
      BY <1>1, <2>2, <3>1
    <3>2. CASE n >= j
      <4>1. n + 1 \in 1..Len(s) /\ Old(n + 1) = n
        BY <1>1, <2>2, <3>2
      <4> QED
        BY <4>1
    <3> QED
      BY <1>1, <3>1, <3>2
  <2>3. CASE n > i
    <3>1. CASE n - 1 < j
      <4>1. n - 1 \in 1..Len(s) /\ Old(n - 1) = n
        BY <1>1, <2>3, <3>1
      <4> QED
        BY <4>1
    <3>2. CASE n - 1 >= j
      BY <1>1, <2>3, <3>2
    <3> QED
      BY <1>1, <3>1, <3>2
  <2> QED
    BY <1>1, <2>1, <2>2, <2>3
<1> HIDE DEF Old
<1>14. ASSUME Injective(s)
       PROVE  Injective(r)
  <2> SUFFICES ASSUME NEW m \in 1..Len(r), NEW n \in 1..Len(r), r[m] = r[n]
               PROVE  m = n
    BY DEF Injective
  <2>1. m \in 1..Len(s) /\ n \in 1..Len(s)
    BY <1>9
  <2>2. Old(m) \in 1..Len(s) /\ Old(n) \in 1..Len(s) /\ s[Old(m)] = s[Old(n)]
    BY <1>11, <2>1
  <2>3. Old(m) = Old(n)
    BY <1>14, <2>2 DEF Injective
  <2> QED
    BY <1>12, <2>1, <2>3
<1>15. ASSUME NEW x \in ToSet(r)
       PROVE  x \in ToSet(s)
  <2>1. PICK m \in 1..Len(r) : r[m] = x
    BY <1>9, Members
  <2>2. Old(m) \in 1..Len(s) /\ s[Old(m)] = x
    BY <1>9, <1>11, <2>1
  <2> QED
    BY <2>2, Members
<1>16. ASSUME NEW x \in ToSet(s)
       PROVE  x \in ToSet(r)
  <2>1. PICK n \in 1..Len(s) : s[n] = x
    BY Members
  <2>2. PICK m \in 1..Len(s) : Old(m) = n
    BY <1>13
  <2>3. m \in 1..Len(r) /\ r[m] = x
    BY <1>9, <1>11, <2>1, <2>2
  <2> QED
    BY <1>9, <2>3, Members
<1> QED
  BY <1>9, <1>14, <1>15, <1>16 DEF r, q

\* The sorted entries are all that have been loaded, each once.
LEMMA Sorted ==
  ASSUME NEW S \in SUBSET Entries, IsFiniteSet(S), NEW s \in SetToSeqs(S)
  PROVE  s \in Seq(Entries) /\ ToSet(s) = S /\ Injective(s)
<1> DEFINE n == Cardinality(S)
<1>1. n \in Nat
  BY FS_CardinalityType
<1>2. s \in [1..n -> S] /\ \A i, j \in 1..n : i # j => s[i] # s[j]
  BY DEF SetToSeqs
<1>3. s \in Seq(S) /\ Len(s) = n
  BY <1>1, <1>2, SeqDef, LenProperties
<1>4. s \in Seq(Entries)
  BY <1>1, <1>2, <1>3, SeqDef
<1>5. Injective(s)
  BY <1>2, <1>3 DEF Injective
<1>6. IsFiniteSet(ToSet(s)) /\ Cardinality(ToSet(s)) = Cardinality(S)
  BY <1>3, <1>4, <1>5, Members, MembersCounted
<1>7. ToSet(s) \subseteq S
  BY <1>2, <1>3, <1>4, Members
<1>8. ToSet(s) = S
  BY <1>6, <1>7, FS_Subset
<1> QED
  BY <1>4, <1>5, <1>8

-----------------------------------------------------------------------------
(* Calls, completion handlers and the editor.                              *)

LEMMA CallFields ==
  ASSUME NEW k \in Call
  PROVE  /\ k.op \in {"upload", "user", "cover", "trip", "fetchTrip", "entry", "fetchEntry"}
         /\ k.op = "upload" => /\ k.entry \in Entries /\ k.press \in Presses
                               /\ k = [op |-> "upload", entry |-> k.entry, press |-> k.press]
         /\ k.op = "user" => /\ k.ids \in Seq(Entries) /\ k.press \in Presses
                             /\ k = [op |-> "user", ids |-> k.ids, press |-> k.press]
         /\ k.op \in {"cover", "trip", "fetchTrip"} =>
              k.trip \in Trips /\ k = [op |-> k.op, trip |-> k.trip]
         /\ k.op \in {"entry", "fetchEntry"} =>
              k.entry \in Entries /\ k = [op |-> k.op, entry |-> k.entry]
BY DEF Call

LEMMA CallMade ==
  /\ \A e \in Entries, s \in Presses : [op |-> "upload", entry |-> e, press |-> s] \in Call
  /\ \A l \in Seq(Entries), s \in Presses : [op |-> "user", ids |-> l, press |-> s] \in Call
  /\ \A t \in Trips : /\ [op |-> "cover", trip |-> t] \in Call
                      /\ [op |-> "trip", trip |-> t] \in Call
                      /\ [op |-> "fetchTrip", trip |-> t] \in Call
  /\ \A e \in Entries : /\ [op |-> "entry", entry |-> e] \in Call
                        /\ [op |-> "fetchEntry", entry |-> e] \in Call
BY DEF Call

LEMMA AckFields ==
  ASSUME NEW a \in Completion
  PROVE  /\ a.op \in {"stored", "updated", "tripIDs", "orders"}
         /\ a.op = "stored" => /\ a.press \in Presses
                               /\ a = [op |-> "stored", press |-> a.press]
         /\ a.op # "stored" => a.trip \in Trips
         /\ a.op \in {"updated", "tripIDs"} =>
              a.ids \in Seq(Entries) /\ a = [op |-> a.op, trip |-> a.trip, ids |-> a.ids]
         /\ a.op = "orders" => a = [op |-> "orders", trip |-> a.trip]
BY DEF Completion

LEMMA AckMade ==
  /\ \A s \in Presses : [op |-> "stored", press |-> s] \in Completion
  /\ \A t \in Trips, l \in Seq(Entries) :
       /\ [op |-> "updated", trip |-> t, ids |-> l] \in Completion
       /\ [op |-> "tripIDs", trip |-> t, ids |-> l] \in Completion
  /\ \A t \in Trips : [op |-> "orders", trip |-> t] \in Completion
BY DEF Completion

LEMMA AckAppended ==
  ASSUME NEW s \in Seq(Completion), NEW a \in Completion
  PROVE  /\ Append(s, a) \in Seq(Completion)
         /\ Len(Append(s, a)) = Len(s) + 1 /\ Len(s) \in Nat
         /\ \A i \in 1..Len(s) : Append(s, a)[i] = s[i]
         /\ Append(s, a)[Len(s) + 1] = a
OBVIOUS

LEMMA AckTaken ==
  ASSUME NEW s \in Seq(Completion), s # <<>>
  PROVE  /\ Head(s) = s[1] /\ Head(s) \in Completion /\ 1 \in 1..Len(s)
         /\ Tail(s) \in Seq(Completion)
         /\ Len(s) \in Nat \ {0} /\ Len(Tail(s)) = Len(s) - 1
         /\ \A i \in 1..Len(Tail(s)) : Tail(s)[i] = s[i + 1] /\ i + 1 \in 1..Len(s)
OBVIOUS

LEMMA ClosedEditor ==
  /\ Closed \in Editor
  /\ Closed.phase = "closed" /\ Closed.tripID = NoTrip /\ Closed.list = <<>>
  /\ Closed.deleted = {} /\ Closed.map = {}
  /\ NotLoading \in [want : SUBSET Entries, got : SUBSET Entries]
  /\ NotLoading.want = {} /\ NotLoading.got = {}
BY DEF Closed, Editor, NotLoading

\* What a press needs and leaves.
LEMMA Pressed ==
  ASSUME TypeOK, Press
  PROVE  /\ presses \in Nat /\ presses' = presses + 1 /\ presses' \in Presses
         /\ presses \in Presses /\ hasty' \in 0..MaxHasty
         /\ hasty' = 0 => hasty = 0 /\ Settled
         /\ UNCHANGED <<failed, crashed, torn, lost>>
BY TripAssumption DEF TypeOK, Press, Presses

-----------------------------------------------------------------------------
(* Every user, hasty or not.                                               *)

LEMMA InitBase == Init => BaseInv
<1> SUFFICES ASSUME Init
             PROVE  BaseInv
  OBVIOUS
<1>1. TypeOK
  <2>1. ann \in [Entries -> Entry] /\ counts \in [Presses -> Nat]
    BY DEF Init, Entry
  <2>2. presses \in Presses /\ hasty \in 0..MaxHasty
    BY TripAssumption DEF Init, Presses
  <2>3. acks \in Seq(Completion)
    BY DEF Init
  <2> QED
    BY <2>1, <2>2, <2>3, ClosedEditor DEF Init, TypeOK
<1>2. IsFiniteSet(load.want)
  BY ClosedEditor, FS_EmptySet DEF Init
<1>3. DeletionsAlone /\ NamesInv /\ CoverInv
  BY ClosedEditor DEF Init, DeletionsAlone, Deleting, NamesInv, CoverInv
<1> QED
  BY <1>1, <1>2, <1>3 DEF BaseInv, Init

LEMMA NewEditorBase == BaseInv /\ NewEditor => BaseInv'
<1> SUFFICES ASSUME BaseInv, NewEditor
             PROVE  BaseInv'
  OBVIOUS
<1> USE DEF BaseInv
<1>1. PICK v : v = [Closed EXCEPT !.phase = "open"]
  OBVIOUS
<1>2. v \in Editor /\ v.phase = "open" /\ v.tripID = NoTrip
  BY <1>1, ClosedEditor DEF Editor, Closed
<1>3. vc' = v /\ load' = NotLoading
  BY <1>1 DEF NewEditor
<1>4. TypeOK'
  BY <1>2, <1>3, ClosedEditor, Pressed DEF NewEditor, TypeOK, store
<1>5. IsFiniteSet(load'.want)
  BY <1>3, ClosedEditor, FS_EmptySet
<1>6. calls = {} /\ calls' = {} /\ acks' = acks /\ trips' = trips
  BY DEF NewEditor, Settled, store
<1>7. DeletionsAlone' /\ NamesInv' /\ CoverInv'
  BY <1>2, <1>3, <1>6, Pressed DEF DeletionsAlone, Deleting, NamesInv, CoverInv, NewEditor
<1>8. torn' => crashed'
  BY Pressed DEF NewEditor
<1> QED
  BY <1>4, <1>5, <1>7, <1>8

LEMMA EditTripBase == ASSUME BaseInv, NEW t \in Trips, EditTrip(t) PROVE BaseInv'
<1> USE DEF BaseInv
<1>1. PICK v : v = [Closed EXCEPT !.phase = "open", !.tripID = t]
  OBVIOUS
<1>2. v \in Editor /\ v.phase = "open" /\ v.tripID = t
  BY <1>1, ClosedEditor DEF Editor, Closed
<1>3. vc' = v /\ load' = NotLoading
  BY <1>1 DEF EditTrip
<1>4. calls = {} /\ acks' = acks /\ acks = <<>> /\ trips' = trips
      /\ trips[t] # NoDoc
  BY DEF EditTrip, Settled, store
<1>5. calls' = {[op |-> "trip", trip |-> t]}
  BY <1>4 DEF EditTrip
<1>6. TypeOK'
  <2>1. calls' \subseteq Call
    BY <1>5, CallMade
  <2> QED
    BY <1>2, <1>3, <2>1, ClosedEditor, Pressed DEF EditTrip, TypeOK, store
<1>7. IsFiniteSet(load'.want)
  BY <1>3, ClosedEditor, FS_EmptySet
<1>8. DeletionsAlone' /\ NamesInv' /\ CoverInv'
  BY <1>2, <1>3, <1>4, <1>5, Pressed DEF DeletionsAlone, Deleting, NamesInv, CoverInv, EditTrip
<1>9. torn' => crashed'
  BY Pressed DEF EditTrip
<1> QED
  BY <1>6, <1>7, <1>8, <1>9

LEMMA TripLoadedBase == ASSUME BaseInv, NEW k \in calls, TripLoaded(k) PROVE BaseInv'
<1> USE DEF BaseInv
<1> DEFINE ids == trips[k.trip].entries
           new == {[op |-> "entry", entry |-> e] : e \in ToSet(ids)}
<1>1. k \in Call /\ k.op = "trip" /\ k.trip \in Trips
  BY CallFields DEF TripLoaded, TypeOK
<1>2. trips[k.trip] \in Trip
  BY <1>1 DEF NamesInv, TypeOK
<1>3. ids \in Seq(Entries)
  BY <1>2 DEF Trip
<1>4. ToSet(ids) \subseteq Entries /\ IsFiniteSet(ToSet(ids))
  BY <1>3, Members
<1>5. new \subseteq Call /\ \A c \in new : c.op = "entry"
  <2>1. ASSUME NEW c \in new
        PROVE  c \in Call /\ c.op = "entry"
    <3>1. PICK e \in ToSet(ids) : c = [op |-> "entry", entry |-> e]
      OBVIOUS
    <3> QED
      BY <1>4, <3>1, CallMade
  <2> QED
    BY <2>1
<1>6. calls' = (calls \ {k}) \cup new /\ load' = [want |-> ToSet(ids), got |-> {}]
  BY DEF TripLoaded
<1> HIDE DEF ids, new
<1>7. PICK v : v = [vc EXCEPT !.ready = TRUE]
  OBVIOUS
<1>8. v \in Editor /\ v.phase = vc.phase /\ v.tripID = vc.tripID
  BY <1>7 DEF TypeOK, Editor
<1>9. vc' = v /\ UNCHANGED <<store, myTrips, ann, counts, acks, past, used, saving>>
  BY <1>7 DEF TripLoaded
<1>10. TypeOK'
  BY <1>4, <1>5, <1>6, <1>8, <1>9 DEF TypeOK, store, past
<1>11. IsFiniteSet(load'.want)
  BY <1>4, <1>6
<1>12. ~Deleting /\ ~Deleting'
  BY <1>1, <1>5, <1>6 DEF DeletionsAlone, Deleting
<1>13. NamesInv'
  BY <1>5, <1>6, <1>8, <1>9, <1>12 DEF NamesInv, store, Settled
<1>14. CoverInv'
  BY <1>1, <1>6, <1>9 DEF CoverInv, store, past
<1> QED
  BY <1>9, <1>10, <1>11, <1>12, <1>13, <1>14 DEF DeletionsAlone, past

LEMMA EntryLoadedBase == ASSUME BaseInv, NEW k \in calls, EntryLoaded(k) PROVE BaseInv'
<1> USE DEF BaseInv
<1>1. k \in Call /\ k.op = "entry" /\ k.entry \in Entries
  BY CallFields DEF EntryLoaded, TypeOK
<1>2. calls' = calls \ {k} /\ UNCHANGED <<store, myTrips, counts, acks, past, used, saving>>
  BY DEF EntryLoaded
<1>3. /\ vc' \in Editor /\ vc'.phase = vc.phase /\ vc'.tripID = vc.tripID
      /\ ann' \in [Entries -> Entry]
      /\ load' \in [want : SUBSET Entries, got : SUBSET Entries] /\ load'.want = load.want
  <2>1. CASE ~Stored(k.entry)
    BY <2>1 DEF EntryLoaded, TypeOK
  <2>2. CASE Stored(k.entry)
    <3> DEFINE e == k.entry
               got == load.got \cup {e}
    <3>1. /\ load' = [load EXCEPT !.got = got]
          /\ ann' = [ann EXCEPT ![e] = docs[e]]
          /\ IF got = load.want
             THEN \E s \in SetToSeqs(got) : vc' = [vc EXCEPT !.map = @ \cup {e}, !.list = s]
             ELSE vc' = [vc EXCEPT !.map = @ \cup {e}]
      BY <2>2 DEF EntryLoaded
    <3>2. load.got \in SUBSET Entries /\ load.want \in SUBSET Entries /\ got \in SUBSET Entries
      BY <1>1 DEF TypeOK
    <3>3. load' \in [want : SUBSET Entries, got : SUBSET Entries] /\ load'.want = load.want
      BY <3>1, <3>2 DEF TypeOK
    <3>4. docs[e] \in Entry
      BY <1>1, <2>2 DEF TypeOK, Stored
    <3>5. ann' \in [Entries -> Entry]
      BY <1>1, <3>1, <3>4 DEF TypeOK
    <3> HIDE DEF got
    <3>6. CASE got = load.want
      <4>1. PICK s \in SetToSeqs(got) : vc' = [vc EXCEPT !.map = @ \cup {e}, !.list = s]
        BY <3>1, <3>6
      <4>2. s \in Seq(Entries)
        BY <3>2, <3>6, Sorted
      <4>3. vc' \in Editor /\ vc'.phase = vc.phase /\ vc'.tripID = vc.tripID
        BY <1>1, <4>1, <4>2 DEF TypeOK, Editor
      <4> QED
        BY <3>3, <3>5, <4>3
    <3>7. CASE got # load.want
      <4>1. vc' = [vc EXCEPT !.map = @ \cup {e}]
        BY <3>1, <3>7
      <4>2. vc' \in Editor /\ vc'.phase = vc.phase /\ vc'.tripID = vc.tripID
        BY <1>1, <4>1 DEF TypeOK, Editor
      <4> QED
        BY <3>3, <3>5, <4>2
    <3> QED
      BY <3>6, <3>7
  <2> QED
    BY <2>1, <2>2
<1>4. TypeOK'
  BY <1>2, <1>3 DEF TypeOK, store, past
<1>5. ~Deleting /\ ~Deleting'
  BY <1>1, <1>2 DEF DeletionsAlone, Deleting
<1>6. NamesInv'
  BY <1>2, <1>3, <1>5 DEF NamesInv, store, Settled
<1>7. CoverInv'
  BY <1>1, <1>2 DEF CoverInv, store, past
<1> QED
  BY <1>2, <1>3, <1>4, <1>5, <1>6, <1>7 DEF DeletionsAlone, past

\* Steps that change nothing but the editor, the objects on the map and the ids drawn.
EditorOnly ==
  /\ vc' \in Editor /\ vc'.tripID = vc.tripID
  /\ vc'.phase = vc.phase \/ (vc.phase = "alert" /\ vc'.phase = "closed")
  /\ ann' \in [Entries -> Entry] /\ used' \in SUBSET (Entries \cup Trips)
  /\ presses' \in Presses /\ hasty' \in 0..MaxHasty
  /\ UNCHANGED <<store, myTrips, load, counts, calls, acks, failed, crashed, torn, lost, saving>>

LEMMA EditorOnlyBase == BaseInv /\ EditorOnly => BaseInv'
<1> SUFFICES ASSUME BaseInv, EditorOnly
             PROVE  BaseInv'
  OBVIOUS
<1> USE DEF BaseInv
<1>1. TypeOK'
  BY DEF EditorOnly, TypeOK, store
<1>2. DeletionsAlone'
  BY DEF DeletionsAlone, Deleting, EditorOnly
<1>3. NamesInv'
  BY DEF NamesInv, EditorOnly, store, Settled, Deleting
<1>4. CoverInv'
  BY DEF CoverInv, EditorOnly, store
<1> QED
  BY <1>1, <1>2, <1>3, <1>4 DEF EditorOnly

LEMMA FillInEdits == TypeOK /\ FillIn => EditorOnly
BY DEF FillIn, EditorOnly, TypeOK, Editor, past

LEMMA AddEdits == ASSUME TypeOK, NEW e \in Entries, addAnnotation(e) PROVE EditorOnly
<1>1. vc.list \in Seq(Entries)
  BY DEF TypeOK, Editor
<1>2. Append(vc.list, e) \in Seq(Entries) /\ Len(vc.list) \in Nat
  BY <1>1
<1>3. [tripID |-> NoTrip, order |-> Len(vc.list)] \in Entry
  BY <1>2 DEF Entry
<1>4. ann' \in [Entries -> Entry]
  BY <1>3 DEF TypeOK, addAnnotation
<1>5. vc' = [vc EXCEPT !.map = @ \cup {e}, !.list = Append(@, e)]
  BY DEF addAnnotation
<1>6. vc' \in Editor /\ vc'.tripID = vc.tripID /\ vc'.phase = vc.phase
  BY <1>2, <1>5 DEF TypeOK, Editor
<1> QED
  BY <1>4, <1>6, Pressed DEF EditorOnly, addAnnotation, TypeOK

LEMMA DeleteEdits == ASSUME TypeOK, NEW e \in Entries, deleteAnnotation(e) PROVE EditorOnly
<1>1. vc.list \in Seq(Entries)
  BY DEF TypeOK, Editor
<1>2. vc' \in Editor /\ vc'.tripID = vc.tripID /\ vc'.phase = vc.phase
  <2>1. CASE e \in ToSet(vc.list)
    <3>1. PICK l \in Seq(Entries) : l = vc.list
      BY <1>1
    <3>2. PICK r : r = RemoveAt(l, SelectInSeq(l, LAMBDA x : x = e))
      OBVIOUS
    <3>3. r \in Seq(Entries)
      BY <2>1, <3>1, <3>2, Deleted
    <3>4. vc' = [vc EXCEPT !.map = @ \ {e}, !.deleted = @ \cup {e}, !.list = r]
      BY <2>1, <3>1, <3>2 DEF deleteAnnotation
    <3> QED
      BY <3>3, <3>4 DEF TypeOK, Editor
  <2>2. CASE e \notin ToSet(vc.list)
    <3>1. vc' = [vc EXCEPT !.map = @ \ {e}]
      BY <2>2 DEF deleteAnnotation
    <3> QED
      BY <3>1 DEF TypeOK, Editor
  <2> QED
    BY <2>1, <2>2
<1> QED
  BY <1>2, Pressed DEF EditorOnly, deleteAnnotation, TypeOK

LEMMA ReorderEdits == TypeOK /\ Reorder => EditorOnly
<1> SUFFICES ASSUME TypeOK, Reorder
             PROVE  EditorOnly
  OBVIOUS
<1>1. vc.list \in Seq(Entries)
  BY DEF TypeOK, Editor
<1>2. PICK i, j \in DOMAIN vc.list : vc' = [vc EXCEPT !.list = InsertAt(RemoveAt(@, i), j, @[i])]
  BY DEF Reorder
<1>3. InsertAt(RemoveAt(vc.list, i), j, vc.list[i]) \in Seq(Entries)
  BY <1>1, Moved
<1>4. vc' \in Editor /\ vc'.tripID = vc.tripID /\ vc'.phase = vc.phase
  BY <1>2, <1>3 DEF TypeOK, Editor
<1> QED
  BY <1>4, Pressed DEF EditorOnly, Reorder, TypeOK

LEMMA AlertOkEdits == TypeOK /\ AlertOk => EditorOnly
BY DEF AlertOk, EditorOnly, TypeOK, Editor, past


LEMMA deleteTripBase == ASSUME BaseInv, NEW t \in Trips, deleteTrip(t) PROVE BaseInv'
<1> USE DEF BaseInv
<1>1. calls = {} /\ acks = <<>> /\ vc.phase = "closed" /\ trips[t] # NoDoc
  BY DEF deleteTrip, Settled
<1>2. calls' = {[op |-> "fetchTrip", trip |-> t]}
  BY <1>1 DEF deleteTrip
<1>3. UNCHANGED <<store, myTrips, vc, ann, load, counts, acks, used, saving>>
  BY DEF deleteTrip
<1>4. calls' \subseteq Call
  BY <1>2, CallMade
<1>5. TypeOK'
  BY <1>3, <1>4, Pressed DEF deleteTrip, TypeOK, store
<1>6. DeletionsAlone' /\ NamesInv' /\ CoverInv'
  BY <1>1, <1>2, <1>3, Pressed
     DEF DeletionsAlone, Deleting, NamesInv, CoverInv, deleteTrip, store
<1> QED
  BY <1>3, <1>5, <1>6, Pressed DEF deleteTrip

LEMMA ListenerRefreshBase == BaseInv /\ ListenerRefresh => BaseInv'
<1> SUFFICES ASSUME BaseInv, ListenerRefresh
             PROVE  BaseInv'
  OBVIOUS
<1> USE DEF BaseInv
<1>1. TypeOK'
  BY DEF ListenerRefresh, TypeOK, store, past
<1>2. DeletionsAlone' /\ NamesInv' /\ CoverInv'
  BY DEF ListenerRefresh, DeletionsAlone, Deleting, NamesInv, CoverInv, Settled, store, past
<1> QED
  BY <1>1, <1>2 DEF ListenerRefresh, past

LEMMA TerminatedBase == BaseInv /\ Terminated => BaseInv'
<1> SUFFICES ASSUME BaseInv, Terminated
             PROVE  BaseInv'
  OBVIOUS
<1> USE DEF BaseInv
<1>1. /\ vc' = Closed /\ load' = NotLoading /\ calls' = {} /\ acks' = <<>>
      /\ myTrips' = userTrips /\ saving' = FALSE /\ crashed' = TRUE /\ torn' \in BOOLEAN
      /\ UNCHANGED <<store, ann, counts, presses, hasty, failed, lost, used>>
  BY DEF Terminated
<1>2. acks' \in Seq(Completion)
  BY <1>1
<1>3. TypeOK'
  BY <1>1, <1>2, ClosedEditor DEF TypeOK, store
<1>4. IsFiniteSet(load'.want)
  BY <1>1, ClosedEditor, FS_EmptySet
<1>5. DeletionsAlone' /\ NamesInv' /\ CoverInv'
  BY <1>1, ClosedEditor DEF DeletionsAlone, Deleting, NamesInv, CoverInv
<1> QED
  BY <1>1, <1>3, <1>4, <1>5

-----------------------------------------------------------------------------
(* Documents as the writes leave them.                                     *)

TripsWith(t, l) == [trips EXCEPT ![t].entries = l]

LEMMA TripWritten ==
  ASSUME TypeOK, NEW t \in Trips, trips[t] # NoDoc, NEW l \in Seq(Entries),
         NEW w, w = TripsWith(t, l)
  PROVE  /\ w \in [Trips -> Trip \cup {NoDoc}]
         /\ w[t].entries = l /\ w[t].cover = trips[t].cover
         /\ \A q \in Trips : q # t => w[q] = trips[q]
         /\ \A q \in Trips : w[q] # NoDoc <=> trips[q] # NoDoc
<1>1. PICK r \in Trip : r = trips[t]
  BY DEF TypeOK
<1>2. PICK x : x = [r EXCEPT !.entries = l]
  OBVIOUS
<1>3. x \in Trip /\ x.entries = l /\ x.cover = r.cover /\ x # NoDoc
  BY <1>2, TripAssumption DEF Trip
<1>4. w = [trips EXCEPT ![t] = x]
  BY <1>1, <1>2, Zenon DEF TripsWith
<1>5. trips \in [Trips -> Trip \cup {NoDoc}]
  BY DEF TypeOK
<1>6. w[t] = x /\ \A q \in Trips : q # t => w[q] = trips[q]
  BY <1>4, <1>5
<1> QED
  BY <1>1, <1>3, <1>4, <1>5, <1>6

\* What updateTripID leaves.
LEMMA TripIDsWritten ==
  ASSUME TypeOK, NEW t \in Trips, NEW l \in Seq(Entries), NEW w, w = WithTripID(docs, l, t)
  PROVE  /\ w \in [Entries -> Entry \cup {NoDoc}]
         /\ \A e \in Entries : w[e] # NoDoc <=> Stored(e)
         /\ \A e \in Entries : e \in ToSet(l) /\ Stored(e) =>
              w[e].tripID = t /\ w[e].order = docs[e].order
         /\ \A e \in Entries : e \notin ToSet(l) => w[e] = docs[e]
<1>1. ASSUME NEW e \in Entries
      PROVE  /\ w[e] \in Entry \cup {NoDoc} /\ (w[e] # NoDoc <=> Stored(e))
             /\ e \in ToSet(l) /\ Stored(e) => w[e].tripID = t /\ w[e].order = docs[e].order
             /\ e \notin ToSet(l) => w[e] = docs[e]
  <2>1. CASE e \in ToSet(l) /\ docs[e] # NoDoc
    <3>1. PICK d \in Entry : d = docs[e]
      BY <2>1 DEF TypeOK
    <3>2. w[e] = [d EXCEPT !.tripID = t]
      BY <2>1, <3>1 DEF WithTripID
    <3>3. w[e] \in Entry /\ w[e].tripID = t /\ w[e].order = d.order /\ w[e] # NoDoc
      BY <3>2, TripAssumption DEF Entry
    <3> QED
      BY <2>1, <3>1, <3>3 DEF Stored
  <2>2. CASE ~(e \in ToSet(l) /\ docs[e] # NoDoc)
    <3>1. w[e] = docs[e]
      BY <2>2 DEF WithTripID
    <3> QED
      BY <2>2, <3>1 DEF TypeOK, Stored
  <2> QED
    BY <2>1, <2>2
<1>2. w = [e \in Entries |-> w[e]]
  BY DEF WithTripID
<1> HIDE DEF WithTripID
<1>3. w \in [Entries -> Entry \cup {NoDoc}]
  BY <1>1, <1>2
<1> QED
  BY <1>1, <1>3

LEMMA ObjectsNamed ==
  ASSUME TypeOK, NEW t \in Trips, NEW w, w = ObjectsWithTripID(t)
  PROVE  /\ w \in [Entries -> Entry]
         /\ \A e \in Entries : e \in ToSet(vc.list) => w[e].tripID = t
         /\ \A e \in Entries : e \notin ToSet(vc.list) => w[e] = ann[e]
<1>1. ASSUME NEW e \in Entries
      PROVE  /\ w[e] \in Entry /\ (e \in ToSet(vc.list) => w[e].tripID = t)
             /\ e \notin ToSet(vc.list) => w[e] = ann[e]
  <2>1. PICK d \in Entry : d = ann[e]
    BY DEF TypeOK
  <2>2. CASE e \in ToSet(vc.list)
    <3>1. w[e] = [d EXCEPT !.tripID = t]
      BY <2>1, <2>2 DEF ObjectsWithTripID
    <3> QED
      BY <2>2, <3>1 DEF Entry
  <2>3. CASE e \notin ToSet(vc.list)
    BY <2>1, <2>3 DEF ObjectsWithTripID
  <2> QED
    BY <2>2, <2>3
<1>2. w = [e \in Entries |-> w[e]]
  BY DEF ObjectsWithTripID
<1> QED
  BY <1>1, <1>2

\* What updateEntryOrder leaves.
OrdersIn(l) == [e \in Entries |->
  IF Stored(e) /\ e \in ToSet(l)
  THEN [docs[e] EXCEPT !.order = OrderOf(CHOOSE i \in DOMAIN l : l[i] = e)]
  ELSE docs[e]]

LEMMA OrdersWritten ==
  ASSUME TypeOK, NEW l \in Seq(Entries), NEW w, w = OrdersIn(l)
  PROVE  /\ w \in [Entries -> Entry \cup {NoDoc}]
         /\ \A e \in Entries : w[e] # NoDoc <=> Stored(e)
         /\ \A e \in Entries : Stored(e) => w[e].tripID = docs[e].tripID
         /\ \A e \in Entries : e \notin ToSet(l) => w[e] = docs[e]
         /\ \A i \in 1..Len(l) : Stored(l[i]) /\ Injective(l) => w[l[i]].order = i - 1
<1> DEFINE pos(e) == CHOOSE i \in DOMAIN l : l[i] = e
<1>1. ASSUME NEW e \in Entries, e \in ToSet(l)
      PROVE  pos(e) \in 1..Len(l) /\ l[pos(e)] = e
  <2>1. \E i \in DOMAIN l : l[i] = e
    BY <1>1, Members
  <2> QED
    BY <2>1
<1> HIDE DEF pos
<1>2. \A e \in Entries : w[e] = IF Stored(e) /\ e \in ToSet(l)
                                THEN [docs[e] EXCEPT !.order = OrderOf(pos(e))]
                                ELSE docs[e]
  BY DEF pos, OrdersIn
<1>3. ASSUME NEW e \in Entries
      PROVE  /\ w[e] \in Entry \cup {NoDoc} /\ (w[e] # NoDoc <=> Stored(e))
             /\ Stored(e) => w[e].tripID = docs[e].tripID
             /\ e \notin ToSet(l) => w[e] = docs[e]
             /\ Stored(e) /\ e \in ToSet(l) => w[e].order = pos(e) - 1
  <2>1. CASE Stored(e) /\ e \in ToSet(l)
    <3>1. PICK d \in Entry : d = docs[e]
      BY <2>1 DEF TypeOK, Stored
    <3>2. PICK n : n = pos(e) - 1
      OBVIOUS
    <3>3. n \in Nat
      BY <1>1, <2>1, <3>2
    <3>4. w[e] = [d EXCEPT !.order = n]
      BY <1>2, <2>1, <3>1, <3>2 DEF OrderOf
    <3>5. w[e] \in Entry /\ w[e].tripID = d.tripID /\ w[e].order = n /\ w[e] # NoDoc
      BY <3>3, <3>4, TripAssumption DEF Entry
    <3> QED
      BY <2>1, <3>1, <3>2, <3>5
  <2>2. CASE ~(Stored(e) /\ e \in ToSet(l))
    <3>1. w[e] = docs[e]
      BY <1>2, <2>2
    <3> QED
      BY <2>2, <3>1 DEF TypeOK, Stored
  <2> QED
    BY <2>1, <2>2
<1>4. w \in [Entries -> Entry \cup {NoDoc}]
  <2>1. w = [e \in Entries |-> w[e]]
    BY DEF OrdersIn
  <2> QED
    BY <1>3, <2>1
<1>5. ASSUME NEW i \in 1..Len(l), Stored(l[i]), Injective(l)
      PROVE  w[l[i]].order = i - 1
  <2>1. l[i] \in Entries /\ l[i] \in ToSet(l)
    BY Members
  <2>2. pos(l[i]) \in 1..Len(l) /\ l[pos(l[i])] = l[i]
    BY <1>1, <2>1
  <2>3. pos(l[i]) = i
    BY <1>5, <2>2 DEF Injective
  <2> QED
    BY <1>3, <1>5, <2>1, <2>3
<1> QED
  BY <1>3, <1>4, <1>5

LEMMA DeletesWritten ==
  ASSUME NEW d \in [Entries -> Entry \cup {NoDoc}], NEW w, w = Deletes(d)
  PROVE  /\ w \in [Entries -> Entry \cup {NoDoc}]
         /\ \A e \in Entries : e \in vc.deleted => w[e] = NoDoc
         /\ \A e \in Entries : e \notin vc.deleted => w[e] = d[e]
BY DEF Deletes

-----------------------------------------------------------------------------
(* Saving and deleting, for every user.                                    *)

\* An editor at work has a stored trip, or none yet.
LEMMA AtWork ==
  ASSUME BaseInv, ~Settled, ~Deleting
  PROVE  vc.tripID # NoTrip => vc.tripID \in Trips /\ trips[vc.tripID] # NoDoc
BY DEF BaseInv, NamesInv, TypeOK, Editor

LEMMA AckAlone ==
  ASSUME BaseInv, acks # <<>>
  PROVE  ~Settled /\ ~Deleting
BY DEF BaseInv, DeletionsAlone, Settled

LEMMA CallAlone ==
  ASSUME BaseInv, NEW k \in calls, k.op \notin {"fetchTrip", "fetchEntry"}
  PROVE  ~Settled /\ ~Deleting
BY DEF BaseInv, DeletionsAlone, Settled

LEMMA EditorFields ==
  ASSUME TypeOK
  PROVE  /\ vc.phase \in {"open", "alert", "closed"} /\ vc.tripID \in Trips \cup {NoTrip}
         /\ vc.list \in Seq(Entries) /\ vc.deleted \in SUBSET Entries
         /\ vc.map \in SUBSET Entries
BY DEF TypeOK, Editor

LEMMA SaveBase == BaseInv /\ saveButtonPressed => BaseInv'
<1> SUFFICES ASSUME BaseInv, saveButtonPressed
             PROVE  BaseInv'
  OBVIOUS
<1> USE DEF BaseInv
<1> DEFINE t == vc.tripID
           ups == {[op |-> "upload", entry |-> e, press |-> presses] : e \in ToSet(vc.list)}
           cov == IF UpdatesAtOnce THEN {[op |-> "cover", trip |-> t]} ELSE {}
<1>1. vc.phase = "open" /\ Press /\ saving' = TRUE
      /\ calls' = calls \cup ups \cup cov
      /\ UNCHANGED <<userTrips, myTrips, vc, load, counts, used>>
  BY DEF saveButtonPressed
<1>2. vc.list \in Seq(Entries) /\ ToSet(vc.list) \subseteq Entries /\ presses \in Presses
  BY EditorFields, Members, Pressed, <1>1
<1>3. ups \subseteq Call /\ \A c \in ups : c.op = "upload"
  <2>1. ASSUME NEW c \in ups
        PROVE  c \in Call /\ c.op = "upload"
    <3>1. PICK e \in ToSet(vc.list) : c = [op |-> "upload", entry |-> e, press |-> presses]
      OBVIOUS
    <3> QED
      BY <1>2, <3>1, CallMade
  <2> QED
    BY <2>1
<1>4. UpdatesAtOnce => t \in Trips /\ trips[t] # NoDoc
  BY <1>1, EditorFields DEF UpdatesAtOnce, NamesInv
<1>5. cov \subseteq Call /\ \A c \in cov : c.op = "cover"
  <2>1. CASE UpdatesAtOnce
    <3>1. cov = {[op |-> "cover", trip |-> t]}
      BY <2>1
    <3> HIDE DEF cov
    <3>2. [op |-> "cover", trip |-> t] \in Call
      BY <1>4, <2>1, CallMade
    <3> QED
      BY <3>1, <3>2
  <2>2. CASE ~UpdatesAtOnce
    <3>1. cov = {}
      BY <2>2
    <3> QED
      BY <3>1
  <2> QED
    BY <2>1, <2>2
<1> HIDE DEF ups, cov
<1>6. ~Deleting /\ ~Deleting'
  BY <1>1, <1>3, <1>5 DEF DeletionsAlone, Deleting
<1>7. /\ trips' \in [Trips -> Trip \cup {NoDoc}]
      /\ docs' \in [Entries -> Entry \cup {NoDoc}]
      /\ ann' \in [Entries -> Entry]
      /\ \A q \in Trips : /\ trips'[q] # NoDoc <=> trips[q] # NoDoc
                          /\ trips[q] # NoDoc => trips'[q].cover = trips[q].cover
      /\ \/ acks' = acks
         \/ /\ t \in Trips /\ trips[t] # NoDoc
            /\ acks' = Append(acks, [op |-> "tripIDs", trip |-> t, ids |-> vc.list])
  <2>1. CASE UpdatesAtOnce
    <3>1. /\ trips' = TripsWith(t, vc.list)
          /\ docs' = Deletes(WithTripID(docs, vc.list, t))
          /\ ann' = ObjectsWithTripID(t)
          /\ acks' = Append(acks, [op |-> "tripIDs", trip |-> t, ids |-> vc.list])
      BY <2>1 DEF saveButtonPressed, TripsWith
    <3>2. PICK d : d = WithTripID(docs, vc.list, t)
      OBVIOUS
    <3>3. d \in [Entries -> Entry \cup {NoDoc}]
      BY <1>2, <1>4, <2>1, <3>2, TripIDsWritten
    <3>4. docs' \in [Entries -> Entry \cup {NoDoc}]
      BY <3>1, <3>2, <3>3, DeletesWritten
    <3>5. ann' \in [Entries -> Entry]
      BY <1>4, <2>1, <3>1, ObjectsNamed
    <3>6. /\ trips' \in [Trips -> Trip \cup {NoDoc}]
          /\ \A q \in Trips : /\ trips'[q] # NoDoc <=> trips[q] # NoDoc
                              /\ trips[q] # NoDoc => trips'[q].cover = trips[q].cover
      BY <1>2, <1>4, <2>1, <3>1, TripWritten
    <3> QED
      BY <1>4, <2>1, <3>1, <3>4, <3>5, <3>6
  <2>2. CASE ~UpdatesAtOnce
    <3>1. docs' = Deletes(docs) /\ UNCHANGED <<trips, ann, acks>>
      BY <2>2 DEF saveButtonPressed
    <3>2. docs' \in [Entries -> Entry \cup {NoDoc}]
      BY <3>1, DeletesWritten DEF TypeOK
    <3> QED
      BY <3>1, <3>2 DEF TypeOK
  <2> QED
    BY <2>1, <2>2
<1>8. /\ acks' \in Seq(Completion)
      /\ \A i \in 1..Len(acks') : acks'[i].op # "stored" => trips[acks'[i].trip] # NoDoc
  <2>1. CASE acks' = acks
    BY <2>1 DEF TypeOK, NamesInv
  <2>2. CASE acks' # acks
    <3>1. PICK a \in Completion : /\ a.trip = t /\ acks' = Append(acks, a)
                                  /\ trips[t] # NoDoc
      BY <1>2, <1>7, <2>2, AckMade
    <3>2. \A i \in 1..Len(acks') : acks'[i] = a \/ (i \in 1..Len(acks) /\ acks'[i] = acks[i])
      BY <3>1, AckAppended DEF TypeOK
    <3> QED
      BY <3>1, <3>2, AckAppended DEF TypeOK, NamesInv
  <2> QED
    BY <2>1, <2>2
<1>9. TypeOK'
  BY <1>1, <1>3, <1>5, <1>7, <1>8, Pressed DEF TypeOK
<1>10. \A i \in 1..Len(acks') : acks'[i].op # "stored" => trips'[acks'[i].trip] # NoDoc
  <2> SUFFICES ASSUME NEW i \in 1..Len(acks'), acks'[i].op # "stored"
               PROVE  trips'[acks'[i].trip] # NoDoc
    OBVIOUS
  <2>1. acks'[i] \in Completion
    BY <1>8
  <2>2. acks'[i].trip \in Trips
    BY <2>1, AckFields
  <2> QED
    BY <1>7, <1>8, <2>2
<1>11. NamesInv'
  <2>1. vc.tripID # NoTrip => trips'[vc.tripID] # NoDoc
    BY <1>1, <1>7, EditorFields DEF NamesInv
  <2>2. ASSUME NEW c \in calls', c.op \in {"trip", "fetchTrip"}
        PROVE  trips'[c.trip] # NoDoc
    <3>1. c \in calls
      BY <1>1, <1>3, <1>5, <2>2
    <3>2. c.trip \in Trips
      BY <2>2, <3>1, CallFields DEF TypeOK
    <3> QED
      BY <1>7, <2>2, <3>1, <3>2 DEF NamesInv
  <2> QED
    BY <1>1, <1>10, <2>1, <2>2 DEF NamesInv
<1>12. CoverInv'
  BY <1>1, <1>7, Pressed DEF CoverInv
<1> QED
  BY <1>1, <1>6, <1>9, <1>11, <1>12, Pressed DEF DeletionsAlone

LEMMA UploadedBase == ASSUME BaseInv, NEW k \in calls, Uploaded(k) PROVE BaseInv'
<1> USE DEF BaseInv
<1>1. k \in Call /\ k.op = "upload" /\ k.entry \in Entries /\ k.press \in Presses
  BY CallFields DEF Uploaded, TypeOK
<1>2. /\ docs' = [docs EXCEPT ![k.entry] = ann[k.entry]] /\ calls' = calls \ {k}
      /\ UNCHANGED <<trips, userTrips, myTrips, vc, ann, load, counts, past, used, saving>>
  BY DEF Uploaded
<1>3. PICK a \in Completion : a.op = "stored" /\ acks' = Append(acks, a)
  BY <1>1, AckMade DEF Uploaded
<1>4. /\ acks' \in Seq(Completion)
      /\ \A i \in 1..Len(acks') : acks'[i] = a \/ (i \in 1..Len(acks) /\ acks'[i] = acks[i])
  BY <1>3, AckAppended DEF TypeOK
<1>5. docs' \in [Entries -> Entry \cup {NoDoc}]
  BY <1>1, <1>2 DEF TypeOK
<1>6. TypeOK'
  BY <1>2, <1>4, <1>5 DEF TypeOK, past
<1>7. ~Settled /\ ~Deleting /\ ~Deleting'
  BY <1>1, <1>2, CallAlone DEF Deleting
<1>8. NamesInv'
  BY <1>2, <1>3, <1>4, <1>7 DEF NamesInv
<1>9. CoverInv'
  BY <1>1, <1>2 DEF CoverInv, past
<1> QED
  BY <1>2, <1>6, <1>7, <1>8, <1>9 DEF DeletionsAlone, past

LEMMA EntryStoredBase == BaseInv /\ EntryStored => BaseInv'
<1> SUFFICES ASSUME BaseInv, EntryStored
             PROVE  BaseInv'
  OBVIOUS
<1> USE DEF BaseInv
<1>1. acks # <<>> /\ Head(acks).op = "stored" /\ acks' = Tail(acks)
      /\ UNCHANGED <<store, myTrips, vc, ann, load, past, used, saving>>
  BY DEF EntryStored, FirstAck
<1>2. /\ Head(acks) \in Completion /\ acks' \in Seq(Completion)
      /\ \A i \in 1..Len(acks') : i + 1 \in 1..Len(acks) /\ acks'[i] = acks[i + 1]
  BY <1>1, AckTaken DEF TypeOK
<1>3. PICK s \in Presses : s = Head(acks).press
  BY <1>1, <1>2, AckFields
<1>4. PICK n : n = counts[s] + 1
  OBVIOUS
<1>5. n \in Nat
  BY <1>4 DEF TypeOK
<1>6. counts' = [counts EXCEPT ![s] = n] /\ counts' \in [Presses -> Nat]
  BY <1>3, <1>4, <1>5 DEF EntryStored, TypeOK
<1>7. PICK u : u = [op |-> "user", ids |-> vc.list, press |-> s]
  OBVIOUS
<1>8. u \in Call /\ u.op = "user" /\ (calls' = calls \/ calls' = calls \cup {u})
  BY <1>3, <1>7, EditorFields, CallMade DEF EntryStored
<1>9. TypeOK'
  BY <1>1, <1>2, <1>6, <1>8 DEF TypeOK, past, store
<1>10. ~Settled /\ ~Deleting /\ ~Deleting'
  BY <1>1, <1>8, AckAlone DEF Deleting
<1>11. NamesInv'
  BY <1>1, <1>2, <1>8, <1>10 DEF NamesInv, store
<1>12. CoverInv'
  BY <1>1, <1>8 DEF CoverInv, past, store
<1> QED
  BY <1>1, <1>9, <1>10, <1>11, <1>12 DEF DeletionsAlone, past

\* The two ends of the read of the user's document.
TripsAnd(t, l) == [trips EXCEPT ![t] = [entries |-> l, cover |-> FALSE]]

NewTrip(k, t) ==
  /\ t \notin used
  /\ used' = used \cup {t}
  /\ trips' = TripsAnd(t, k.ids)
  /\ userTrips' = userTrips \cup {t}
  /\ docs' = WithTripID(docs, k.ids, t)
  /\ ann' = ObjectsWithTripID(t)
  /\ acks' = Append(acks, [op |-> "tripIDs", trip |-> t, ids |-> k.ids])
  /\ calls' = (calls \ {k}) \cup {[op |-> "cover", trip |-> t]}
  /\ vc' = IF vc.phase = "open" THEN [vc EXCEPT !.phase = "alert"] ELSE vc
  /\ saving' = FALSE
  /\ UNCHANGED <<myTrips, load, counts, past>>

OldTrip(k) ==
  /\ trips' = TripsWith(vc.tripID, k.ids)
  /\ acks' = Append(acks, [op |-> "updated", trip |-> vc.tripID, ids |-> k.ids])
  /\ calls' = calls \ {k}
  /\ UNCHANGED <<userTrips, docs, ann, vc, used, saving, myTrips, load, counts, past>>

LEMMA UserFetchedEnds ==
  ASSUME NEW k, UserFetched(k)
  PROVE  /\ k.op = "user"
         /\ \/ vc.tripID = NoTrip /\ \E t \in Trips : NewTrip(k, t)
            \/ vc.tripID # NoTrip /\ OldTrip(k)
BY DEF UserFetched, NewTrip, OldTrip, NewTripEntries, NewTripCover,
       TripsAnd, TripsWith

LEMMA TripMade ==
  ASSUME TypeOK, NEW t \in Trips, NEW l \in Seq(Entries),
         NEW w, w = TripsAnd(t, l)
  PROVE  /\ w \in [Trips -> Trip \cup {NoDoc}]
         /\ w[t].entries = l /\ w[t] # NoDoc
         /\ \A q \in Trips : q # t => w[q] = trips[q]
<1>1. PICK x : x = [entries |-> l, cover |-> FALSE]
  OBVIOUS
<1>2. x \in Trip /\ x.entries = l
  BY <1>1 DEF Trip
<1>3. x # NoDoc
  BY <1>2, TripAssumption
<1>4. w = [trips EXCEPT ![t] = x]
  BY <1>1 DEF TripsAnd
<1> QED
  BY <1>2, <1>3, <1>4 DEF TypeOK

LEMMA NewTripBase ==
  ASSUME BaseInv, NEW k \in calls, k.op = "user", vc.tripID = NoTrip, NEW t \in Trips, NewTrip(k, t)
  PROVE  BaseInv'
<1> USE DEF BaseInv
<1>1. k \in Call /\ k.ids \in Seq(Entries)
  BY CallFields DEF TypeOK
<1>2. /\ trips' \in [Trips -> Trip \cup {NoDoc}] /\ trips'[t] # NoDoc
      /\ \A q \in Trips : q # t => trips'[q] = trips[q]
  BY <1>1, TripMade DEF NewTrip
<1>3. docs' \in [Entries -> Entry \cup {NoDoc}]
  BY <1>1, TripIDsWritten DEF NewTrip
<1>4. ann' \in [Entries -> Entry]
  BY ObjectsNamed DEF NewTrip
<1>5. PICK a \in Completion : a.trip = t /\ acks' = Append(acks, a)
  BY <1>1, AckMade DEF NewTrip
<1>6. /\ acks' \in Seq(Completion)
      /\ \A i \in 1..Len(acks') : acks'[i] = a \/ (i \in 1..Len(acks) /\ acks'[i] = acks[i])
  BY <1>5, AckAppended DEF TypeOK
<1>7. PICK c \in Call : c = [op |-> "cover", trip |-> t] /\ calls' = (calls \ {k}) \cup {c}
  BY CallMade DEF NewTrip
<1>8. vc' \in Editor /\ vc'.tripID = NoTrip
  BY DEF NewTrip, TypeOK, Editor
<1>9. UNCHANGED <<myTrips, load, counts, past>> /\ saving' = FALSE
      /\ used' = used \cup {t} /\ userTrips' = userTrips \cup {t}
  BY DEF NewTrip
<1>10. TypeOK'
  BY <1>2, <1>3, <1>4, <1>6, <1>7, <1>8, <1>9 DEF TypeOK, past
<1>11. ~Settled /\ ~Deleting /\ ~Deleting'
  BY <1>7, CallAlone DEF Deleting
<1>12. \A i \in 1..Len(acks') : acks'[i].op # "stored" => trips'[acks'[i].trip] # NoDoc
  <2> SUFFICES ASSUME NEW i \in 1..Len(acks'), acks'[i].op # "stored"
               PROVE  trips'[acks'[i].trip] # NoDoc
    OBVIOUS
  <2>1. acks'[i] \in Completion /\ acks'[i].trip \in Trips
    BY <1>6, AckFields
  <2> QED
    BY <1>2, <1>5, <1>6, <2>1 DEF NamesInv
<1>13. NamesInv'
  <2>1. ASSUME NEW b \in calls', b.op \in {"trip", "fetchTrip"}
        PROVE  trips'[b.trip] # NoDoc
    <3>1. b \in calls /\ b \in Call
      BY <1>7, <2>1 DEF TypeOK
    <3>2. b.trip \in Trips /\ trips[b.trip] # NoDoc
      BY <2>1, <3>1, CallFields DEF NamesInv
    <3> QED
      BY <1>2, <3>2
  <2> QED
    BY <1>8, <1>12, <2>1 DEF NamesInv
<1>14. CoverInv'
  BY <1>2, <1>7, <1>9 DEF CoverInv, past
<1> QED
  BY <1>9, <1>10, <1>11, <1>13, <1>14 DEF DeletionsAlone, past

LEMMA OldTripBase ==
  ASSUME BaseInv, NEW k \in calls, k.op = "user", vc.tripID # NoTrip, OldTrip(k)
  PROVE  BaseInv'
<1> USE DEF BaseInv
<1>1. k \in Call /\ k.ids \in Seq(Entries)
  BY CallFields DEF TypeOK
<1>2. ~Settled /\ ~Deleting
  BY CallAlone
<1>3. PICK t \in Trips : t = vc.tripID /\ trips[t] # NoDoc
  BY <1>2, AtWork
<1>4. /\ trips' \in [Trips -> Trip \cup {NoDoc}]
      /\ \A q \in Trips : /\ trips'[q] # NoDoc <=> trips[q] # NoDoc
                          /\ trips[q] # NoDoc => trips'[q].cover = trips[q].cover
  BY <1>1, <1>3, TripWritten DEF OldTrip
<1>5. PICK a \in Completion : a.trip = t /\ acks' = Append(acks, a)
  BY <1>1, <1>3, AckMade DEF OldTrip
<1>6. /\ acks' \in Seq(Completion)
      /\ \A i \in 1..Len(acks') : acks'[i] = a \/ (i \in 1..Len(acks) /\ acks'[i] = acks[i])
  BY <1>5, AckAppended DEF TypeOK
<1>7. /\ calls' = calls \ {k}
      /\ UNCHANGED <<userTrips, docs, ann, vc, used, saving, myTrips, load, counts, past>>
  BY DEF OldTrip
<1>8. TypeOK'
  BY <1>4, <1>6, <1>7 DEF TypeOK, past
<1>9. ~Deleting'
  BY <1>2, <1>7 DEF Deleting
<1>10. \A i \in 1..Len(acks') : acks'[i].op # "stored" => trips'[acks'[i].trip] # NoDoc
  <2> SUFFICES ASSUME NEW i \in 1..Len(acks'), acks'[i].op # "stored"
               PROVE  trips'[acks'[i].trip] # NoDoc
    OBVIOUS
  <2>1. acks'[i] \in Completion /\ acks'[i].trip \in Trips
    BY <1>6, AckFields
  <2> QED
    BY <1>3, <1>4, <1>5, <1>6, <2>1 DEF NamesInv
<1>11. NamesInv'
  <2>1. ASSUME NEW b \in calls', b.op \in {"trip", "fetchTrip"}
        PROVE  trips'[b.trip] # NoDoc
    <3>1. b \in calls /\ b \in Call
      BY <1>7, <2>1 DEF TypeOK
    <3>2. b.trip \in Trips /\ trips[b.trip] # NoDoc
      BY <2>1, <3>1, CallFields DEF NamesInv
    <3> QED
      BY <1>4, <3>2
  <2> QED
    BY <1>3, <1>4, <1>7, <1>10, <2>1 DEF NamesInv
<1>12. CoverInv'
  BY <1>4, <1>7 DEF CoverInv, past
<1> QED
  BY <1>2, <1>7, <1>8, <1>9, <1>11, <1>12 DEF DeletionsAlone, past

LEMMA TripUpdatedBase == BaseInv /\ TripUpdated => BaseInv'
<1> SUFFICES ASSUME BaseInv, TripUpdated
             PROVE  BaseInv'
  OBVIOUS
<1> USE DEF BaseInv
<1>1. acks # <<>> /\ Head(acks).op = "updated"
  BY DEF TripUpdated, FirstAck
<1>2. /\ Head(acks) = acks[1] /\ 1 \in 1..Len(acks) /\ Head(acks) \in Completion
      /\ Tail(acks) \in Seq(Completion)
      /\ \A i \in 1..Len(Tail(acks)) : i + 1 \in 1..Len(acks) /\ Tail(acks)[i] = acks[i + 1]
  BY <1>1, AckTaken DEF TypeOK
<1>3. PICK t \in Trips : t = Head(acks).trip
  BY <1>1, <1>2, AckFields
<1>4. PICK l \in Seq(Entries) : l = Head(acks).ids
  BY <1>1, <1>2, AckFields
<1>5. trips[t] # NoDoc
  BY <1>1, <1>2, <1>3 DEF NamesInv
<1>6. docs' \in [Entries -> Entry \cup {NoDoc}]
  BY <1>3, <1>4, TripIDsWritten DEF TripUpdated
<1>7. ann' \in [Entries -> Entry]
  BY <1>3, ObjectsNamed DEF TripUpdated
<1>8. PICK a \in Completion : a.trip = t /\ acks' = Append(Tail(acks), a)
  BY <1>3, <1>4, AckMade DEF TripUpdated
<1>9. /\ acks' \in Seq(Completion)
      /\ \A i \in 1..Len(acks') : \/ i + 1 \in 1..Len(acks) /\ acks'[i] = acks[i + 1]
                                  \/ acks'[i] = a
  BY <1>2, <1>8, AckAppended
<1>10. PICK c \in Call : c = [op |-> "cover", trip |-> t] /\ calls' = calls \cup {c}
  BY <1>3, CallMade DEF TripUpdated
<1>11. vc' = [vc EXCEPT !.phase = "closed"] /\ saving' = FALSE
       /\ UNCHANGED <<trips, userTrips, myTrips, load, counts, past, used>>
  BY DEF TripUpdated
<1>12. vc' \in Editor /\ vc'.tripID = vc.tripID /\ vc'.phase = "closed"
  BY <1>11 DEF TypeOK, Editor
<1>13. TypeOK'
  BY <1>6, <1>7, <1>9, <1>10, <1>11, <1>12 DEF TypeOK, past
<1>14. ~Settled /\ ~Deleting /\ ~Deleting'
  BY <1>1, <1>10, AckAlone DEF Deleting
<1>15. NamesInv'
  <2>1. vc.tripID # NoTrip => trips[vc.tripID] # NoDoc
    BY <1>14, AtWork
  <2>2. \A i \in 1..Len(acks') : acks'[i].op # "stored" => trips[acks'[i].trip] # NoDoc
    BY <1>5, <1>8, <1>9 DEF NamesInv
  <2>3. \A b \in calls' : b.op \in {"trip", "fetchTrip"} => trips[b.trip] # NoDoc
    BY <1>10 DEF NamesInv
  <2> QED
    BY <1>11, <1>12, <2>1, <2>2, <2>3 DEF NamesInv
<1>16. CoverInv'
  BY <1>10, <1>11 DEF CoverInv, past
<1> QED
  BY <1>11, <1>13, <1>14, <1>15, <1>16 DEF DeletionsAlone, past

LEMMA TripIDsStoredBase == BaseInv /\ TripIDsStored => BaseInv'
<1> SUFFICES ASSUME BaseInv, TripIDsStored
             PROVE  BaseInv'
  OBVIOUS
<1> USE DEF BaseInv
<1>1. acks # <<>> /\ Head(acks).op = "tripIDs"
  BY DEF TripIDsStored, FirstAck
<1>2. /\ Head(acks) = acks[1] /\ 1 \in 1..Len(acks) /\ Head(acks) \in Completion
      /\ Tail(acks) \in Seq(Completion)
      /\ \A i \in 1..Len(Tail(acks)) : i + 1 \in 1..Len(acks) /\ Tail(acks)[i] = acks[i + 1]
  BY <1>1, AckTaken DEF TypeOK
<1>3. PICK t \in Trips : t = Head(acks).trip
  BY <1>1, <1>2, AckFields
<1>4. PICK l \in Seq(Entries) : l = Head(acks).ids
  BY <1>1, <1>2, AckFields
<1>5. trips[t] # NoDoc
  BY <1>1, <1>2, <1>3 DEF NamesInv
<1>6. docs' = OrdersIn(l)
  BY <1>4 DEF TripIDsStored, OrdersIn
<1>7. docs' \in [Entries -> Entry \cup {NoDoc}]
  BY <1>6, OrdersWritten
<1>8. PICK a \in Completion : a.trip = t /\ acks' = Append(Tail(acks), a)
  BY <1>3, AckMade DEF TripIDsStored
<1>9. /\ acks' \in Seq(Completion)
      /\ \A i \in 1..Len(acks') : \/ i + 1 \in 1..Len(acks) /\ acks'[i] = acks[i + 1]
                                  \/ acks'[i] = a
  BY <1>2, <1>8, AckAppended
<1>10. UNCHANGED <<trips, userTrips, myTrips, vc, ann, load, counts, calls, past, used, saving>>
  BY DEF TripIDsStored
<1>11. TypeOK'
  BY <1>7, <1>9, <1>10 DEF TypeOK, past
<1>12. ~Settled /\ ~Deleting /\ ~Deleting'
  BY <1>1, <1>10, AckAlone DEF Deleting
<1>13. NamesInv'
  BY <1>5, <1>8, <1>9, <1>10, <1>12 DEF NamesInv
<1>14. CoverInv'
  BY <1>10 DEF CoverInv, past
<1> QED
  BY <1>10, <1>11, <1>12, <1>13, <1>14 DEF DeletionsAlone, past

LEMMA OrdersStoredBase == BaseInv /\ OrdersStored => BaseInv'
<1> SUFFICES ASSUME BaseInv, OrdersStored
             PROVE  BaseInv'
  OBVIOUS
<1> USE DEF BaseInv
<1>1. acks # <<>> /\ Head(acks).op = "orders" /\ acks' = Tail(acks)
  BY DEF OrdersStored, FirstAck
<1>2. /\ Head(acks) = acks[1] /\ 1 \in 1..Len(acks) /\ Head(acks) \in Completion
      /\ acks' \in Seq(Completion)
      /\ \A i \in 1..Len(acks') : i + 1 \in 1..Len(acks) /\ acks'[i] = acks[i + 1]
  BY <1>1, AckTaken DEF TypeOK
<1>3. PICK t \in Trips : t = Head(acks).trip
  BY <1>1, <1>2, AckFields
<1>4. trips[t] # NoDoc
  BY <1>1, <1>2, <1>3 DEF NamesInv
<1>5. UNCHANGED <<store, myTrips, ann, load, counts, calls, past, used, saving>>
  BY DEF OrdersStored
<1>6. vc' \in Editor /\ vc'.phase = vc.phase /\ vc'.tripID \in {vc.tripID, t}
  BY <1>3 DEF OrdersStored, TypeOK, Editor
<1>7. TypeOK'
  BY <1>2, <1>5, <1>6 DEF TypeOK, past, store
<1>8. ~Settled /\ ~Deleting /\ ~Deleting'
  BY <1>1, <1>5, AckAlone DEF Deleting
<1>9. NamesInv'
  BY <1>2, <1>4, <1>5, <1>6, <1>8 DEF NamesInv, store
<1>10. CoverInv'
  BY <1>5 DEF CoverInv, past, store
<1> QED
  BY <1>5, <1>7, <1>8, <1>9, <1>10 DEF DeletionsAlone, past

TripsCovered(t) == IF trips[t] = NoDoc THEN trips ELSE [trips EXCEPT ![t].cover = TRUE]

LEMMA CoverWritten ==
  ASSUME TypeOK, NEW t \in Trips,
         NEW w, w = TripsCovered(t)
  PROVE  /\ w \in [Trips -> Trip \cup {NoDoc}]
         /\ trips[t] # NoDoc => w[t].cover
         /\ \A q \in Trips : q # t => w[q] = trips[q]
         /\ \A q \in Trips : /\ w[q] # NoDoc <=> trips[q] # NoDoc
                             /\ trips[q] # NoDoc => w[q].entries = trips[q].entries
<1>1. CASE trips[t] = NoDoc
  BY <1>1 DEF TypeOK, TripsCovered
<1>2. CASE trips[t] # NoDoc
  <2>1. PICK r \in Trip : r = trips[t]
    BY <1>2 DEF TypeOK
  <2>2. PICK x : x = [r EXCEPT !.cover = TRUE]
    OBVIOUS
  <2>3. x \in Trip /\ x.entries = r.entries /\ x.cover = TRUE /\ x # NoDoc
    BY <2>2, TripAssumption DEF Trip
  <2>4. w = [trips EXCEPT ![t].cover = TRUE]
    BY <1>2 DEF TripsCovered
  <2>5. w = [trips EXCEPT ![t] = x]
    BY <2>1, <2>2, <2>4, Zenon
  <2>6. trips \in [Trips -> Trip \cup {NoDoc}]
    BY DEF TypeOK
  <2>7. w[t] = x /\ \A q \in Trips : q # t => w[q] = trips[q]
    BY <2>5, <2>6
  <2>8. w[t].cover
    BY <2>3, <2>7, Zenon
  <2>9. w \in [Trips -> Trip \cup {NoDoc}]
    BY <2>3, <2>5, <2>6
  <2>10. \A q \in Trips : /\ w[q] # NoDoc <=> trips[q] # NoDoc
                          /\ trips[q] # NoDoc => w[q].entries = trips[q].entries
    BY <1>2, <2>1, <2>3, <2>7
  <2> QED
    BY <2>7, <2>8, <2>9, <2>10, Zenon
<1> QED
  BY <1>1, <1>2

LEMMA CoverUploadedBase == ASSUME BaseInv, NEW k \in calls, CoverUploaded(k) PROVE BaseInv'
<1> USE DEF BaseInv
<1>1. k \in Call /\ k.op = "cover" /\ k.trip \in Trips /\ k = [op |-> "cover", trip |-> k.trip]
  BY CallFields DEF CoverUploaded, TypeOK
<1>2. calls' = calls \ {k}
      /\ UNCHANGED <<docs, userTrips, myTrips, vc, ann, load, counts, acks, past, used, saving>>
  BY DEF CoverUploaded
<1>3. /\ trips' \in [Trips -> Trip \cup {NoDoc}]
      /\ trips[k.trip] # NoDoc => trips'[k.trip].cover
      /\ \A q \in Trips : q # k.trip => trips'[q] = trips[q]
      /\ \A q \in Trips : trips'[q] # NoDoc <=> trips[q] # NoDoc
  <2>1. trips' = TripsCovered(k.trip)
    BY DEF CoverUploaded, TripsCovered
  <2> QED
    BY <1>1, <2>1, CoverWritten
<1>4. TypeOK'
  BY <1>2, <1>3 DEF TypeOK, past
<1>5. ~Settled /\ ~Deleting /\ ~Deleting'
  BY <1>1, <1>2, CallAlone DEF Deleting
<1>6. NamesInv'
  <2>1. ASSUME NEW b \in calls', b.op \in {"trip", "fetchTrip"}
        PROVE  trips'[b.trip] # NoDoc
    <3>1. b \in calls /\ b \in Call
      BY <1>2, <2>1 DEF TypeOK
    <3>2. b.trip \in Trips /\ trips[b.trip] # NoDoc
      BY <2>1, <3>1, CallFields DEF NamesInv
    <3> QED
      BY <1>3, <3>2
  <2>2. ASSUME NEW i \in 1..Len(acks), acks[i].op # "stored"
        PROVE  trips'[acks[i].trip] # NoDoc
    <3>1. acks[i] \in Completion /\ acks[i].trip \in Trips
      BY <2>2, AckFields DEF TypeOK
    <3> QED
      BY <1>3, <2>2, <3>1 DEF NamesInv
  <2>3. vc.tripID # NoTrip => trips'[vc.tripID] # NoDoc
    BY <1>3, <1>5, AtWork
  <2> QED
    BY <1>2, <2>1, <2>2, <2>3 DEF NamesInv
<1>7. CoverInv'
  <2> SUFFICES ASSUME ~crashed, ~lost.cover, NEW t \in Trips, trips'[t] # NoDoc
               PROVE  trips'[t].cover \/ [op |-> "cover", trip |-> t] \in calls'
    BY <1>2 DEF CoverInv, past
  <2>1. CASE t = k.trip
    BY <1>3, <2>1
  <2>2. CASE t # k.trip
    <3>1. [op |-> "cover", trip |-> t] # k
      BY <1>1, <2>2
    <3> QED
      BY <1>2, <1>3, <2>2, <3>1 DEF CoverInv
  <2> QED
    BY <2>1, <2>2
<1> QED
  BY <1>2, <1>4, <1>5, <1>6, <1>7 DEF DeletionsAlone, past

\* A step of a deletion: only reads for deletions are left.
LEMMA DeletingOn ==
  ASSUME BaseInv, Deleting,
         NEW S, \A c \in S : c \in Call /\ c.op = "fetchEntry",
         NEW k \in calls, calls' = (calls \ {k}) \cup S,
         UNCHANGED <<vc, acks>>
  PROVE  /\ calls' \subseteq Call /\ DeletionsAlone' /\ acks' = <<>>
         /\ vc'.phase = "closed" /\ (Settled' \/ Deleting')
         /\ \A c \in calls' : c.op = "fetchTrip" => c \in calls \ {k}
<1>1. vc.phase = "closed" /\ acks = <<>> /\ \A c \in calls : c.op \in {"fetchTrip", "fetchEntry"}
  BY DEF BaseInv, DeletionsAlone
<1>2. calls \subseteq Call
  BY DEF BaseInv, TypeOK
<1>3. \A c \in calls' : c.op \in {"fetchTrip", "fetchEntry"}
  BY <1>1
<1>4. Settled' \/ Deleting'
  BY <1>1, <1>3 DEF Settled, Deleting
<1> QED
  BY <1>1, <1>2, <1>3, <1>4 DEF DeletionsAlone

LEMMA TripFetchedBase == ASSUME BaseInv, NEW k \in calls, TripFetched(k) PROVE BaseInv'
<1> USE DEF BaseInv
<1> DEFINE t == k.trip
           S == {[op |-> "fetchEntry", entry |-> e] : e \in EntriesOf(t)}
<1>1. k \in Call /\ k.op = "fetchTrip" /\ t \in Trips /\ k = [op |-> "fetchTrip", trip |-> t]
  BY CallFields DEF TripFetched, TypeOK
<1>2. trips[t] \in Trip
  BY <1>1 DEF NamesInv, TypeOK
<1>3. trips[t].entries \in Seq(Entries)
  BY <1>2 DEF Trip
<1>4. EntriesOf(t) \subseteq Entries
  BY <1>3, Members DEF EntriesOf
<1>5. \A c \in S : c \in Call /\ c.op = "fetchEntry"
  <2> SUFFICES ASSUME NEW c \in S
               PROVE  c \in Call /\ c.op = "fetchEntry"
    OBVIOUS
  <2>1. PICK e \in EntriesOf(t) : c = [op |-> "fetchEntry", entry |-> e]
    OBVIOUS
  <2> QED
    BY <1>4, <2>1, CallMade
<1>6. calls' = (calls \ {k}) \cup S /\ userTrips' = myTrips \ {t}
      /\ trips' = [trips EXCEPT ![t] = NoDoc]
      /\ UNCHANGED <<docs, myTrips, vc, ann, load, counts, acks, past, used, saving>>
  BY DEF TripFetched, TripsWithout
<1> HIDE DEF S
<1>7. Deleting
  BY <1>1 DEF Deleting
<1>8. /\ calls' \subseteq Call /\ DeletionsAlone' /\ acks' = <<>>
      /\ vc'.phase = "closed" /\ (Settled' \/ Deleting')
      /\ \A c \in calls' : c.op = "fetchTrip" => c \in calls \ {k}
  BY <1>5, <1>6, <1>7, DeletingOn
<1>9. TypeOK'
  BY <1>1, <1>6, <1>8 DEF TypeOK, past
<1>10. ~crashed /\ ~lost.cover => \A q \in Trips : trips[q] # NoDoc => trips[q].cover
  BY <1>7, <1>1 DEF CoverInv, DeletionsAlone
<1>11. NamesInv'
  <2>1. ASSUME NEW c \in calls', c.op \in {"trip", "fetchTrip"}
        PROVE  trips'[c.trip] # NoDoc
    <3>1. c.op = "fetchTrip" /\ c \in calls /\ c # k /\ c \in Call
      BY <1>5, <1>6, <1>7, <1>8, <2>1 DEF DeletionsAlone, TypeOK
    <3>2. c.trip \in Trips /\ c = [op |-> "fetchTrip", trip |-> c.trip]
      BY <3>1, CallFields
    <3>3. c.trip # t
      BY <1>1, <3>1, <3>2
    <3> QED
      BY <1>1, <1>6, <3>1, <3>2, <3>3 DEF NamesInv, TypeOK
  <2> QED
    BY <1>8, <2>1 DEF NamesInv
<1>12. CoverInv'
  BY <1>1, <1>6, <1>10 DEF CoverInv, past, TypeOK
<1> QED
  BY <1>6, <1>8, <1>9, <1>11, <1>12 DEF past

LEMMA EntryFetchedBase == ASSUME BaseInv, NEW k \in calls, EntryFetched(k) PROVE BaseInv'
<1> USE DEF BaseInv
<1>1. k \in Call /\ k.op = "fetchEntry" /\ k.entry \in Entries
  BY CallFields DEF EntryFetched, TypeOK
<1>2. docs' = [docs EXCEPT ![k.entry] = NoDoc] /\ calls' = (calls \ {k}) \cup {}
      /\ UNCHANGED <<trips, userTrips, myTrips, vc, ann, load, counts, acks, past, used, saving>>
  BY DEF EntryFetched
<1>3. Deleting
  BY <1>1 DEF Deleting
<1>4. /\ calls' \subseteq Call /\ DeletionsAlone' /\ acks' = <<>>
      /\ vc'.phase = "closed" /\ (Settled' \/ Deleting')
      /\ \A c \in calls' : c.op = "fetchTrip" => c \in calls \ {k}
  BY <1>2, <1>3, DeletingOn
<1>5. TypeOK'
  BY <1>1, <1>2, <1>4 DEF TypeOK, past
<1>6. NamesInv'
  BY <1>2, <1>4 DEF NamesInv
<1>7. CoverInv'
  BY <1>1, <1>2 DEF CoverInv, past
<1> QED
  BY <1>2, <1>4, <1>5, <1>6, <1>7 DEF past

LEMMA CallFailedBase == ASSUME BaseInv, NEW k \in calls, CallFailed(k) PROVE BaseInv'
<1> USE DEF BaseInv
<1>1. k \in Call
  BY DEF TypeOK
<1>2. /\ calls' = (calls \ {k}) \cup {} /\ failed' \in BOOLEAN
      /\ UNCHANGED <<store, myTrips, vc, ann, load, counts, acks, presses, hasty, crashed,
                     torn, used, saving>>
  BY DEF CallFailed, TypeOK
<1>3. lost' \in [save : BOOLEAN, cover : BOOLEAN, entries : SUBSET Entries]
  BY <1>1, CallFields DEF CallFailed, TypeOK
<1>4. lost'.cover = (lost.cover \/ k.op = "cover")
  BY DEF CallFailed
<1>5. TypeOK'
  BY <1>2, <1>3 DEF TypeOK, store
<1>6. CoverInv'
  <2>1. ASSUME ~lost'.cover, NEW t \in Trips
        PROVE  [op |-> "cover", trip |-> t] # k
    <3>1. k.op # "cover"
      BY <1>4, <2>1
    <3>2. [op |-> "cover", trip |-> t].op = "cover"
      OBVIOUS
    <3> QED
      BY <3>1, <3>2
  <2> QED
    BY <1>2, <1>4, <2>1 DEF CoverInv, store
<1>7. CASE Deleting
  <2>1. /\ calls' \subseteq Call /\ DeletionsAlone' /\ acks' = <<>>
        /\ vc'.phase = "closed" /\ (Settled' \/ Deleting')
        /\ \A c \in calls' : c.op = "fetchTrip" => c \in calls \ {k}
    BY <1>2, <1>7, DeletingOn
  <2>2. NamesInv'
    BY <1>2, <1>7, <2>1 DEF NamesInv, DeletionsAlone, store
  <2> QED
    BY <1>2, <1>5, <1>6, <2>1, <2>2
<1>8. CASE ~Deleting
  <2>1. ~Deleting' /\ ~Settled
    BY <1>2, <1>8 DEF Deleting, Settled
  <2>2. NamesInv'
    BY <1>2, <1>8, <2>1 DEF NamesInv, store
  <2> QED
    BY <1>2, <1>5, <1>6, <2>1, <2>2 DEF DeletionsAlone
<1> QED
  BY <1>7, <1>8

LEMMA BaseKeeps == BaseInv /\ [Next]_vars => BaseInv'
<1> SUFFICES ASSUME BaseInv, [Next]_vars
             PROVE  BaseInv'
  OBVIOUS
<1> USE EditorOnlyBase DEF BaseInv
<1>1. CASE UNCHANGED vars
  BY <1>1 DEF vars, store, past, TypeOK, DeletionsAlone, Deleting, NamesInv, CoverInv, Settled
<1>2. CASE NewEditor
  BY <1>2, NewEditorBase
<1>3. CASE FillIn
  BY <1>3, FillInEdits
<1>4. CASE Reorder
  BY <1>4, ReorderEdits
<1>5. CASE saveButtonPressed
  BY <1>5, SaveBase
<1>6. CASE AlertOk
  BY <1>6, AlertOkEdits
<1>7. CASE \E e \in Entries : addAnnotation(e) \/ deleteAnnotation(e)
  BY <1>7, AddEdits, DeleteEdits
<1>8. CASE \E t \in Trips : EditTrip(t) \/ deleteTrip(t)
  BY <1>8, EditTripBase, deleteTripBase
<1>9. CASE \E k \in calls : Callback(k)
  <2>1. PICK k \in calls : Callback(k)
    BY <1>9
  <2>2. CASE UserFetched(k)
    BY <2>2, UserFetchedEnds, NewTripBase, OldTripBase
  <2> QED
    BY <2>1, <2>2, TripLoadedBase, EntryLoadedBase, UploadedBase, CoverUploadedBase,
       TripFetchedBase, EntryFetchedBase DEF Callback
<1>10. CASE Ack
  BY <1>10, EntryStoredBase, TripUpdatedBase, TripIDsStoredBase, OrdersStoredBase DEF Ack
<1>11. CASE ListenerRefresh
  BY <1>11, ListenerRefreshBase
<1>12. CASE Failure
  BY <1>12, TerminatedBase, CallFailedBase DEF Failure, Killed, UploadFailed
<1> QED
  BY <1>1, <1>2, <1>3, <1>4, <1>5, <1>6, <1>7, <1>8, <1>9, <1>10, <1>11, <1>12
     DEF Next, User

-----------------------------------------------------------------------------
(* A user who waits: the editor.                                           *)

\* Nothing is under way.
Quiet == calls = {} /\ acks = <<>> /\ ~saving /\ ~Loading /\ ~Deleting

LEMMA QuietAtRest ==
  ASSUME BaseInv, CarefulInv, Settled
  PROVE  Quiet
<1>1. calls = {} /\ acks = <<>> /\ Len(acks) = 0
  BY DEF Settled
<1>2. ~Loading /\ ~Deleting
  BY <1>1 DEF Loading, Deleting
<1>3. ASSUME saving
      PROVE  FALSE
  <2>1. Uploads \/ Asking \/ Updating
    BY <1>3 DEF CarefulInv, SavingInv
  <2>2. ~Asking
    BY <1>1 DEF Asking
  <2>3. ~Updating
    BY <1>1 DEF Updating
  <2>4. ASSUME Uploads
        PROVE  FALSE
    <3>1. Uploading = {}
      BY <1>1 DEF Uploading
    <3>2. Cardinality(Uploading) = 0
      BY <3>1, FS_EmptySet
    <3>3. Named = 0
      BY <1>1 DEF Named
    <3>4. press \in Presses
      <4>1. presses \in Nat /\ presses <= MaxPresses /\ presses > 0
        BY <1>3, TripAssumption DEF CarefulInv, SavingInv, BaseInv, TypeOK, Presses
      <4> QED
        BY <4>1, TripAssumption DEF Presses, press
    <3>5. counts[press] \in Nat
      BY <3>4 DEF BaseInv, TypeOK
    <3> QED
      BY <1>1, <2>4, <3>2, <3>3, <3>5 DEF Uploads
  <2> QED
    BY <2>1, <2>2, <2>3, <2>4
<1> QED
  BY <1>1, <1>2, <1>3 DEF Quiet

LEMMA QuietPress ==
  ASSUME BaseInv, Patient => CarefulInv, Press, Patient'
  PROVE  CarefulInv /\ Quiet /\ presses \in Nat /\ presses' = presses + 1
         /\ UNCHANGED <<failed, crashed, torn, lost>>
BY Pressed, QuietAtRest DEF BaseInv, Patient

LEMMA QuietNumbered ==
  ASSUME Quiet, NumberedInv, ~crashed, NEW t \in Trips, trips[t] # NoDoc
  PROVE  Numbered(t)
<1>1. ~Naming1(t)
  BY DEF Quiet, Naming1
<1> QED
  BY <1>1 DEF Quiet, NumberedInv

LEMMA QuietStored ==
  ASSUME Quiet, WholeInv, ~failed, ~torn, NEW t \in Trips, NEW e \in Entries, Lists(t, e)
  PROVE  Stored(e)
BY DEF Quiet, WholeInv

\* A later press starts a count of its own.
LEMMA CountsLater ==
  ASSUME UsedInv, BaseInv, presses' = presses + 1, UNCHANGED counts
  PROVE  \A s \in Presses : s >= presses' => counts'[s] = 0
<1>1. presses \in Nat /\ Presses \subseteq Nat
  BY TripAssumption DEF BaseInv, TypeOK, Presses
<1> QED
  BY <1>1 DEF UsedInv

LEMMA EmptyList ==
  ToSet(<<>>) = {} /\ Injective(<<>>)
BY DEF ToSet, Injective

\* An editor opens, empty.
Opened ==
  /\ vc'.phase = "open" /\ vc'.list = <<>> /\ vc'.map = {} /\ vc'.deleted = {}
  /\ vc'.tripID = NoTrip \/ Loading'
  /\ \A k \in calls' : k.op = "trip"
  /\ UNCHANGED <<store, ann, counts, acks, used, saving, failed, crashed, torn, lost>>
  /\ presses' = presses + 1

LEMMA OpenedKeeps ==
  ASSUME BaseInv, CarefulInv, Quiet, Opened
  PROVE  /\ UsedInv' /\ ListsInv' /\ OwnersInv' /\ DeletedInv' /\ SavingInv'
         /\ NumberedInv' /\ WholeInv' /\ GoneInv'
<1> USE DEF CarefulInv
<1>1. Handled' = {} /\ ToSet(vc'.list) = {} /\ Injective(vc'.list)
  BY EmptyList DEF Opened, Handled
<1>2. UsedInv'
  BY <1>1, CountsLater DEF Opened, UsedInv, Lists, Stored, store
<1>3. ListsInv'
  BY <1>1 DEF Opened, ListsInv, Lists, store
<1>4. OwnersInv'
  BY <1>1 DEF Opened, OwnersInv, Lists, Stored, store
<1>5. DeletedInv'
  BY <1>1 DEF Opened, DeletedInv, Quiet
<1>6. SavingInv'
  BY DEF Opened, SavingInv, Quiet
<1>7. NumberedInv'
  <2> SUFFICES ASSUME ~crashed, NEW t \in Trips, trips[t] # NoDoc
               PROVE  Numbered(t)'
    BY DEF NumberedInv, Opened, store
  <2>1. Numbered(t)
    BY QuietNumbered
  <2> QED
    BY <2>1 DEF Numbered, Opened, store
<1>8. WholeInv'
  <2>1. ASSUME ~failed, ~torn, NEW t \in Trips, NEW e \in Entries, Lists(t, e)'
        PROVE  Stored(e)'
    <3>1. Lists(t, e)
      BY <2>1 DEF Lists, Opened, store
    <3>2. Stored(e)
      BY <2>1, <3>1, QuietStored
    <3> QED
      BY <3>2 DEF Stored, Opened, store
  <2>2. ASSUME ~failed, ~torn, NEW t \in Trips, NEW e \in Entries,
               trips[t] # NoDoc, Stored(e), docs[e].tripID = t
        PROVE  Lists(t, e)
    BY <2>2 DEF WholeInv
  <2> QED
    BY <1>1, <2>1, <2>2 DEF WholeInv, Opened, Lists, Stored, store
<1>9. GoneInv'
  BY DEF GoneInv, Quiet, Opened, Stored, store
<1> QED
  BY <1>2, <1>3, <1>4, <1>5, <1>6, <1>7, <1>8, <1>9

LEMMA NewEditorKeeps ==
  ASSUME BaseInv, Patient => CarefulInv, NewEditor, Patient'
  PROVE  CarefulInv'
<1>1. CarefulInv /\ Quiet /\ presses' = presses + 1 /\ UNCHANGED <<failed, crashed, torn, lost>>
  BY QuietPress DEF NewEditor
<1>2. /\ vc' = [Closed EXCEPT !.phase = "open"] /\ calls' = {} /\ acks' = <<>> /\ ~saving'
      /\ UNCHANGED <<store, ann, counts, acks, used, saving>>
  BY <1>1 DEF NewEditor, Quiet
<1>3. /\ vc'.phase = "open" /\ vc'.list = <<>> /\ vc'.map = {} /\ vc'.deleted = {}
      /\ vc'.tripID = NoTrip
  BY <1>2 DEF Closed
<1>4. Opened
  BY <1>1, <1>2, <1>3 DEF Opened
<1>5. LoadingInv' /\ LoadedInv' /\ RestInv'
  BY <1>2 DEF LoadingInv, LoadedInv, RestInv, Loading, Settled
<1> QED
  BY <1>1, <1>4, <1>5, OpenedKeeps DEF CarefulInv

LEMMA EditTripKeeps ==
  ASSUME BaseInv, Patient => CarefulInv, NEW t \in Trips, EditTrip(t), Patient'
  PROVE  CarefulInv'
<1>1. CarefulInv /\ Quiet /\ presses' = presses + 1 /\ UNCHANGED <<failed, crashed, torn, lost>>
  BY QuietPress DEF EditTrip
<1>2. PICK k : k = [op |-> "trip", trip |-> t]
  OBVIOUS
<1>3. /\ vc' = [Closed EXCEPT !.phase = "open", !.tripID = t] /\ acks' = <<>> /\ ~saving'
      /\ calls' = {k} /\ load' = NotLoading
      /\ UNCHANGED <<store, ann, counts, acks, used, saving>>
  BY <1>1, <1>2 DEF EditTrip, Quiet
<1>4. /\ vc'.phase = "open" /\ vc'.list = <<>> /\ vc'.map = {} /\ vc'.deleted = {}
      /\ vc'.tripID = t /\ t # NoTrip
  BY <1>3, TripAssumption DEF Closed
<1>5. Loading'
  BY <1>2, <1>3 DEF Loading
<1>6. Opened
  BY <1>1, <1>2, <1>3, <1>4, <1>5 DEF Opened
<1>7. LoadingInv'
  BY <1>2, <1>3, <1>4 DEF LoadingInv, NotLoading
<1>8. LoadedInv' /\ RestInv'
  BY <1>3, <1>5 DEF LoadedInv, RestInv, NotLoading
<1> QED
  BY <1>1, <1>6, <1>7, <1>8, OpenedKeeps DEF CarefulInv

LEMMA deleteTripKeeps ==
  ASSUME BaseInv, Patient => CarefulInv, NEW t \in Trips, deleteTrip(t), Patient'
  PROVE  CarefulInv'
<1>1. CarefulInv /\ Quiet /\ presses' = presses + 1 /\ UNCHANGED <<failed, crashed, torn, lost>>
  BY QuietPress DEF deleteTrip
<1> USE DEF CarefulInv
<1>2. /\ calls' = {[op |-> "fetchTrip", trip |-> t]} /\ vc.phase = "closed"
      /\ UNCHANGED <<store, myTrips, vc, ann, load, counts, acks, used, saving>>
  BY <1>1 DEF deleteTrip, Quiet
<1>3. Deleting' /\ ~Loading'
  BY <1>2 DEF Deleting, Loading
<1>4. UsedInv'
  BY <1>1, <1>2, CountsLater DEF UsedInv, Lists, Stored, store, Handled
<1>5. ListsInv' /\ OwnersInv' /\ DeletedInv'
  <2>1. Handled' = Handled /\ UNCHANGED <<trips, docs>>
    BY <1>2 DEF Handled, store
  <2>2. ListsInv'
    BY <1>1, <1>2, <2>1 DEF ListsInv, Lists
  <2>3. OwnersInv'
    BY <1>1, <1>2, <2>1 DEF OwnersInv, Lists, Stored
  <2>4. DeletedInv'
    BY <1>1, <1>2, <2>1 DEF DeletedInv, Stored
  <2> QED
    BY <2>2, <2>3, <2>4
<1>6. LoadingInv' /\ LoadedInv' /\ RestInv' /\ SavingInv'
  BY <1>1, <1>2, <1>3 DEF LoadingInv, LoadedInv, RestInv, SavingInv, Quiet
<1>7. NumberedInv'
  <2> SUFFICES ASSUME ~crashed, NEW q \in Trips, trips[q] # NoDoc
               PROVE  Numbered(q)'
    BY <1>1, <1>2 DEF NumberedInv, store
  <2>1. Numbered(q)
    BY <1>1, QuietNumbered
  <2> QED
    BY <1>2, <2>1 DEF Numbered, store
<1>8. WholeInv'
  <2>1. ASSUME ~failed, ~torn, NEW q \in Trips, NEW e \in Entries, Lists(q, e)'
        PROVE  Stored(e)'
    <3>1. Lists(q, e)
      BY <1>2, <2>1 DEF Lists, store
    <3>2. Stored(e)
      BY <1>1, <2>1, <3>1, QuietStored
    <3> QED
      BY <1>2, <3>2 DEF Stored, store
  <2> QED
    BY <1>1, <1>2, <2>1 DEF WholeInv, Lists, Stored, store, Quiet
<1>9. GoneInv'
  BY <1>1, <1>2 DEF GoneInv, Quiet, Stored, store
<1> QED
  BY <1>4, <1>5, <1>6, <1>7, <1>8, <1>9

\* A quiet editor changes what it has in its hands.
Edited ==
  /\ Quiet /\ vc.phase = "open" /\ vc'.phase = "open" /\ vc'.tripID = vc.tripID
  /\ UNCHANGED <<store, counts, calls, acks, saving, failed, crashed, torn, lost>>
  /\ presses' = presses + 1
  /\ Injective(vc'.list) /\ used \subseteq used'
  /\ \A e \in Handled' : e \in used' /\ (e \in Handled \/ e \notin used)
  /\ vc'.deleted \cap ToSet(vc'.list) = {}
  /\ \A e \in ToSet(vc'.list) \cup vc'.map :
       \/ e \in ToSet(vc.list) \cup vc.map /\ ann'[e] = ann[e]
       \/ e \notin used /\ ann'[e].tripID = NoTrip
  /\ vc.map = ToSet(vc.list) => vc'.map = ToSet(vc'.list)
  /\ ToSet(vc.list) \cup vc.deleted \subseteq ToSet(vc'.list) \cup vc'.deleted

LEMMA ListedIsEntry ==
  ASSUME TypeOK, NEW t \in Trips, NEW e, Lists(t, e)
  PROVE  e \in Entries /\ trips[t] \in Trip /\ trips[t].entries \in Seq(Entries)
<1>1. trips[t] \in Trip
  BY DEF TypeOK, Lists
<1>2. trips[t].entries \in Seq(Entries)
  BY <1>1 DEF Trip
<1> QED
  BY <1>1, <1>2, Members DEF Lists

LEMMA HandledEntries ==
  ASSUME TypeOK
  PROVE  Handled \subseteq Entries
BY EditorFields, Members DEF Handled

LEMMA HandledEntriesNext == (TypeOK => Handled \subseteq Entries)'
<1>1. TypeOK => Handled \subseteq Entries
  BY HandledEntries
<1> QED
  BY <1>1, PTL

LEMMA EditedKeeps ==
  ASSUME BaseInv, CarefulInv, TypeOK', Edited
  PROVE  CarefulInv'
<1> USE DEF CarefulInv
<1>1. ~Loading' /\ ~Deleting' /\ Quiet /\ UNCHANGED <<trips, docs>>
  BY DEF Edited, Quiet, Loading, Deleting, store
<1>2. UsedInv'
  <2>1. \A s \in Presses : s >= presses' => counts'[s] = 0
    BY CountsLater DEF Edited
  <2>2. Handled' \subseteq used'
    BY DEF Edited
  <2>3. \A e \in Entries : Stored(e)' => e \in used' /\ docs'[e].tripID \in used' \cup {NoTrip}
    BY <1>1 DEF Edited, UsedInv, Stored
  <2>4. \A t \in Trips : trips'[t] # NoDoc => t \in used'
    BY <1>1 DEF Edited, UsedInv
  <2>5. \A t \in Trips, e \in Entries : Lists(t, e)' => e \in used'
    BY <1>1 DEF Edited, UsedInv, Lists
  <2> QED
    BY <2>1, <2>2, <2>3, <2>4, <2>5 DEF UsedInv
<1>4. ListsInv'
  <2>1. ASSUME NEW t \in Trips, NEW e \in Handled', Lists(t, e)'
        PROVE  t = vc.tripID
    <3>1. Lists(t, e)
      BY <1>1, <2>1 DEF Lists
    <3>2. e \in Entries
      BY <1>1, <2>1, <3>1, ListedIsEntry DEF BaseInv
    <3>3. e \in used
      BY <3>1, <3>2 DEF UsedInv
    <3>4. e \in Handled
      BY <3>3 DEF Edited
    <3> QED
      BY <3>1, <3>4 DEF ListsInv, Edited
  <2> QED
    BY <1>1, <2>1 DEF ListsInv, Edited, Lists, Quiet
<1>5. OwnersInv'
  <2>1. ASSUME NEW e \in ToSet(vc'.list) \cup vc'.map, e \in Entries
        PROVE  /\ ann'[e].tripID \in {NoTrip, vc.tripID}
               /\ Stored(e) => docs[e].tripID \in {NoTrip, vc.tripID}
    <3>1. CASE e \in ToSet(vc.list) \cup vc.map /\ ann'[e] = ann[e]
      BY <3>1 DEF OwnersInv, Edited
    <3>2. CASE e \notin used /\ ann'[e].tripID = NoTrip
      BY <2>1, <3>2 DEF UsedInv
    <3> QED
      BY <2>1, <3>1, <3>2 DEF Edited
  <2>2. ToSet(vc'.list) \cup vc'.map \subseteq Entries
    BY HandledEntriesNext DEF Handled
  <2>3. \A t \in Trips, e \in Entries :
          Lists(t, e)' /\ Stored(e)' => docs'[e].tripID \in {NoTrip, t}
    BY <1>1 DEF OwnersInv, Lists, Stored
  <2> QED
    BY <1>1, <2>1, <2>2, <2>3 DEF OwnersInv, Edited, Stored
<1>6. DeletedInv' /\ LoadingInv' /\ LoadedInv' /\ SavingInv'
  BY <1>1 DEF Edited, DeletedInv, LoadingInv, LoadedInv, SavingInv, Quiet
<1>7. RestInv'
  BY <1>1 DEF Edited, RestInv, Quiet, Settled
<1>8. NumberedInv'
  <2> SUFFICES ASSUME ~crashed, NEW t \in Trips, trips[t] # NoDoc
               PROVE  Numbered(t)'
    BY <1>1 DEF NumberedInv, Edited
  <2>1. Numbered(t)
    BY <1>1, QuietNumbered
  <2> QED
    BY <1>1, <2>1 DEF Numbered
<1>9. WholeInv'
  <2> SUFFICES ASSUME ~failed, ~torn
               PROVE  WholeInv'
    BY DEF WholeInv, Edited
  <2>1. ASSUME NEW t \in Trips, NEW e \in Entries, Lists(t, e)'
        PROVE  Stored(e)'
    <3>1. Lists(t, e)
      BY <1>1, <2>1 DEF Lists
    <3> QED
      BY <1>1, <3>1, QuietStored DEF Stored
  <2>2. \A t \in Trips, e \in Entries :
          trips'[t] # NoDoc /\ Stored(e)' /\ docs'[e].tripID = t => Lists(t, e)'
    BY <1>1 DEF WholeInv, Lists, Stored
  <2>3. vc'.map = ToSet(vc'.list)
    BY <1>1 DEF WholeInv, Edited, Quiet
  <2>4. vc'.tripID # NoTrip =>
          ToSet(trips'[vc'.tripID].entries) \subseteq ToSet(vc'.list) \cup vc'.deleted
    BY <1>1 DEF WholeInv, Edited, Quiet
  <2> QED
    BY <2>1, <2>2, <2>3, <2>4 DEF WholeInv
<1>10. GoneInv'
  BY <1>1 DEF GoneInv, Edited, Stored
<1> QED
  BY <1>2, <1>4, <1>5, <1>6, <1>7, <1>8, <1>9, <1>10

LEMMA AddEdited ==
  ASSUME BaseInv, CarefulInv, Quiet, NEW e \in Entries, addAnnotation(e),
         presses' = presses + 1, UNCHANGED <<failed, crashed, torn, lost>>
  PROVE  Edited
<1> USE DEF CarefulInv
<1>1. vc.phase = "open" /\ e \notin used /\ used' = used \cup {e}
  BY DEF addAnnotation
<1>2. /\ ann' = [ann EXCEPT ![e] = [tripID |-> NoTrip, order |-> Len(vc.list)]]
      /\ vc' = [vc EXCEPT !.map = @ \cup {e}, !.list = Append(@, e)]
      /\ UNCHANGED <<store, counts, calls, acks, saving>>
  BY DEF addAnnotation
<1>3. vc.list \in Seq(Entries) /\ vc.map \in SUBSET Entries /\ vc.deleted \in SUBSET Entries
  BY EditorFields DEF BaseInv
<1>4. /\ vc'.phase = "open" /\ vc'.tripID = vc.tripID /\ vc'.map = vc.map \cup {e}
      /\ vc'.list = Append(vc.list, e) /\ vc'.deleted = vc.deleted
  BY <1>1, <1>2 DEF BaseInv, TypeOK, Editor
<1>5. Handled \subseteq used
  BY <1>1 DEF UsedInv
<1>6. e \notin Handled
  BY <1>1, <1>5
<1>7. ToSet(vc'.list) = ToSet(vc.list) \cup {e} /\ Injective(vc'.list)
  BY <1>3, <1>4, <1>6, Appended DEF Handled, ListsInv
<1>8. Handled' = Handled \cup {e}
  BY <1>4, <1>7 DEF Handled
<1>9. \A x \in Entries : x # e => ann'[x] = ann[x]
  BY <1>2 DEF BaseInv, TypeOK
<1>10. ann'[e].tripID = NoTrip
  BY <1>2 DEF BaseInv, TypeOK
<1>11. ToSet(vc.list) \subseteq Entries
  BY <1>3, Members
<1>12. vc'.deleted \cap ToSet(vc'.list) = {}
  BY <1>1, <1>4, <1>6, <1>7 DEF Handled, DeletedInv
<1>13. \A x \in ToSet(vc'.list) \cup vc'.map :
         \/ x \in ToSet(vc.list) \cup vc.map /\ ann'[x] = ann[x]
         \/ x \notin used /\ ann'[x].tripID = NoTrip
  BY <1>1, <1>3, <1>4, <1>7, <1>9, <1>10, <1>11
<1> QED
  BY <1>1, <1>2, <1>4, <1>5, <1>7, <1>8, <1>12, <1>13 DEF Edited

LEMMA DeleteEdited ==
  ASSUME BaseInv, CarefulInv, Quiet, NEW e \in Entries, deleteAnnotation(e),
         presses' = presses + 1, UNCHANGED <<failed, crashed, torn, lost>>
  PROVE  Edited
<1> USE DEF CarefulInv
<1>1. /\ vc.phase = "open" /\ e \in vc.map
      /\ UNCHANGED <<store, ann, counts, calls, acks, used, saving>>
  BY DEF deleteAnnotation
<1>2. vc.list \in Seq(Entries) /\ vc.map \in SUBSET Entries /\ vc.deleted \in SUBSET Entries
  BY EditorFields DEF BaseInv
<1>3. /\ vc'.phase = "open" /\ vc'.tripID = vc.tripID /\ vc'.map = vc.map \ {e}
      /\ Injective(vc'.list) /\ ToSet(vc'.list) = ToSet(vc.list) \ {e}
      /\ vc'.deleted = IF e \in ToSet(vc.list) THEN vc.deleted \cup {e} ELSE vc.deleted
  <2>1. CASE e \in ToSet(vc.list)
    <3>1. PICK l \in Seq(Entries) : l = vc.list
      BY <1>2
    <3>2. PICK r : r = RemoveAt(l, SelectInSeq(l, LAMBDA x : x = e))
      OBVIOUS
    <3>3. r \in Seq(Entries) /\ ToSet(r) = ToSet(l) \ {e} /\ Injective(r)
      BY <2>1, <3>1, <3>2, Deleted DEF ListsInv
    <3>4. vc' = [vc EXCEPT !.map = @ \ {e}, !.deleted = @ \cup {e}, !.list = r]
      BY <2>1, <3>1, <3>2 DEF deleteAnnotation
    <3>5. /\ vc'.phase = "open" /\ vc'.tripID = vc.tripID /\ vc'.map = vc.map \ {e}
          /\ vc'.list = r /\ vc'.deleted = vc.deleted \cup {e}
      BY <1>1, <3>4 DEF BaseInv, TypeOK, Editor
    <3> QED
      BY <2>1, <3>1, <3>3, <3>5
  <2>2. CASE e \notin ToSet(vc.list)
    <3>1. vc' = [vc EXCEPT !.map = @ \ {e}]
      BY <2>2 DEF deleteAnnotation
    <3>2. /\ vc'.phase = "open" /\ vc'.tripID = vc.tripID /\ vc'.map = vc.map \ {e}
          /\ vc'.list = vc.list /\ vc'.deleted = vc.deleted
      BY <1>1, <3>1 DEF BaseInv, TypeOK, Editor
    <3> QED
      BY <2>2, <3>2 DEF ListsInv
  <2> QED
    BY <2>1, <2>2
<1>4. Handled' \subseteq Handled /\ Handled \subseteq used
  BY <1>1, <1>3 DEF Handled, UsedInv
<1>5. vc'.deleted \cap ToSet(vc'.list) = {}
  BY <1>1, <1>3 DEF DeletedInv
<1>6. ToSet(vc.list) \cup vc.deleted \subseteq ToSet(vc'.list) \cup vc'.deleted
  BY <1>3
<1>7. vc.map = ToSet(vc.list) => vc'.map = ToSet(vc'.list)
  BY <1>3
<1>8. \A x \in ToSet(vc'.list) \cup vc'.map : x \in ToSet(vc.list) \cup vc.map /\ ann'[x] = ann[x]
  BY <1>1, <1>3
<1> QED
  BY <1>1, <1>3, <1>4, <1>5, <1>6, <1>7, <1>8 DEF Edited

LEMMA ReorderEdited ==
  ASSUME BaseInv, CarefulInv, Quiet, Reorder,
         presses' = presses + 1, UNCHANGED <<failed, crashed, torn, lost>>
  PROVE  Edited
<1> USE DEF CarefulInv
<1>1. /\ vc.phase = "open"
      /\ UNCHANGED <<store, ann, counts, calls, acks, used, saving>>
  BY DEF Reorder
<1>2. vc.list \in Seq(Entries)
  BY EditorFields DEF BaseInv
<1>3. PICK i, j \in DOMAIN vc.list : vc' = [vc EXCEPT !.list = InsertAt(RemoveAt(@, i), j, @[i])]
  BY DEF Reorder
<1>4. PICK r : r = InsertAt(RemoveAt(vc.list, i), j, vc.list[i])
  OBVIOUS
<1>5. r \in Seq(Entries) /\ ToSet(r) = ToSet(vc.list) /\ Injective(r)
  BY <1>2, <1>4, Moved DEF ListsInv
<1>6. /\ vc'.phase = "open" /\ vc'.tripID = vc.tripID /\ vc'.map = vc.map
      /\ vc'.list = r /\ vc'.deleted = vc.deleted
  BY <1>1, <1>3, <1>4 DEF BaseInv, TypeOK, Editor
<1>7. Handled' = Handled /\ Handled \subseteq used
  BY <1>1, <1>5, <1>6 DEF Handled, UsedInv
<1>8. vc'.deleted \cap ToSet(vc'.list) = {}
  BY <1>1, <1>5, <1>6 DEF DeletedInv
<1> QED
  BY <1>1, <1>5, <1>6, <1>7, <1>8 DEF Edited

\* Nothing changes but the page.
PageOnly ==
  /\ vc'.tripID = vc.tripID /\ vc'.list = vc.list /\ vc'.map = vc.map
  /\ vc'.deleted = vc.deleted
  /\ vc'.phase = vc.phase \/ (vc.phase = "alert" /\ vc'.phase = "closed")
  /\ UNCHANGED <<trips, docs, ann, load, counts, calls, acks, past, used, saving>>

LEMMA PageOnlyKeeps ==
  ASSUME BaseInv, CarefulInv, PageOnly
  PROVE  CarefulInv'
<1> USE DEF CarefulInv
<1>1. /\ Handled' = Handled /\ (Loading' <=> Loading) /\ (Deleting' <=> Deleting)
      /\ Uploading' = Uploading /\ UserCall' = UserCall /\ UpdatedAck' = UpdatedAck
      /\ Named' = Named /\ press' = press /\ (vc'.phase = "open" <=> vc.phase = "open")
      /\ (Settled' <=> Settled)
  BY DEF PageOnly, Handled, Loading, Deleting, Uploading, UploadOf, UserCall, UpdatedAck, Named,
         press, past, Settled
<1>2. /\ UNCHANGED <<trips, docs, ann, load, counts, calls, acks, presses, failed, crashed, torn, lost>>
      /\ UNCHANGED <<used, saving>>
  BY DEF PageOnly, past
<1>3. UsedInv'
  BY <1>1, <1>2 DEF UsedInv, Lists, Stored
<1>4. ListsInv'
  BY <1>1, <1>2 DEF PageOnly, ListsInv, Lists
<1>5. OwnersInv'
  BY <1>1, <1>2 DEF PageOnly, OwnersInv, Lists, Stored
<1>6. DeletedInv'
  BY <1>1, <1>2 DEF PageOnly, DeletedInv, Stored
<1>7. LoadingInv'
  BY <1>1, <1>2 DEF PageOnly, LoadingInv
<1>8. LoadedInv' /\ RestInv' /\ GoneInv'
  BY <1>1, <1>2 DEF LoadedInv, RestInv, GoneInv, Stored
<1>9. SavingInv'
  <2>1. (Uploads' <=> Uploads) /\ (Asking' <=> Asking) /\ (Updating' <=> Updating)
    BY <1>1, <1>2 DEF PageOnly, Uploads, Asking, Updating
  <2> QED
    BY <1>1, <1>2, <2>1 DEF PageOnly, SavingInv, Stored, UploadOf
<1>10. NumberedInv'
  BY <1>2 DEF PageOnly, NumberedInv, Numbered, Naming1
<1>11. WholeInv'
  BY <1>1, <1>2 DEF PageOnly, WholeInv, Lists, Stored
<1> QED
  BY <1>3, <1>4, <1>5, <1>6, <1>7, <1>8, <1>9, <1>10, <1>11

LEMMA FillInKeeps == ASSUME BaseInv, CarefulInv, FillIn PROVE CarefulInv'
<1>1. PageOnly
  BY DEF FillIn, PageOnly, store, BaseInv, TypeOK, Editor
<1> QED
  BY <1>1, PageOnlyKeeps

LEMMA AlertOkKeeps == ASSUME BaseInv, CarefulInv, AlertOk PROVE CarefulInv'
<1>1. PageOnly
  BY DEF AlertOk, PageOnly, store, BaseInv, TypeOK, Editor
<1> QED
  BY <1>1, PageOnlyKeeps

LEMMA ListenerKeeps == ASSUME BaseInv, CarefulInv, ListenerRefresh PROVE CarefulInv'
<1>1. PageOnly
  BY DEF ListenerRefresh, PageOnly, store
<1> QED
  BY <1>1, PageOnlyKeeps

LEMMA TerminatedKeeps == ASSUME BaseInv, CarefulInv, Terminated PROVE CarefulInv'
<1> USE DEF CarefulInv
<1>1. /\ vc' = Closed /\ load' = NotLoading /\ calls' = {} /\ acks' = <<>>
      /\ ~saving' /\ crashed'
      /\ torn' = (torn \/ \E t \in Trips, e \in Entries : Lists(t, e) /\ ~Stored(e))
      /\ UNCHANGED <<trips, docs, ann, counts, presses, failed, lost, used>>
  BY DEF Terminated, store
<1>2. /\ vc'.phase = "closed" /\ vc'.list = <<>> /\ vc'.map = {} /\ vc'.deleted = {}
  BY <1>1, ClosedEditor
<1>3. ~Loading' /\ ~Deleting' /\ Settled'
  BY <1>1 DEF Loading, Deleting, Settled
<1>4. UsedInv' /\ OwnersInv' /\ DeletedInv' /\ LoadingInv' /\ LoadedInv' /\ SavingInv'
      /\ NumberedInv' /\ GoneInv'
  BY <1>1, <1>2, <1>3 DEF UsedInv, OwnersInv, DeletedInv, LoadingInv, LoadedInv, SavingInv,
                          NumberedInv, GoneInv, Lists, Stored
<1>5. ListsInv'
  BY <1>1, <1>2, EmptyList DEF ListsInv, Lists
<1>6. RestInv'
  BY <1>1, <1>2, <1>3 DEF RestInv
<1>7. WholeInv'
  BY <1>1, <1>2, <1>3, EmptyList DEF WholeInv, Lists, Stored
<1> QED
  BY <1>4, <1>5, <1>6, <1>7

-----------------------------------------------------------------------------
(* Loading a trip.                                                         *)

\* While an editor loads, its answers change what it loads and nothing else.
LoadStep ==
  /\ Loading /\ UNCHANGED <<trips, docs, counts, acks, presses, used, saving, crashed, torn, lost>>
  /\ vc'.phase = vc.phase /\ vc'.tripID = vc.tripID /\ vc'.deleted = vc.deleted
  /\ \A c \in calls' : c.op = "entry"
  /\ Injective(vc'.list)
  /\ \A e \in ToSet(vc'.list) \cup vc'.map :
       \/ e \in vc.map /\ ann'[e] = ann[e]
       \/ Lists(vc.tripID, e) /\ Stored(e) /\ ann'[e] = docs[e]

LEMMA LoadStepKeeps ==
  ASSUME BaseInv, CarefulInv, LoadStep, TypeOK'
  PROVE  /\ UsedInv' /\ ListsInv' /\ OwnersInv' /\ DeletedInv' /\ SavingInv'
         /\ NumberedInv' /\ RestInv'
         /\ (calls' # {} => Loading') /\ (calls' = {} => ~Loading')
         /\ Handled \subseteq vc.map
<1> USE DEF CarefulInv
<1>1. /\ vc.phase = "open" /\ ~saving /\ acks = <<>> /\ vc.tripID # NoTrip
      /\ vc.list = <<>> /\ vc.deleted = {}
  BY DEF LoadStep, LoadingInv
<1>2. vc.tripID \in Trips /\ trips[vc.tripID] # NoDoc
  BY <1>1, EditorFields DEF BaseInv, NamesInv
<1>3. Handled = vc.map
  BY <1>1, EmptyList DEF Handled
<1>4. /\ UNCHANGED <<trips, docs, counts, acks, presses, used, saving, crashed>>
      /\ vc'.phase = "open" /\ vc'.tripID = vc.tripID /\ vc'.deleted = {}
      /\ Handled' = ToSet(vc'.list) \cup vc'.map
  BY <1>1 DEF LoadStep, Handled
<1>5. Handled' \subseteq Entries
  BY HandledEntriesNext
<1>6. ASSUME NEW e \in Handled'
      PROVE  e \in used
  BY <1>1, <1>2, <1>3, <1>4, <1>5, <1>6 DEF LoadStep, UsedInv
<1>7. UsedInv'
  BY <1>4, <1>6 DEF UsedInv, Lists, Stored
<1>8. ListsInv'
  <2>1. ASSUME NEW t \in Trips, NEW e \in Handled', Lists(t, e)
        PROVE  t = vc.tripID
    <3>1. CASE e \in vc.map
      BY <1>1, <1>3, <2>1, <3>1 DEF ListsInv
    <3>2. CASE Lists(vc.tripID, e)
      BY <1>2, <1>5, <2>1, <3>2 DEF ListsInv
    <3> QED
      BY <1>4, <2>1, <3>1, <3>2 DEF LoadStep
  <2> QED
    BY <1>4, <2>1 DEF ListsInv, LoadStep, Lists
<1>9. OwnersInv'
  <2>1. ASSUME NEW e \in Handled'
        PROVE  /\ ann'[e].tripID \in {NoTrip, vc.tripID}
               /\ Stored(e) => docs[e].tripID \in {NoTrip, vc.tripID}
    <3>1. CASE e \in vc.map /\ ann'[e] = ann[e]
      BY <1>1, <3>1 DEF OwnersInv
    <3>2. CASE Lists(vc.tripID, e) /\ Stored(e) /\ ann'[e] = docs[e]
      BY <1>2, <1>5, <3>2 DEF OwnersInv
    <3> QED
      BY <1>4, <2>1, <3>1, <3>2 DEF LoadStep
  <2> QED
    BY <1>4, <2>1 DEF OwnersInv, Lists, Stored
<1>10. DeletedInv' /\ SavingInv'
  BY <1>1, <1>4 DEF DeletedInv, SavingInv
<1>11. NumberedInv'
  BY <1>1, <1>4 DEF NumberedInv, Numbered, Naming1
<1>12. (calls' # {} => Loading') /\ (calls' = {} => ~Loading')
  BY DEF LoadStep, Loading
<1>13. RestInv'
  BY <1>1, <1>4, <1>12 DEF RestInv, Settled
<1> QED
  BY <1>3, <1>7, <1>8, <1>9, <1>10, <1>11, <1>12, <1>13

\* No document has changed, no deletion is under way.
LEMMA LoadStepGone ==
  ASSUME CarefulInv, LoadStep, failed' \in {failed, TRUE}
  PROVE  GoneInv'
<1>1. \A c \in calls : c.op \in {"trip", "entry"}
  BY DEF CarefulInv, LoadStep, LoadingInv
<1>2. UNCHANGED <<trips, docs, crashed, lost>>
  BY DEF LoadStep
<1> QED
  BY <1>1, <1>2 DEF CarefulInv, GoneInv, Stored

LEMMA LoadingCall ==
  ASSUME CarefulInv, NEW k \in calls, k.op \in {"trip", "entry"}
  PROVE  /\ Loading /\ vc.phase = "open" /\ ~saving /\ vc.tripID # NoTrip
         /\ vc.list = <<>> /\ vc.deleted = {}
         /\ \A c \in calls : c.op \in {"trip", "entry"}
         /\ k.op = "trip" => /\ calls = {k} /\ k.trip = vc.tripID
                             /\ vc.map = {} /\ load = NotLoading
         /\ k.op = "entry" => /\ k.entry \in load.want \ load.got
                              /\ load.want = ToSet(trips[vc.tripID].entries)
                              /\ load.got = vc.map /\ load.got \subseteq load.want
                              /\ \A c \in calls : c.op = "entry"
BY DEF CarefulInv, LoadingInv, Loading

LEMMA TripLoadedKeeps ==
  ASSUME BaseInv, CarefulInv, TypeOK', NEW k \in calls, TripLoaded(k)
  PROVE  CarefulInv'
<1> USE DEF CarefulInv
<1> DEFINE t == vc.tripID
           ids == trips[t].entries
           new == {[op |-> "entry", entry |-> e] : e \in ToSet(ids)}
<1>1. /\ Loading /\ vc.phase = "open" /\ ~saving /\ t # NoTrip /\ vc.list = <<>>
      /\ vc.deleted = {} /\ calls = {k} /\ k.op = "trip" /\ k.trip = t /\ vc.map = {}
  BY LoadingCall DEF TripLoaded
<1>2. /\ calls' = new /\ load' = [want |-> ToSet(ids), got |-> {}]
      /\ vc' = [vc EXCEPT !.ready = TRUE]
      /\ UNCHANGED <<store, myTrips, ann, counts, acks, past, used, saving>>
  BY <1>1 DEF TripLoaded
<1>3. /\ vc'.phase = vc.phase /\ vc'.tripID = t /\ vc'.deleted = {} /\ vc'.list = <<>>
      /\ vc'.map = {}
  BY <1>1, <1>2 DEF BaseInv, TypeOK, Editor
<1>4. \A c \in new : c.op = "entry" /\ c.entry \in ToSet(ids)
  OBVIOUS
<1>5. \A e \in ToSet(ids) : [op |-> "entry", entry |-> e] \in new
  OBVIOUS
<1> HIDE DEF ids, new
<1>6. ToSet(vc'.list) \cup vc'.map = {} /\ Injective(vc'.list)
  BY <1>3, EmptyList
<1>7. LoadStep
  BY <1>1, <1>2, <1>3, <1>4, <1>6 DEF LoadStep, past, store
<1>8. /\ UsedInv' /\ ListsInv' /\ OwnersInv' /\ DeletedInv' /\ SavingInv'
      /\ NumberedInv' /\ RestInv' /\ GoneInv'
      /\ (calls' # {} => Loading') /\ (calls' = {} => ~Loading')
  BY <1>2, <1>7, LoadStepKeeps, LoadStepGone DEF past
<1>9. LoadingInv'
  BY <1>1, <1>2, <1>3, <1>4 DEF LoadingInv, ids, store
<1>10. LoadedInv'
  BY <1>2, <1>5 DEF LoadedInv
<1>11. WholeInv'
  <2> SUFFICES ASSUME ~failed, ~torn
               PROVE  WholeInv'
    BY <1>2 DEF WholeInv, past
  <2>1. ASSUME ~Loading'
        PROVE  ToSet(ids) = {}
    BY <1>2, <1>5, <1>8, <2>1
  <2> QED
    BY <1>1, <1>2, <1>3, <1>6, <2>1 DEF WholeInv, Lists, Stored, past, store, ids
<1> QED
  BY <1>8, <1>9, <1>10, <1>11

LEMMA LoadFailedKeeps ==
  ASSUME BaseInv, CarefulInv, TypeOK', NEW k \in calls, CallFailed(k), k.op \in {"trip", "entry"}
  PROVE  CarefulInv'
<1> USE DEF CarefulInv
<1>1. /\ Loading /\ vc.list = <<>>
      /\ \A c \in calls \ {k} : c.op = "entry"
  BY LoadingCall
<1>2. /\ calls' = calls \ {k} /\ failed'
      /\ UNCHANGED <<trips, docs, vc, ann, load, counts, acks, presses, crashed, torn, used, saving>>
  BY DEF CallFailed, store
<1>3. lost' = lost
  BY DEF CallFailed, BaseInv, TypeOK
<1>4. LoadStep
  BY <1>1, <1>2, <1>3, EmptyList DEF LoadStep
<1>5. /\ UsedInv' /\ ListsInv' /\ OwnersInv' /\ DeletedInv' /\ SavingInv'
      /\ NumberedInv' /\ RestInv' /\ GoneInv'
  BY <1>2, <1>4, LoadStepKeeps, LoadStepGone
<1>6. LoadingInv'
  BY <1>1, <1>2 DEF LoadingInv
<1> QED
  BY <1>2, <1>5, <1>6 DEF LoadedInv, WholeInv

\* The list a load ends with, if it does.
Filled(S) ==
  IF S = load.want THEN vc'.list \in Seq(Entries) /\ ToSet(vc'.list) = S /\ Injective(vc'.list)
  ELSE vc'.list = vc.list

LEMMA EntryArrived ==
  ASSUME BaseInv, NEW k \in calls, EntryLoaded(k), Stored(k.entry)
  PROVE  /\ k.entry \in Entries /\ calls' = calls \ {k}
         /\ load'.got = load.got \cup {k.entry} /\ load'.want = load.want
         /\ vc'.phase = vc.phase /\ vc'.tripID = vc.tripID /\ vc'.deleted = vc.deleted
         /\ vc'.map = vc.map \cup {k.entry} /\ Filled(load'.got)
         /\ ann'[k.entry] = docs[k.entry] /\ \A x \in Entries : x # k.entry => ann'[x] = ann[x]
         /\ UNCHANGED <<store, counts, acks, past, used, saving>>
<1> USE DEF BaseInv
<1> DEFINE e == k.entry
           got == load.got \cup {e}
<1>1. e \in Entries
  BY CallFields DEF EntryLoaded, TypeOK
<1>2. /\ load' = [load EXCEPT !.got = got]
      /\ ann' = [ann EXCEPT ![e] = docs[e]]
      /\ IF got = load.want
         THEN \E s \in SetToSeqs(got) : vc' = [vc EXCEPT !.map = @ \cup {e}, !.list = s]
         ELSE vc' = [vc EXCEPT !.map = @ \cup {e}]
      /\ calls' = calls \ {k}
      /\ UNCHANGED <<store, counts, acks, past, used, saving>>
  BY DEF EntryLoaded
<1>3. load'.got = got /\ load'.want = load.want /\ got \in SUBSET Entries
  BY <1>1, <1>2 DEF TypeOK
<1>4. ann'[e] = docs[e] /\ \A x \in Entries : x # e => ann'[x] = ann[x]
  BY <1>1, <1>2 DEF TypeOK
<1>5. /\ vc'.phase = vc.phase /\ vc'.tripID = vc.tripID /\ vc'.deleted = vc.deleted
      /\ vc'.map = vc.map \cup {e} /\ Filled(got)
  <2> HIDE DEF got
  <2>1. CASE got = load.want
    <3>1. PICK s \in SetToSeqs(got) : vc' = [vc EXCEPT !.map = @ \cup {e}, !.list = s]
      BY <1>2, <2>1
    <3>2. s \in Seq(Entries) /\ ToSet(s) = got /\ Injective(s)
      BY <1>3, <2>1, Sorted
    <3> QED
      BY <2>1, <3>1, <3>2 DEF TypeOK, Editor, Filled
  <2>2. CASE got # load.want
    <3>1. vc' = [vc EXCEPT !.map = @ \cup {e}]
      BY <1>2, <2>2
    <3> QED
      BY <2>2, <3>1 DEF TypeOK, Editor, Filled
  <2> QED
    BY <2>1, <2>2
<1> QED
  BY <1>1, <1>2, <1>3, <1>4, <1>5

LEMMA EntryLoadedKeeps ==
  ASSUME BaseInv, CarefulInv, TypeOK', NEW k \in calls, EntryLoaded(k)
  PROVE  CarefulInv'
<1> USE DEF CarefulInv
<1> DEFINE e == k.entry
           t == vc.tripID
<1>1. /\ Loading /\ k.op = "entry" /\ vc.list = <<>> /\ \A c \in calls : c.op = "entry"
      /\ e \in load.want \ load.got /\ load.want = ToSet(trips[t].entries)
      /\ load.got = vc.map /\ load.got \subseteq load.want /\ t # NoTrip
      /\ vc.phase = "open" /\ vc.deleted = {} /\ ~saving
  BY LoadingCall DEF EntryLoaded
<1>2. t \in Trips /\ trips[t] # NoDoc /\ Lists(t, e)
  BY <1>1, EditorFields DEF BaseInv, NamesInv, Lists
<1>3. calls' = calls \ {k} /\ UNCHANGED <<trips, docs, counts, acks, past, used, saving>>
  BY DEF EntryLoaded, store
<1>4. CASE ~Stored(e)
  <2>1. UNCHANGED <<load, ann, vc>>
    BY <1>4 DEF EntryLoaded
  <2>2. LoadStep
    BY <1>1, <1>3, <2>1, EmptyList DEF LoadStep, past
  <2>3. /\ UsedInv' /\ ListsInv' /\ OwnersInv' /\ DeletedInv' /\ SavingInv'
        /\ NumberedInv' /\ RestInv' /\ GoneInv'
    BY <1>3, <2>2, LoadStepKeeps, LoadStepGone DEF past
  <2>4. LoadingInv'
    BY <1>1, <1>3, <2>1 DEF LoadingInv
  <2>5. failed \/ torn
    BY <1>1, <1>2, <1>4 DEF WholeInv, BaseInv, TypeOK
  <2> QED
    BY <1>3, <2>3, <2>4, <2>5 DEF LoadedInv, WholeInv, past
<1>5. CASE Stored(e)
  <2>1. /\ e \in Entries /\ load'.got = load.got \cup {e} /\ load'.want = load.want
        /\ vc'.phase = vc.phase /\ vc'.tripID = t /\ vc'.deleted = vc.deleted
        /\ vc'.map = vc.map \cup {e} /\ Filled(load'.got)
        /\ ann'[e] = docs[e] /\ \A x \in Entries : x # e => ann'[x] = ann[x]
    BY <1>5, EntryArrived
  <2>2. vc.map \subseteq Entries
    BY EditorFields DEF BaseInv
  <2>3. ToSet(vc'.list) \subseteq vc'.map /\ Injective(vc'.list)
    <3>1. CASE load'.got = load.want
      BY <1>1, <2>1, <3>1 DEF Filled
    <3>2. CASE load'.got # load.want
      BY <1>1, <2>1, <3>2, EmptyList DEF Filled
    <3> QED
      BY <3>1, <3>2
  <2>4. ASSUME NEW x \in ToSet(vc'.list) \cup vc'.map
        PROVE  \/ x \in vc.map /\ ann'[x] = ann[x]
               \/ Lists(vc.tripID, x) /\ Stored(x) /\ ann'[x] = docs[x]
    BY <1>1, <1>2, <1>5, <2>1, <2>2, <2>3, <2>4
  <2>5. LoadStep
    BY <1>1, <1>3, <2>1, <2>3, <2>4 DEF LoadStep, past
  <2>6. /\ UsedInv' /\ ListsInv' /\ OwnersInv' /\ DeletedInv' /\ SavingInv'
        /\ NumberedInv' /\ RestInv' /\ GoneInv'
        /\ (calls' # {} => Loading') /\ (calls' = {} => ~Loading')
    BY <1>3, <2>5, LoadStepKeeps, LoadStepGone DEF past
  <2>7. \A c \in calls' : c.op = "entry" /\ c.entry \in load.want \ load'.got
    <3> SUFFICES ASSUME NEW c \in calls'
                 PROVE  c.op = "entry" /\ c.entry \in load.want \ load'.got
      OBVIOUS
    <3>1. c \in calls /\ c # k /\ c.op = "entry"
      BY <1>1, <1>3
    <3>2. c.entry \in load.want \ load.got
      BY <3>1, LoadingCall
    <3>3. c.entry # e
      BY <1>1, <3>1, CallFields DEF BaseInv, TypeOK
    <3> QED
      BY <2>1, <3>1, <3>2, <3>3
  <2>8. LoadingInv'
    <3> SUFFICES ASSUME Loading'
                 PROVE  LoadingInv'
      BY DEF LoadingInv
    <3>1. PICK c \in calls' : c.entry \in load.want \ load'.got
      BY <2>6, <2>7
    <3>2. load'.got # load.want
      BY <3>1
    <3>3. vc'.list = <<>>
      BY <1>1, <2>1, <3>2 DEF Filled
    <3>4. acks = <<>>
      BY <1>1 DEF LoadingInv
    <3> QED
      BY <1>1, <1>3, <2>1, <2>7, <3>3, <3>4 DEF LoadingInv
  <2>9. LoadedInv'
    <3> SUFFICES ASSUME ~failed, ~torn, NEW x \in load.want, x \notin load'.got
                 PROVE  [op |-> "entry", entry |-> x] \in calls'
      BY <1>3, <2>1 DEF LoadedInv, past
    <3>1. x \notin load.got /\ x # e
      BY <2>1
    <3>2. [op |-> "entry", entry |-> x] \in calls
      BY <1>1, <3>1 DEF LoadedInv
    <3>3. [op |-> "entry", entry |-> x] # k
      BY <3>1
    <3> QED
      BY <1>3, <3>2, <3>3
  <2>10. WholeInv'
    <3> SUFFICES ASSUME ~failed, ~torn
                 PROVE  WholeInv'
      BY <1>3 DEF WholeInv, past
    <3>1. ASSUME ~Loading'
          PROVE  vc'.map = ToSet(vc'.list) /\ ToSet(trips[t].entries) \subseteq ToSet(vc'.list)
      <4>1. calls' = {}
        BY <2>6, <3>1
      <4>2. ASSUME NEW x \in load.want
            PROVE  x \in load'.got
        BY <1>1, <1>3, <2>1, <4>1 DEF LoadedInv
      <4>3. load'.got = load.want
        BY <1>1, <2>1, <4>2
      <4> QED
        BY <1>1, <2>1, <4>3 DEF Filled
    <3>2. \A q \in Trips, x \in Entries : Lists(q, x) => Stored(x)
      BY <1>1 DEF WholeInv
    <3> QED
      BY <1>2, <1>3, <2>1, <3>1, <3>2 DEF WholeInv, Lists, Stored
  <2> QED
    BY <2>6, <2>8, <2>9, <2>10
<1> QED
  BY <1>4, <1>5

-----------------------------------------------------------------------------
(* Saving.                                                                 *)

LEMMA SavingFacts ==
  ASSUME BaseInv, CarefulInv, saving
  PROVE  /\ vc.phase = "open" /\ vc.list # <<>> /\ ~Loading /\ ~Deleting /\ ~Settled
         /\ presses \in Nat /\ press \in Presses /\ counts[press] \in Nat
         /\ vc.tripID # NoTrip => vc.tripID \in Trips /\ trips[vc.tripID] # NoDoc
         /\ vc.list \in Seq(Entries) /\ ToSet(vc.list) \subseteq Entries
         /\ ToSet(vc.list) \subseteq Handled /\ Handled \subseteq used
         /\ Uploading \subseteq ToSet(vc.list)
         /\ IsFiniteSet(Uploading) /\ Cardinality(Uploading) \in Nat
         /\ Named \in {0, 1} /\ Len(acks) \in Nat /\ Len(vc.list) \in Nat
<1> USE DEF BaseInv, CarefulInv
<1>1. vc.phase = "open" /\ vc.list # <<>> /\ presses > 0
  BY DEF SavingInv
<1>2. ~Loading /\ ~Deleting
  BY <1>1 DEF LoadingInv, DeletionsAlone
<1>3. presses \in Nat /\ presses <= MaxPresses
  BY TripAssumption DEF TypeOK, Presses
<1>4. press \in Presses
  BY <1>1, <1>3, TripAssumption DEF Presses, press
<1>5. counts[press] \in Nat
  BY <1>4 DEF TypeOK
<1>6. vc.list \in Seq(Entries) /\ ToSet(vc.list) \subseteq Entries /\ IsFiniteSet(ToSet(vc.list))
  BY EditorFields, Members
<1>7. Uploading \subseteq ToSet(vc.list)
  <2> SUFFICES ASSUME NEW e \in Entries, UploadOf(e) \in calls
               PROVE  e \in ToSet(vc.list)
    BY DEF Uploading
  <2>1. UploadOf(e).op = "upload" /\ UploadOf(e).entry = e
    BY DEF UploadOf
  <2>2. UserCall.op = "user"
    BY DEF UserCall
  <2> QED
    BY <2>1, <2>2 DEF SavingInv
<1>8. IsFiniteSet(Uploading) /\ Cardinality(Uploading) \in Nat
  BY <1>6, <1>7, FS_Subset, FS_CardinalityType
<1>9. ~Settled
  BY QuietAtRest DEF Quiet
<1>10. vc.tripID # NoTrip => vc.tripID \in Trips /\ trips[vc.tripID] # NoDoc
  BY <1>2, <1>9, AtWork
<1>11. ToSet(vc.list) \subseteq Handled /\ Handled \subseteq used
  BY <1>1 DEF UsedInv, Handled
<1>12. Named \in {0, 1} /\ Len(acks) \in Nat /\ Len(vc.list) \in Nat
  BY <1>6 DEF Named, TypeOK
<1> QED
  BY <1>1, <1>2, <1>3, <1>4, <1>5, <1>6, <1>7, <1>8, <1>9, <1>10, <1>11, <1>12

LEMMA SavingCall ==
  ASSUME BaseInv, CarefulInv, NEW k \in calls, k.op \in {"upload", "user"}
  PROVE  /\ saving
         /\ k.op = "upload" => k = UploadOf(k.entry) /\ k.entry \in ToSet(vc.list)
                               /\ k.entry \in Uploading /\ Uploads
         /\ k.op = "user" => k = UserCall /\ Asking
<1> USE DEF BaseInv, CarefulInv
<1>1. saving
  BY DEF RestInv, LoadingInv, DeletionsAlone
<1>2. UserCall.op = "user"
  BY DEF UserCall
<1>3. /\ k.op = "upload" => k = UploadOf(k.entry) /\ k.entry \in ToSet(vc.list)
      /\ k.op = "user" => k = UserCall
  BY <1>1, <1>2 DEF SavingInv, UploadOf
<1>4. k.op = "upload" => k.entry \in Uploading
  BY <1>3, CallFields DEF TypeOK, Uploading
<1>5. Uploads \/ Asking \/ Updating
  BY <1>1 DEF SavingInv
<1> QED
  BY <1>1, <1>3, <1>4, <1>5 DEF Uploads, Asking, Updating

\* Entries in the hands of the editor are on no other trip.
LEMMA OthersApart ==
  ASSUME CarefulInv, vc.phase = "open", NEW q \in Trips, NEW e \in Handled, Lists(q, e)
  PROVE  q = vc.tripID
BY DEF CarefulInv, ListsInv

LEMMA OthersNumbered ==
  ASSUME TypeOK, CarefulInv, vc.phase = "open", NEW q \in Trips, q # vc.tripID,
         trips[q] # NoDoc, Numbered(q), trips'[q].entries = trips[q].entries,
         \A e \in Entries : e \notin Handled => docs'[e] = docs[e]
  PROVE  Numbered(q)'
<1> SUFFICES ASSUME NEW i \in 1..Len(trips[q].entries)
             PROVE  docs'[trips[q].entries[i]] = [tripID |-> q, order |-> i - 1]
  BY DEF Numbered
<1> DEFINE e == trips[q].entries[i]
<1>1. trips[q] \in Trip
  BY DEF TypeOK
<1>2. trips[q].entries \in Seq(Entries)
  BY <1>1 DEF Trip
<1>3. e \in Entries /\ e \in ToSet(trips[q].entries)
  BY <1>2, Members
<1>4. e \notin Handled
  BY <1>3, OthersApart DEF Lists
<1> QED
  BY <1>3, <1>4 DEF Numbered

LEMMA SavingNumbered ==
  ASSUME CarefulInv, saving, ~crashed, NEW q \in Trips, trips[q] # NoDoc, q # vc.tripID
  PROVE  Numbered(q)
BY DEF CarefulInv, NumberedInv

\* What a press of save does.
SavePress ==
  LET t == vc.tripID IN
  /\ \A q \in Trips : /\ trips'[q] # NoDoc <=> trips[q] # NoDoc
                      /\ q # t => trips'[q] = trips[q]
  /\ \A e \in Entries :
       /\ e \in vc.deleted => docs'[e] = NoDoc
       /\ e \notin vc.deleted /\ e \notin ToSet(vc.list) => docs'[e] = docs[e]
       /\ e \in ToSet(vc.list) /\ docs'[e] # NoDoc =>
            Stored(e) /\ docs'[e].tripID \in {docs[e].tripID, t}
       /\ ann'[e] = ann[e] \/ (e \in ToSet(vc.list) /\ ann'[e].tripID = t)
  /\ \A c \in calls' :
       c.op = "cover" \/ \E e \in ToSet(vc.list) :
                           c = [op |-> "upload", entry |-> e, press |-> presses]
  /\ \A e \in ToSet(vc.list) : [op |-> "upload", entry |-> e, press |-> presses] \in calls'
  /\ \/ ~UpdatesAtOnce /\ acks' = <<>> /\ trips' = trips
     \/ /\ t \in Trips /\ trips'[t].entries = vc.list
        /\ acks' = <<[op |-> "tripIDs", trip |-> t, ids |-> vc.list]>>
  /\ vc.phase = "open" /\ vc.list # <<>> /\ saving'
  /\ UNCHANGED <<vc, load, counts, used>>

LEMMA SavePressed ==
  ASSUME BaseInv, CarefulInv, Quiet, saveButtonPressed
  PROVE  SavePress
<1> USE DEF BaseInv, CarefulInv
<1> DEFINE t == vc.tripID
           ups == {[op |-> "upload", entry |-> e, press |-> presses] : e \in ToSet(vc.list)}
           cov == IF UpdatesAtOnce THEN {[op |-> "cover", trip |-> t]} ELSE {}
<1>1. /\ vc.phase = "open" /\ vc.list # <<>> /\ saving' /\ calls' = ups \cup cov
      /\ UNCHANGED <<vc, load, counts, used>>
  BY DEF saveButtonPressed, Quiet
<1>2. \A c \in ups : \E e \in ToSet(vc.list) :
                       c = [op |-> "upload", entry |-> e, press |-> presses]
  OBVIOUS
<1>3. \A c \in cov : c.op = "cover"
  <2>1. CASE UpdatesAtOnce
    BY <2>1
  <2>2. CASE ~UpdatesAtOnce
    BY <2>2
  <2> QED
    BY <2>1, <2>2
<1>4. \A e \in ToSet(vc.list) : [op |-> "upload", entry |-> e, press |-> presses] \in ups
  OBVIOUS
<1> HIDE DEF ups, cov
<1>5. vc.list \in Seq(Entries) /\ acks = <<>>
  BY EditorFields DEF Quiet
<1>6. CASE UpdatesAtOnce
  <2>1. t \in Trips /\ trips[t] # NoDoc
    BY <1>1, <1>6, EditorFields DEF UpdatesAtOnce, NamesInv
  <2>2. /\ trips' = TripsWith(t, vc.list)
        /\ docs' = Deletes(WithTripID(docs, vc.list, t))
        /\ ann' = ObjectsWithTripID(t)
        /\ acks' = Append(acks, [op |-> "tripIDs", trip |-> t, ids |-> vc.list])
    BY <1>6 DEF saveButtonPressed, TripsWith
  <2>3. acks' = <<[op |-> "tripIDs", trip |-> t, ids |-> vc.list]>>
    BY <1>5, <2>2
  <2>4. PICK d : d = WithTripID(docs, vc.list, t)
    OBVIOUS
  <2>5. /\ d \in [Entries -> Entry \cup {NoDoc}]
        /\ \A e \in Entries : d[e] # NoDoc <=> Stored(e)
        /\ \A e \in Entries : e \in ToSet(vc.list) /\ Stored(e) => d[e].tripID = t
        /\ \A e \in Entries : e \notin ToSet(vc.list) => d[e] = docs[e]
    BY <1>5, <2>1, <2>4, TripIDsWritten
  <2>6. /\ \A e \in Entries : e \in vc.deleted => docs'[e] = NoDoc
        /\ \A e \in Entries : e \notin vc.deleted => docs'[e] = d[e]
    BY <2>2, <2>4, <2>5, DeletesWritten
  <2>7. /\ \A e \in Entries : e \in ToSet(vc.list) => ann'[e].tripID = t
        /\ \A e \in Entries : e \notin ToSet(vc.list) => ann'[e] = ann[e]
    BY <2>1, <2>2, ObjectsNamed
  <2>8. /\ trips'[t].entries = vc.list
        /\ \A q \in Trips : /\ trips'[q] # NoDoc <=> trips[q] # NoDoc
                            /\ q # t => trips'[q] = trips[q]
    BY <1>5, <2>1, <2>2, TripWritten
  <2>9. ASSUME NEW e \in Entries
        PROVE  /\ e \in vc.deleted => docs'[e] = NoDoc
               /\ e \notin vc.deleted /\ e \notin ToSet(vc.list) => docs'[e] = docs[e]
               /\ e \in ToSet(vc.list) /\ docs'[e] # NoDoc =>
                    Stored(e) /\ docs'[e].tripID \in {docs[e].tripID, t}
               /\ ann'[e] = ann[e] \/ (e \in ToSet(vc.list) /\ ann'[e].tripID = t)
    BY <2>5, <2>6, <2>7
  <2> QED
    BY <1>1, <1>2, <1>3, <1>4, <2>1, <2>3, <2>8, <2>9 DEF SavePress
<1>7. CASE ~UpdatesAtOnce
  <2>1. docs' = Deletes(docs) /\ trips' = trips /\ ann' = ann /\ acks' = <<>>
    BY <1>5, <1>7 DEF saveButtonPressed
  <2>2. /\ \A e \in Entries : e \in vc.deleted => docs'[e] = NoDoc
        /\ \A e \in Entries : e \notin vc.deleted => docs'[e] = docs[e]
    BY <2>1, DeletesWritten DEF TypeOK
  <2>3. ASSUME NEW e \in Entries
        PROVE  /\ e \in vc.deleted => docs'[e] = NoDoc
               /\ e \notin vc.deleted /\ e \notin ToSet(vc.list) => docs'[e] = docs[e]
               /\ e \in ToSet(vc.list) /\ docs'[e] # NoDoc =>
                    Stored(e) /\ docs'[e].tripID \in {docs[e].tripID, t}
               /\ ann'[e] = ann[e] \/ (e \in ToSet(vc.list) /\ ann'[e].tripID = t)
    BY <2>1, <2>2 DEF Stored
  <2> QED
    BY <1>1, <1>2, <1>3, <1>4, <1>7, <2>1, <2>3 DEF SavePress
<1> QED
  BY <1>6, <1>7

LEMMA SaveKeeps ==
  ASSUME BaseInv, Patient => CarefulInv, saveButtonPressed, Patient', TypeOK'
  PROVE  CarefulInv'
<1>1. /\ CarefulInv /\ Quiet /\ presses \in Nat /\ presses' = presses + 1
      /\ UNCHANGED <<failed, crashed, torn, lost>>
  BY QuietPress DEF saveButtonPressed
<1> USE DEF BaseInv, CarefulInv
<1> DEFINE t == vc.tripID
           L == ToSet(vc.list)
<1>2. SavePress
  BY <1>1, SavePressed
<1>3. vc.phase = "open" /\ vc.list # <<>> /\ saving' /\ UNCHANGED <<vc, load, counts, used>>
  BY <1>2 DEF SavePress
<1>4. /\ vc.list \in Seq(Entries) /\ vc.deleted \subseteq Entries /\ vc.map \subseteq Entries
      /\ L \subseteq Entries /\ t \in Trips \cup {NoTrip}
      /\ Cardinality(L) = Len(vc.list) /\ Cardinality(L) > 0 /\ Len(vc.list) \in Nat
  BY <1>1, <1>3, EditorFields, Members, MembersCounted DEF ListsInv
<1>5. t # NoTrip => t \in Trips /\ trips[t] # NoDoc
  BY <1>3, <1>4 DEF NamesInv
<1>6. Handled' = Handled /\ L \subseteq Handled /\ Handled \subseteq Entries /\ Handled \subseteq used
      /\ vc.deleted \subseteq Handled /\ vc.deleted \cap L = {} /\ L' = L
  BY <1>1, <1>3, HandledEntries DEF Handled, UsedInv, DeletedInv
<1>7. /\ \A q \in Trips : /\ trips'[q] # NoDoc <=> trips[q] # NoDoc
                          /\ q # t => trips'[q] = trips[q]
      /\ trips' = trips \/ (t \in Trips /\ trips'[t].entries = vc.list)
  BY <1>2 DEF SavePress
<1>8. \A e \in Entries :
         /\ e \in vc.deleted => docs'[e] = NoDoc
         /\ e \notin vc.deleted /\ e \notin L => docs'[e] = docs[e]
         /\ e \in L /\ docs'[e] # NoDoc =>
              Stored(e) /\ docs'[e].tripID \in {docs[e].tripID, t}
         /\ ann'[e] = ann[e] \/ (e \in L /\ ann'[e].tripID = t)
  BY <1>2 DEF SavePress
<1>9. /\ \A c \in calls' :
           c.op = "cover" \/ \E e \in L : c = [op |-> "upload", entry |-> e, press |-> presses]
      /\ \A e \in L : [op |-> "upload", entry |-> e, press |-> presses] \in calls'
  BY <1>2 DEF SavePress
<1>10. \/ ~UpdatesAtOnce /\ acks' = <<>> /\ trips' = trips
       \/ /\ t \in Trips /\ trips'[t].entries = vc.list
          /\ acks' = <<[op |-> "tripIDs", trip |-> t, ids |-> vc.list]>>
  BY <1>2 DEF SavePress
<1> HIDE DEF L
<1>11. ASSUME NEW q \in Trips, NEW e, Lists(q, e)'
       PROVE  e \in Entries /\ (Lists(q, e) \/ (q = t /\ e \in L)) /\ (e \in L => q = t)
  <2>1. Lists(q, e) \/ (q = t /\ e \in L)
    BY <1>7, <1>11 DEF Lists, L
  <2>2. e \in L => q = t
    BY <1>1, <1>3, <1>6, <2>1, OthersApart
  <2> QED
    BY <1>4, <2>1, <2>2, ListedIsEntry
<1>12. ASSUME NEW e \in Entries, Stored(e)'
       PROVE  Stored(e) /\ docs'[e].tripID \in {docs[e].tripID, t}
              /\ (e \notin L => docs'[e] = docs[e])
  BY <1>8, <1>12 DEF Stored
<1>13. UsedInv'
  <2>1. \A s \in Presses : s >= presses' => counts'[s] = 0
    BY <1>1, <1>3, CountsLater
  <2>2. \A e \in Entries : Stored(e)' => e \in used /\ docs'[e].tripID \in used \cup {NoTrip}
    BY <1>1, <1>5, <1>12 DEF UsedInv
  <2>3. \A q \in Trips : trips'[q] # NoDoc => q \in used
    BY <1>1, <1>7 DEF UsedInv
  <2>4. \A q \in Trips, e \in Entries : Lists(q, e)' => e \in used
    BY <1>1, <1>6, <1>11 DEF UsedInv
  <2> QED
    BY <1>3, <1>6, <2>1, <2>2, <2>3, <2>4 DEF UsedInv
<1>14. ListsInv'
  <2>1. \A q, r \in Trips, e \in Entries : Lists(q, e)' /\ Lists(r, e)' => q = r
    BY <1>1, <1>11 DEF ListsInv
  <2>2. \A q \in Trips : trips'[q] # NoDoc => Injective(trips'[q].entries)
    BY <1>1, <1>7 DEF ListsInv
  <2>3. \A q \in Trips, e \in Handled : Lists(q, e)' => q = t
    BY <1>1, <1>3, <1>11 DEF ListsInv
  <2>4. \A c \in calls' : c.op # "fetchEntry"
    BY <1>9
  <2> QED
    BY <1>1, <1>3, <1>6, <2>1, <2>2, <2>3, <2>4 DEF ListsInv
<1>15. OwnersInv'
  <2>1. ASSUME NEW e \in L \cup vc.map
        PROVE  /\ ann'[e].tripID \in {NoTrip, t}
               /\ Stored(e)' => docs'[e].tripID \in {NoTrip, t}
    BY <1>1, <1>3, <1>4, <1>8, <1>12, <2>1 DEF OwnersInv, L
  <2>2. ASSUME NEW q \in Trips, NEW e \in Entries, Lists(q, e)', Stored(e)'
        PROVE  docs'[e].tripID \in {NoTrip, q}
    <3>1. CASE e \in L
      BY <1>11, <2>1, <2>2, <3>1
    <3>2. CASE e \notin L
      BY <1>1, <1>11, <1>12, <2>2, <3>2 DEF OwnersInv
    <3> QED
      BY <3>1, <3>2
  <2> QED
    BY <1>3, <2>1, <2>2 DEF OwnersInv, L
<1>16. DeletedInv'
  BY <1>3, <1>4, <1>6, <1>8 DEF DeletedInv, L, Stored
<1>17. ~Loading' /\ ~Deleting'
  BY <1>9 DEF Loading, Deleting
<1>18. LoadingInv' /\ LoadedInv' /\ RestInv'
  BY <1>3, <1>17 DEF LoadingInv, LoadedInv, RestInv
<1>19. press' = presses
  BY <1>1 DEF press
<1>20. Uploading' = L
  <2>1. ASSUME NEW e \in L
        PROVE  e \in Uploading'
    BY <1>4, <1>9, <1>19 DEF Uploading, UploadOf
  <2>2. ASSUME NEW e \in Uploading'
        PROVE  e \in L
    <3>1. [op |-> "upload", entry |-> e, press |-> presses] \in calls'
      BY <1>19, <2>2 DEF Uploading, UploadOf
    <3> QED
      BY <1>9, <3>1
  <2> QED
    BY <2>1, <2>2
<1>21. ~failed /\ ~torn /\ t # NoTrip => trips'[t].entries = vc.list
  <2> SUFFICES ASSUME ~failed, ~torn, t # NoTrip
               PROVE  UpdatesAtOnce
    BY <1>10
  <2>1. vc.map = L
    BY <1>1 DEF WholeInv, Quiet, L
  <2> QED
    BY <1>4, <2>1 DEF UpdatesAtOnce
<1>22. SavingInv'
  <2>1. ASSUME NEW c \in calls'
        PROVE  \/ c.op = "cover"
               \/ c.op = "upload" /\ c = UploadOf(c.entry)' /\ c.entry \in L
    BY <1>9, <1>19 DEF UploadOf
  <2>2. UserCall' \notin calls'
    BY <2>1 DEF UserCall
  <2>3. counts'[press'] = 0
    <3>1. presses \in Presses
      BY DEF TypeOK
    <3> QED
      BY <1>1, <1>3, <1>19, <3>1 DEF UsedInv
  <2>4. /\ Len(acks') = Named'
        /\ \A i \in 1..Len(acks') : /\ Naming(acks'[i]) /\ acks'[i].trip = t /\ i = 1
                                    /\ acks'[i].ids = vc.list /\ acks'[i].op # "updated"
    <3>1. CASE acks' = <<>>
      BY <3>1 DEF Named
    <3>2. CASE acks' = <<[op |-> "tripIDs", trip |-> t, ids |-> vc.list]>>
      <4>1. PICK a : a = [op |-> "tripIDs", trip |-> t, ids |-> vc.list]
        OBVIOUS
      <4>2. Naming(a) /\ a.trip = t /\ a.ids = vc.list /\ a.op # "updated"
        BY <4>1 DEF Naming
      <4>3. Len(acks') = 1 /\ acks'[1] = a
        BY <3>2, <4>1
      <4> QED
        BY <4>2, <4>3 DEF Named
    <3> QED
      BY <1>10, <3>1, <3>2
  <2>5. Len(acks') \in Nat
    BY DEF TypeOK
  <2>6. Uploads'
    <3>1. Cardinality(Uploading') = Len(vc.list)
      BY <1>4, <1>20
    <3> QED
      BY <1>3, <1>4, <2>2, <2>3, <2>4, <2>5, <3>1 DEF Uploads
  <2> QED
    BY <1>1, <1>3, <1>6, <1>20, <1>21, <2>1, <2>4, <2>6 DEF SavingInv, L
<1>23. NumberedInv'
  <2> SUFFICES ASSUME ~crashed, NEW q \in Trips, trips[q] # NoDoc, q # t
               PROVE  Numbered(q)'
    BY <1>1, <1>3, <1>7 DEF NumberedInv
  <2>1. Numbered(q)
    BY <1>1, QuietNumbered
  <2>2. \A e \in Entries : e \notin Handled => docs'[e] = docs[e]
    BY <1>6, <1>8
  <2> QED
    BY <1>1, <1>3, <1>7, <2>1, <2>2, OthersNumbered
<1>24. WholeInv'
  <2> SUFFICES ASSUME ~failed, ~torn
               PROVE  WholeInv'
    BY <1>1 DEF WholeInv
  <2>1. ASSUME NEW q \in Trips, NEW e \in Entries, Lists(q, e)'
        PROVE  Stored(e)' \/ e \in Uploading'
    <3>1. CASE e \in L
      BY <1>20, <3>1
    <3>2. CASE e \notin L
      <4>1. Lists(q, e) /\ Stored(e)
        BY <1>1, <1>11, <2>1, <3>2, QuietStored
      <4>2. e \notin vc.deleted
        <5>1. SUFFICES ASSUME e \in vc.deleted
                       PROVE  FALSE
          OBVIOUS
        <5>2. q = t
          BY <1>1, <1>3, <1>6, <4>1, <5>1, OthersApart
        <5> QED
          BY <1>21, <2>1, <3>2, <5>2, TripAssumption DEF Lists, L
      <4> QED
        BY <1>8, <3>2, <4>1, <4>2 DEF Stored
    <3> QED
      BY <3>1, <3>2
  <2>2. ASSUME NEW q \in Trips, NEW e \in Entries,
               trips'[q] # NoDoc, Stored(e)', docs'[e].tripID = q
        PROVE  Lists(q, e)'
    <3>1. CASE e \in L
      <4>1. q = t
        BY <1>15, <1>3, <2>2, <3>1, TripAssumption DEF OwnersInv, L
      <4> QED
        BY <1>21, <2>2, <3>1, <4>1, TripAssumption DEF Lists, L
    <3>2. CASE e \notin L
      <4>1. docs'[e] = docs[e] /\ Stored(e) /\ e \notin vc.deleted
        BY <1>8, <1>12, <2>2, <3>2 DEF Stored
      <4>2. Lists(q, e)
        BY <1>1, <1>7, <2>2, <4>1 DEF WholeInv
      <4>3. q # t
        BY <1>1, <1>3, <3>2, <4>1, <4>2, TripAssumption DEF WholeInv, Quiet, Lists, L
      <4> QED
        BY <1>7, <4>2, <4>3 DEF Lists
    <3> QED
      BY <3>1, <3>2
  <2>3. vc'.map = ToSet(vc'.list)
    BY <1>1, <1>3 DEF WholeInv, Quiet
  <2> QED
    BY <1>3, <1>21, <2>1, <2>2, <2>3 DEF WholeInv
<1>25. GoneInv'
  <2> SUFFICES ASSUME ~failed, ~crashed, NEW q \in Trips, NEW e \in Entries,
                      Stored(e)', docs'[e].tripID = q, trips'[q] = NoDoc, e \notin lost.entries
               PROVE  FALSE
    BY <1>1 DEF GoneInv
  <2>1. CASE e \in L
    BY <1>5, <1>7, <1>15, <1>3, <2>1, TripAssumption DEF OwnersInv, L
  <2>2. CASE e \notin L
    BY <1>1, <1>7, <1>12, <2>2 DEF GoneInv, Quiet
  <2> QED
    BY <2>1, <2>2
<1> QED
  BY <1>13, <1>14, <1>15, <1>16, <1>18, <1>22, <1>23, <1>24, <1>25

\* The photos of an entry are there.
LEMMA UploadedKeeps ==
  ASSUME BaseInv, CarefulInv, TypeOK', NEW k \in calls, Uploaded(k)
  PROVE  CarefulInv'
<1> USE DEF BaseInv, CarefulInv
<1> DEFINE t == vc.tripID
           L == ToSet(vc.list)
           e == k.entry
<1>1. /\ saving /\ k = UploadOf(e) /\ e \in L /\ e \in Uploading /\ Uploads
      /\ k.op = "upload" /\ e \in Entries /\ k.press = press
  BY SavingCall, CallFields DEF Uploaded, TypeOK, UploadOf
<1>2. /\ vc.phase = "open" /\ vc.list # <<>> /\ ~Loading /\ ~Deleting
      /\ counts[press] \in Nat /\ (t # NoTrip => t \in Trips /\ trips[t] # NoDoc)
      /\ L \subseteq Handled /\ Handled \subseteq used
      /\ IsFiniteSet(Uploading) /\ Cardinality(Uploading) \in Nat
      /\ Named \in {0, 1} /\ Len(acks) \in Nat /\ Len(vc.list) \in Nat /\ L \subseteq Entries
  BY <1>1, SavingFacts
<1>3. PICK a : a = [op |-> "stored", press |-> press]
  OBVIOUS
<1>4. a \in Completion /\ ~Naming(a) /\ a.op = "stored"
  <2>1. press \in Presses
    BY <1>1, SavingFacts
  <2> QED
    BY <1>3, <2>1, AckMade DEF Naming
<1>5. /\ docs' = [docs EXCEPT ![e] = ann[e]] /\ calls' = calls \ {k} /\ acks' = Append(acks, a)
      /\ UNCHANGED <<trips, vc, ann, load, counts, presses, failed, crashed, torn, lost, used, saving>>
  BY <1>1, <1>3 DEF Uploaded, past
<1>6. /\ docs'[e] = ann[e] /\ ann[e] \in Entry /\ ann[e] # NoDoc
      /\ ann[e].tripID \in {NoTrip, t}
      /\ \A x \in Entries : x # e => docs'[x] = docs[x]
  BY <1>1, <1>2, <1>5, TripAssumption DEF TypeOK, OwnersInv
<1>7. /\ Len(acks') = Len(acks) + 1 /\ acks'[Len(acks) + 1] = a
      /\ \A i \in 1..Len(acks) : acks'[i] = acks[i]
  BY <1>4, <1>5, AckAppended DEF TypeOK
<1> HIDE DEF L, e
<1>8. Handled' = Handled /\ press' = press /\ UserCall' = UserCall /\ UpdatedAck' = UpdatedAck
      /\ \A x \in Entries : UploadOf(x)' = UploadOf(x)
  BY <1>5 DEF Handled, press, UserCall, UpdatedAck, UploadOf
<1>9. \A q \in Trips : \A x : Lists(q, x)' <=> Lists(q, x)
  BY <1>5 DEF Lists
<1>10. ASSUME NEW x \in Entries
       PROVE  Stored(x)' <=> Stored(x) \/ x = e
  BY <1>6 DEF Stored
<1>11. UsedInv'
  BY <1>1, <1>2, <1>5, <1>6, <1>8, <1>9, <1>10 DEF UsedInv
<1>12. ListsInv'
  BY <1>5, <1>8, <1>9 DEF ListsInv
<1>13. OwnersInv'
  <2>1. ASSUME NEW q \in Trips, NEW x \in Entries, Lists(q, x), Stored(x)'
        PROVE  docs'[x].tripID \in {NoTrip, q}
    <3>1. CASE x = e
      <4>1. q = t
        BY <1>1, <1>2, <2>1, <3>1, OthersApart
      <4> QED
        BY <1>6, <3>1, <4>1
    <3>2. CASE x # e
      BY <1>6, <1>10, <2>1, <3>2 DEF OwnersInv
    <3> QED
      BY <3>1, <3>2
  <2>2. ASSUME NEW x \in L \cup vc.map, Stored(x)'
        PROVE  docs'[x].tripID \in {NoTrip, t}
    <3>1. x \in Entries
      BY <1>2, <2>2, EditorFields
    <3> QED
      BY <1>2, <1>6, <1>10, <2>2, <3>1 DEF OwnersInv, L
  <2> QED
    BY <1>2, <1>5, <1>9, <2>1, <2>2 DEF OwnersInv, L
<1>14. DeletedInv'
  <2>1. vc.deleted \subseteq Entries /\ e \notin vc.deleted
    BY <1>1, <1>2, EditorFields DEF DeletedInv, L
  <2> QED
    BY <1>1, <1>2, <1>5, <1>10, <2>1 DEF DeletedInv
<1>15. ~Loading' /\ ~Deleting'
  BY <1>2, <1>5 DEF Loading, Deleting
<1>16. LoadingInv' /\ LoadedInv' /\ RestInv'
  BY <1>1, <1>5, <1>15 DEF LoadingInv, LoadedInv, RestInv
<1>17. Uploading' = Uploading \ {e}
  BY <1>1, <1>5, <1>8 DEF Uploading, UploadOf
<1>18. Cardinality(Uploading') = Cardinality(Uploading) - 1
  BY <1>1, <1>2, <1>17, FS_RemoveElement
<1>19. Named' = Named
  <2>1. (\E i \in 1..Len(acks') : Naming(acks'[i])) <=> \E i \in 1..Len(acks) : Naming(acks[i])
    BY <1>2, <1>4, <1>7
  <2> QED
    BY <2>1 DEF Named
<1>20. Uploads'
  <2>1. UserCall' \notin calls'
    BY <1>1, <1>5, <1>8 DEF Uploads
  <2>2. ASSUME NEW i \in 1..Len(acks')
        PROVE  acks'[i].op # "updated"
    <3>1. i = Len(acks) + 1 \/ i \in 1..Len(acks)
      BY <1>2, <1>7
    <3>2. CASE i = Len(acks) + 1
      BY <1>4, <1>7, <3>2
    <3>3. CASE i \in 1..Len(acks)
      BY <1>1, <1>7, <3>3 DEF Uploads
    <3> QED
      BY <3>1, <3>2, <3>3
  <2>3. counts'[press'] = counts[press] /\ vc'.list = vc.list
    BY <1>5, <1>8
  <2>4. counts[press] + Cardinality(Uploading) + Len(acks) - Named = Len(vc.list)
        /\ counts[press] < Len(vc.list)
    BY <1>1 DEF Uploads
  <2>5. Cardinality(Uploading) + Len(acks) = (Cardinality(Uploading) - 1) + (Len(acks) + 1)
    BY <1>2
  <2>6. counts[press] + (Cardinality(Uploading) - 1) + (Len(acks) + 1) - Named = Len(vc.list)
    BY <1>2, <2>4
  <2> QED
    BY <1>7, <1>18, <1>19, <2>1, <2>2, <2>3, <2>4, <2>6 DEF Uploads
<1>21. SavingInv'
  <2>1. ASSUME NEW c \in calls'
        PROVE  \/ c.op = "cover"
               \/ c.op = "upload" /\ c = UploadOf(c.entry)' /\ c.entry \in L
               \/ c = UserCall'
    BY <1>1, <1>5, <1>8 DEF SavingInv, L, UploadOf
  <2>2. ASSUME NEW i \in 1..Len(acks')
        PROVE  \/ acks'[i] = a
               \/ Naming(acks'[i]) /\ acks'[i].trip = t
                  /\ (acks'[i].op = "tripIDs" => i = 1 /\ acks'[i].ids = vc.list)
               \/ acks'[i] = UpdatedAck'
    <3>1. CASE i = Len(acks) + 1
      BY <1>7, <3>1
    <3>2. CASE i \in 1..Len(acks)
      BY <1>1, <1>3, <1>7, <1>8, <3>2 DEF SavingInv
    <3> QED
      BY <1>2, <1>7, <3>1, <3>2
  <2>3. ASSUME NEW i \in 1..Len(acks'), NEW j \in 1..Len(acks'), Naming(acks'[i]), Naming(acks'[j])
        PROVE  i = j
    <3>1. i \in 1..Len(acks) /\ j \in 1..Len(acks)
      BY <1>2, <1>4, <1>7, <2>3
    <3> QED
      BY <1>1, <1>7, <2>3, <3>1 DEF SavingInv
  <2>4. \A x \in L : Stored(x)' \/ x \in Uploading'
    BY <1>1, <1>2, <1>10, <1>17 DEF SavingInv, L
  <2>5. t # NoTrip /\ ~failed /\ ~torn => trips[t].entries = vc.list
    BY <1>1 DEF SavingInv
  <2>6. vc.phase = "open" /\ vc.list # <<>> /\ presses > 0
    BY <1>1 DEF SavingInv
  <2> QED
    BY <1>3, <1>5, <1>8, <1>20, <2>1, <2>2, <2>3, <2>4, <2>5, <2>6 DEF SavingInv, L
<1>22. NumberedInv'
  <2> SUFFICES ASSUME ~crashed, NEW q \in Trips, trips[q] # NoDoc, q # t
               PROVE  Numbered(q)'
    BY <1>1, <1>5 DEF NumberedInv
  <2>1. Numbered(q)
    BY <1>1, SavingNumbered
  <2>2. \A x \in Entries : x \notin Handled => docs'[x] = docs[x]
    BY <1>1, <1>2, <1>6
  <2> QED
    BY <1>2, <1>5, <2>1, <2>2, OthersNumbered
<1>23. WholeInv'
  <2> SUFFICES ASSUME ~failed, ~torn
               PROVE  WholeInv'
    BY <1>5 DEF WholeInv
  <2>1. ASSUME NEW q \in Trips, NEW x \in Entries, Lists(q, x)
        PROVE  Stored(x)' \/ x \in Uploading'
    BY <1>10, <1>17, <2>1 DEF WholeInv
  <2>2. ASSUME NEW q \in Trips, NEW x \in Entries,
               trips[q] # NoDoc, Stored(x)', docs'[x].tripID = q
        PROVE  Lists(q, x)
    <3>1. CASE x = e
      <4>1. q = t
        BY <1>6, <2>2, <3>1, TripAssumption
      <4>2. trips[t].entries = vc.list
        BY <1>1, <4>1, TripAssumption DEF SavingInv
      <4> QED
        BY <1>1, <2>2, <3>1, <4>1, <4>2 DEF Lists, L
    <3>2. CASE x # e
      BY <1>6, <1>10, <2>2, <3>2 DEF WholeInv
    <3> QED
      BY <3>1, <3>2
  <2>3. vc.map = ToSet(vc.list)
        /\ (t # NoTrip => ToSet(trips[t].entries) \subseteq ToSet(vc.list) \cup vc.deleted)
    BY <1>2 DEF WholeInv
  <2> QED
    BY <1>1, <1>5, <1>9, <2>1, <2>2, <2>3 DEF WholeInv
<1>24. GoneInv'
  <2> SUFFICES ASSUME ~failed, ~crashed, NEW q \in Trips, NEW x \in Entries,
                      Stored(x)', docs'[x].tripID = q, trips[q] = NoDoc, x \notin lost.entries
               PROVE  FALSE
    BY <1>5 DEF GoneInv
  <2>1. CASE x = e
    BY <1>2, <1>6, <2>1, TripAssumption
  <2>2. CASE x # e
    BY <1>2, <1>6, <1>10, <2>2 DEF GoneInv, Deleting
  <2> QED
    BY <2>1, <2>2
<1> QED
  BY <1>11, <1>12, <1>13, <1>14, <1>16, <1>21, <1>22, <1>23, <1>24

\* An entry is counted.
LEMMA StoredAck ==
  ASSUME BaseInv, CarefulInv, EntryStored
  PROVE  /\ saving /\ Uploads /\ acks # <<>>
         /\ acks[1] = [op |-> "stored", press |-> press] /\ Head(acks) = acks[1]
<1> USE DEF BaseInv, CarefulInv
<1>1. acks # <<>> /\ Head(acks).op = "stored"
  BY DEF EntryStored, FirstAck
<1>2. Head(acks) = acks[1] /\ 1 \in 1..Len(acks)
  BY <1>1, AckTaken DEF TypeOK
<1>3. ~Naming(acks[1]) /\ acks[1] # UpdatedAck
  BY <1>1, <1>2 DEF Naming, UpdatedAck
<1>4. saving
  BY <1>1, <1>2, <1>3 DEF RestInv, LoadingInv, DeletionsAlone
<1>5. acks[1] = [op |-> "stored", press |-> press]
  BY <1>2, <1>3, <1>4 DEF SavingInv
<1>6. Uploads
  BY <1>2, <1>3, <1>4 DEF SavingInv, Asking, Updating
<1> QED
  BY <1>1, <1>2, <1>4, <1>5, <1>6

\* What the save looks like without its first completion handler.
LEMMA StoredTail ==
  ASSUME BaseInv, CarefulInv, EntryStored
  PROVE  /\ acks' = Tail(acks) /\ Len(acks') = Len(acks) - 1 /\ Len(acks) > 0
         /\ \A i \in 1..Len(acks') : i + 1 \in 1..Len(acks) /\ acks'[i] = acks[i + 1]
                                     /\ acks'[i].op \notin {"tripIDs", "updated"}
         /\ Named' = Named
         /\ Named = 1 => Len(acks') > 0
         /\ Named = 1 /\ Len(acks') = 1 => Naming(acks'[1])
<1> USE DEF BaseInv, CarefulInv
<1>1. /\ saving /\ Uploads /\ acks # <<>> /\ acks[1] = [op |-> "stored", press |-> press]
      /\ acks' = Tail(acks)
  BY StoredAck DEF EntryStored
<1>2. /\ Len(acks') = Len(acks) - 1 /\ Len(acks) \in Nat \ {0}
      /\ \A i \in 1..Len(acks') : i + 1 \in 1..Len(acks) /\ acks'[i] = acks[i + 1]
  BY <1>1, AckTaken DEF TypeOK
<1>3. ~Naming(acks[1])
  BY <1>1 DEF Naming
<1>4. ASSUME NEW i \in 1..Len(acks')
      PROVE  acks'[i].op \notin {"tripIDs", "updated"}
  <2>1. i + 1 \in 1..Len(acks) /\ i + 1 # 1 /\ acks'[i] = acks[i + 1]
    BY <1>2
  <2>2. acks[i + 1].op # "updated"
    BY <1>1, <2>1 DEF Uploads
  <2>3. acks[i + 1].op = "tripIDs" => i + 1 = 1
    <3>1. acks[i + 1] = [op |-> "stored", press |-> press] => acks[i + 1].op = "stored"
      OBVIOUS
    <3>2. acks[i + 1] = UpdatedAck => acks[i + 1].op = "updated"
      BY DEF UpdatedAck
    <3>3. \/ acks[i + 1] = [op |-> "stored", press |-> press]
          \/ acks[i + 1].op = "tripIDs" => i + 1 = 1
          \/ acks[i + 1] = UpdatedAck
      BY <1>1, <2>1 DEF SavingInv
    <3> QED
      BY <3>1, <3>2, <3>3
  <2> QED
    BY <2>1, <2>2, <2>3
<1>5. (\E i \in 1..Len(acks') : Naming(acks'[i])) <=> \E i \in 1..Len(acks) : Naming(acks[i])
  <2>1. ASSUME NEW i \in 1..Len(acks), Naming(acks[i])
        PROVE  \E j \in 1..Len(acks') : Naming(acks'[j])
    <3>1. i # 1
      BY <1>3, <2>1
    <3>2. i - 1 \in 1..Len(acks') /\ (i - 1) + 1 = i
      BY <1>2, <3>1
    <3>3. acks'[i - 1] = acks[i]
      BY <1>2, <3>2
    <3> QED
      BY <2>1, <3>2, <3>3
  <2> QED
    BY <1>2, <2>1
<1>6. Named' = Named
  BY <1>5 DEF Named
<1>7. Named = 1 => \E i \in 1..Len(acks') : Naming(acks'[i])
  BY <1>5 DEF Named
<1>8. Named = 1 => Len(acks') > 0
  BY <1>2, <1>7
<1>9. Named = 1 /\ Len(acks') = 1 => Naming(acks'[1])
  BY <1>7
<1> QED
  BY <1>1, <1>2, <1>4, <1>6, <1>8, <1>9

\* A callback that leaves the entries of every trip, the owner of every entry and the
\* lists of the editor as they are.
Orderly ==
  /\ ~Loading /\ ~Deleting
  /\ \A q \in Trips : /\ trips'[q] # NoDoc <=> trips[q] # NoDoc
                      /\ trips[q] # NoDoc => trips'[q].entries = trips[q].entries
  /\ \A e \in Entries : /\ Stored(e)' <=> Stored(e)
                        /\ Stored(e) => docs'[e].tripID = docs[e].tripID
  /\ \A c \in calls' : c \in calls \/ c.op = "user"
  /\ \A s \in Presses : s >= presses => counts'[s] = counts[s]
  /\ vc'.phase = vc.phase /\ vc'.list = vc.list /\ vc'.map = vc.map /\ vc'.deleted = vc.deleted
  /\ vc.phase = "open" => vc'.tripID = vc.tripID
  /\ saving => Uploading' = Uploading
  /\ UNCHANGED <<ann, load, presses, used, saving, failed, crashed, torn>>
  /\ lost'.entries = lost.entries

LEMMA OrderlyKeeps ==
  ASSUME BaseInv, CarefulInv, Orderly
  PROVE  /\ UsedInv' /\ ListsInv' /\ OwnersInv' /\ DeletedInv' /\ LoadingInv' /\ LoadedInv'
         /\ WholeInv' /\ GoneInv' /\ ~Loading' /\ ~Deleting'
<1> USE DEF BaseInv, CarefulInv
<1>1. /\ ~Loading /\ ~Deleting
      /\ \A c \in calls' : c \in calls \/ c.op = "user"
      /\ vc'.phase = vc.phase /\ vc'.list = vc.list /\ vc'.map = vc.map /\ vc'.deleted = vc.deleted
      /\ vc.phase = "open" => vc'.tripID = vc.tripID
      /\ UNCHANGED <<ann, load, presses, used, saving, failed, crashed, torn>>
      /\ lost'.entries = lost.entries
  BY DEF Orderly
<1>2. \A q \in Trips : /\ trips'[q] # NoDoc <=> trips[q] # NoDoc
                       /\ trips[q] # NoDoc => trips'[q].entries = trips[q].entries
  BY DEF Orderly
<1>3. \A e \in Entries : /\ Stored(e)' <=> Stored(e)
                         /\ Stored(e) => docs'[e].tripID = docs[e].tripID
  BY DEF Orderly
<1>4. \A s \in Presses : s >= presses => counts'[s] = counts[s]
  BY DEF Orderly
<1>5. saving => Uploading' = Uploading
  BY DEF Orderly
<1>6. \A q \in Trips : \A e : Lists(q, e)' <=> Lists(q, e)
  BY <1>2 DEF Lists
<1>7. ~Loading' /\ ~Deleting'
  BY <1>1 DEF Loading, Deleting
<1>8. Handled' = Handled /\ Handled \subseteq Entries
  BY <1>1, HandledEntries DEF Handled
<1>9. UsedInv'
  BY <1>1, <1>2, <1>3, <1>4, <1>6, <1>8 DEF UsedInv
<1>10. ListsInv'
  <2>1. \A c \in calls' : c.op # "fetchEntry"
    BY <1>7 DEF Deleting
  <2> QED
    BY <1>1, <1>2, <1>6, <1>8, <2>1 DEF ListsInv
<1>11. OwnersInv'
  <2>1. ToSet(vc.list) \cup vc.map \subseteq Entries
    BY <1>8 DEF Handled
  <2> QED
    BY <1>1, <1>3, <1>6, <2>1 DEF OwnersInv
<1>12. DeletedInv'
  BY <1>1, <1>3, EditorFields DEF DeletedInv
<1>13. LoadingInv' /\ LoadedInv'
  BY <1>7 DEF LoadingInv, LoadedInv
<1>14. WholeInv'
  <2> SUFFICES ASSUME ~failed, ~torn
               PROVE  WholeInv'
    BY <1>1 DEF WholeInv
  <2>1. \A q \in Trips, e \in Entries : Lists(q, e)' => Stored(e)' \/ (saving' /\ e \in Uploading')
    BY <1>1, <1>3, <1>5, <1>6 DEF WholeInv
  <2>2. \A q \in Trips, e \in Entries :
          trips'[q] # NoDoc /\ Stored(e)' /\ docs'[e].tripID = q => Lists(q, e)'
    BY <1>2, <1>3, <1>6 DEF WholeInv
  <2>3. vc'.map = ToSet(vc'.list)
    BY <1>1 DEF WholeInv
  <2>4. ASSUME vc.phase = "open", vc.tripID # NoTrip
        PROVE  ToSet(trips'[vc.tripID].entries) \subseteq ToSet(vc.list) \cup vc.deleted
    <3>1. vc.tripID \in Trips /\ trips[vc.tripID] # NoDoc
      BY <2>4, EditorFields DEF NamesInv
    <3> QED
      BY <1>1, <1>2, <2>4, <3>1 DEF WholeInv
  <2> QED
    BY <1>1, <2>1, <2>2, <2>3, <2>4 DEF WholeInv
<1>15. GoneInv'
  BY <1>1, <1>2, <1>3 DEF GoneInv, Deleting
<1> QED
  BY <1>7, <1>9, <1>10, <1>11, <1>12, <1>13, <1>14, <1>15

\* While a save is under way it writes to the entries in the hands of the editor only.
LEMMA OrderlyNumbered ==
  ASSUME BaseInv, CarefulInv, Orderly, saving,
         \A e \in Entries : e \notin Handled => docs'[e] = docs[e]
  PROVE  NumberedInv'
<1> USE DEF BaseInv
<1>1. vc.phase = "open"
  BY SavingFacts
<1>2. /\ vc'.tripID = vc.tripID /\ UNCHANGED <<crashed, saving>>
      /\ \A q \in Trips : /\ trips'[q] # NoDoc <=> trips[q] # NoDoc
                          /\ trips[q] # NoDoc => trips'[q].entries = trips[q].entries
  BY <1>1 DEF Orderly
<1> SUFFICES ASSUME ~crashed, NEW q \in Trips, trips[q] # NoDoc, q # vc.tripID
             PROVE  Numbered(q)'
  BY <1>2 DEF NumberedInv
<1>3. Numbered(q)
  BY SavingNumbered
<1> QED
  BY <1>1, <1>2, <1>3, OthersNumbered

LEMMA EntryStoredKeeps ==
  ASSUME BaseInv, CarefulInv, TypeOK', EntryStored
  PROVE  CarefulInv'
<1> USE DEF BaseInv, CarefulInv
<1>1. /\ saving /\ Uploads /\ acks # <<>>
      /\ acks[1] = [op |-> "stored", press |-> press] /\ Head(acks) = acks[1]
  BY StoredAck
<1>2. /\ vc.phase = "open" /\ vc.list # <<>> /\ ~Loading /\ ~Deleting
      /\ counts[press] \in Nat /\ press \in Presses /\ presses \in Nat
      /\ Cardinality(Uploading) \in Nat /\ IsFiniteSet(Uploading)
      /\ Named \in {0, 1} /\ Len(acks) \in Nat /\ Len(vc.list) \in Nat
  BY <1>1, SavingFacts
<1>3. /\ acks' = Tail(acks) /\ Len(acks') = Len(acks) - 1 /\ Len(acks) > 0
      /\ \A i \in 1..Len(acks') : i + 1 \in 1..Len(acks) /\ acks'[i] = acks[i + 1]
                                  /\ acks'[i].op \notin {"tripIDs", "updated"}
      /\ Named' = Named
      /\ Named = 1 => Len(acks') > 0
      /\ Named = 1 /\ Len(acks') = 1 => Naming(acks'[1])
  BY StoredTail
<1>4. PICK n : n = counts[press] + 1
  OBVIOUS
<1>5. Head(acks).press = press
  BY <1>1
<1>6. /\ counts' = [counts EXCEPT ![press] = n]
      /\ calls' = IF n = Len(vc.list) THEN calls \cup {UserCall} ELSE calls
      /\ UNCHANGED <<trips, docs, vc, ann, load, presses, failed, crashed, torn, lost, used, saving>>
  BY <1>4, <1>5 DEF EntryStored, EnoughStored, UserCall, past, store
<1>7. counts'[press] = n /\ \A s \in Presses : s # press => counts'[s] = counts[s]
  BY <1>2, <1>6 DEF TypeOK
<1>8. /\ press' = press /\ UserCall' = UserCall /\ UpdatedAck' = UpdatedAck
      /\ \A x \in Entries : UploadOf(x)' = UploadOf(x)
  BY <1>6 DEF press, UserCall, UpdatedAck, UploadOf
<1>9. UserCall.op = "user" /\ \A x \in Entries : UploadOf(x).op = "upload"
  BY DEF UserCall, UploadOf
<1>10. Uploading' = Uploading
  <2>1. \A x \in Entries : UploadOf(x) \in calls' <=> UploadOf(x) \in calls
    BY <1>6, <1>9
  <2>2. \A x \in Entries : (UploadOf(x) \in calls)' <=> UploadOf(x) \in calls'
    BY <1>8
  <2> QED
    BY <2>1, <2>2 DEF Uploading
<1>11. Orderly
  <2>1. \A s \in Presses : s >= presses => counts'[s] = counts[s]
    <3>1. \A s \in Presses : s >= presses => s # press
      BY <1>2 DEF press, Presses
    <3> QED
      BY <1>7, <3>1
  <2>2. \A c \in calls' : c \in calls \/ c.op = "user"
    BY <1>6, <1>9
  <2> QED
    BY <1>2, <1>6, <1>10, <2>1, <2>2 DEF Orderly, Stored
<1>12. counts[press] + Cardinality(Uploading) + Len(acks) - Named = Len(vc.list)
       /\ counts[press] < Len(vc.list) /\ UserCall \notin calls
       /\ \A i \in 1..Len(acks) : acks[i].op # "updated"
  BY <1>1 DEF Uploads
<1>13. Uploads' \/ Asking'
  <2>1. CASE n = Len(vc.list)
    <3>1. Cardinality(Uploading) + Len(acks') = Named
      BY <1>2, <1>3, <1>4, <1>12, <2>1
    <3>2. Cardinality(Uploading) = 0 /\ (Len(acks') = 0 \/ (Named = 1 /\ Len(acks') = 1))
      <4>1. PICK c \in Nat : c = Cardinality(Uploading)
        BY <1>2
      <4>2. PICK l \in Nat : l = Len(acks')
        <5>1. Len(acks') \in Nat
          BY DEF TypeOK
        <5> QED
          BY <5>1
      <4>3. PICK n1 \in {0, 1} : n1 = Named
        BY <1>2
      <4>4. c + l = n1 /\ (n1 = 1 => l > 0)
        BY <1>3, <3>1, <4>1, <4>2, <4>3
      <4>5. c = 0 /\ (l = 0 \/ (n1 = 1 /\ l = 1))
        BY <4>4
      <4> QED
        BY <4>1, <4>2, <4>3, <4>5
    <3>3. Uploading = {}
      BY <1>2, <3>2, FS_EmptySet
    <3>4. \A i \in 1..Len(acks') : Naming(acks'[i])
      BY <1>3, <3>2
    <3>5. UserCall \in calls'
      BY <1>6, <2>1
    <3> QED
      BY <1>8, <1>10, <3>3, <3>4, <3>5 DEF Asking
  <2>2. CASE n # Len(vc.list)
    <3>1. calls' = calls /\ n < Len(vc.list) /\ n \in Nat
      BY <1>2, <1>4, <1>6, <1>12, <2>2
    <3>2. n + Cardinality(Uploading) + Len(acks') - Named = Len(vc.list)
      BY <1>2, <1>3, <1>4, <1>12
    <3>3. \A i \in 1..Len(acks') : acks'[i].op # "updated"
      BY <1>3
    <3> QED
      BY <1>3, <1>6, <1>7, <1>8, <1>10, <1>12, <3>1, <3>2, <3>3 DEF Uploads
  <2> QED
    BY <2>1, <2>2
<1>14. SavingInv'
  <2>1. ASSUME NEW c \in calls'
        PROVE  \/ c.op = "cover"
               \/ c.op = "upload" /\ c = UploadOf(c.entry)' /\ c.entry \in ToSet(vc.list)
               \/ c = UserCall'
    BY <1>1, <1>6, <1>8 DEF SavingInv, UploadOf
  <2>2. ASSUME NEW i \in 1..Len(acks')
        PROVE  \/ acks'[i] = [op |-> "stored", press |-> press]
               \/ Naming(acks'[i]) /\ acks'[i].trip = vc.tripID
                  /\ (acks'[i].op = "tripIDs" => i = 1 /\ acks'[i].ids = vc.list)
               \/ acks'[i] = UpdatedAck'
    <3>1. /\ i + 1 \in 1..Len(acks) /\ acks'[i] = acks[i + 1]
          /\ acks'[i].op \notin {"tripIDs", "updated"}
      BY <1>3
    <3> QED
      BY <1>1, <1>8, <3>1 DEF SavingInv
  <2>3. ASSUME NEW i \in 1..Len(acks'), NEW j \in 1..Len(acks'), Naming(acks'[i]), Naming(acks'[j])
        PROVE  i = j
    <3>1. /\ i + 1 \in 1..Len(acks) /\ acks'[i] = acks[i + 1]
          /\ j + 1 \in 1..Len(acks) /\ acks'[j] = acks[j + 1]
      BY <1>3
    <3>2. i + 1 = j + 1
      BY <1>1, <2>3, <3>1 DEF SavingInv
    <3> QED
      BY <3>2
  <2>4. \A x \in ToSet(vc.list) : Stored(x)' \/ x \in Uploading'
    BY <1>1, <1>6, <1>10 DEF SavingInv, Stored
  <2>5. vc.tripID # NoTrip /\ ~failed /\ ~torn => trips[vc.tripID].entries = vc.list
    BY <1>1 DEF SavingInv
  <2>6. vc.phase = "open" /\ vc.list # <<>> /\ presses > 0
    BY <1>1 DEF SavingInv
  <2> QED
    BY <1>6, <1>8, <1>13, <2>1, <2>2, <2>3, <2>4, <2>5, <2>6 DEF SavingInv
<1>15. NumberedInv'
  BY <1>1, <1>6, <1>11, OrderlyNumbered
<1>16. RestInv'
  BY <1>1, <1>6 DEF RestInv
<1> QED
  BY <1>11, <1>14, <1>15, <1>16, OrderlyKeeps

\* The upload of a cover is through, whatever came of it.
CoverEnds(k) ==
  /\ k.op = "cover" /\ calls' = calls \ {k} /\ lost'.entries = lost.entries
  /\ \A q \in Trips : /\ trips'[q] # NoDoc <=> trips[q] # NoDoc
                      /\ trips[q] # NoDoc => trips'[q].entries = trips[q].entries
  /\ UNCHANGED <<docs, vc, ann, load, counts, acks, presses, failed, crashed, torn, used, saving>>

LEMMA CoverEndsKeeps ==
  ASSUME BaseInv, CarefulInv, TypeOK', NEW k \in calls, CoverEnds(k)
  PROVE  CarefulInv'
<1> USE DEF BaseInv, CarefulInv
<1>1. k.op = "cover"
  BY DEF CoverEnds
<1>2. ~Loading /\ ~Deleting /\ ~Settled
  BY <1>1 DEF LoadingInv, DeletionsAlone, Settled
<1>3. /\ calls' = calls \ {k} /\ lost'.entries = lost.entries
      /\ UNCHANGED <<docs, vc, ann, load, counts, acks, presses, failed, crashed, torn, used, saving>>
  BY DEF CoverEnds
<1>4. \A q \in Trips : /\ trips'[q] # NoDoc <=> trips[q] # NoDoc
                       /\ trips[q] # NoDoc => trips'[q].entries = trips[q].entries
  BY DEF CoverEnds
<1>5. /\ press' = press /\ UserCall' = UserCall /\ UpdatedAck' = UpdatedAck /\ Named' = Named
      /\ \A x \in Entries : UploadOf(x)' = UploadOf(x)
  BY <1>3 DEF press, UserCall, UpdatedAck, UploadOf, Named
<1>6. UserCall # k /\ \A x \in Entries : UploadOf(x) # k
  BY <1>1 DEF UserCall, UploadOf
<1>7. Uploading' = Uploading
  <2>1. \A x \in Entries : (UploadOf(x) \in calls)' <=> UploadOf(x) \in calls
    BY <1>3, <1>5, <1>6
  <2> QED
    BY <2>1 DEF Uploading
<1>8. Orderly
  BY <1>2, <1>3, <1>4, <1>7 DEF Orderly, Stored
<1>9. \A i \in 1..Len(acks) : acks[i].op # "stored" =>
        trips'[acks[i].trip].entries = trips[acks[i].trip].entries
  <2> SUFFICES ASSUME NEW i \in 1..Len(acks), acks[i].op # "stored"
               PROVE  trips'[acks[i].trip].entries = trips[acks[i].trip].entries
    OBVIOUS
  <2>1. acks[i] \in Completion
    BY DEF TypeOK
  <2> QED
    BY <1>4, <2>1, AckFields DEF NamesInv
<1>10. RestInv'
  <2> SUFFICES ASSUME ~saving
               PROVE  RestInv'
    BY <1>3 DEF RestInv
  <2>1. ASSUME NEW i \in 1..Len(acks), acks[i].op = "tripIDs"
        PROVE  /\ i = Len(acks)
               /\ acks[i].ids = trips'[acks[i].trip].entries
               /\ \A e \in ToSet(acks[i].ids) : Stored(e) /\ docs[e].tripID = acks[i].trip
    BY <1>2, <1>9, <2>1 DEF RestInv
  <2>2. \A e : Stored(e)' <=> Stored(e)
    BY <1>3 DEF Stored
  <2>3. vc.phase # "open" /\ \A i \in 1..Len(acks) : Naming(acks[i])
    BY <1>2 DEF RestInv
  <2>4. \A c \in calls' : c.op = "cover"
    BY <1>2, <1>3 DEF RestInv
  <2> QED
    BY <1>3, <2>1, <2>2, <2>3, <2>4 DEF RestInv
<1>11. SavingInv'
  <2> SUFFICES ASSUME saving
               PROVE  SavingInv'
    BY <1>3 DEF SavingInv
  <2>1. vc.tripID # NoTrip => trips'[vc.tripID].entries = trips[vc.tripID].entries
    BY <1>4, SavingFacts
  <2>2. \A c \in calls' : \/ c.op = "cover"
                          \/ c.op = "upload" /\ c = UploadOf(c.entry)' /\ c.entry \in ToSet(vc.list)
                          \/ c = UserCall'
    BY <1>3, <1>5 DEF SavingInv, UploadOf
  <2>3. UserCall' \in calls' <=> UserCall \in calls
    BY <1>3, <1>5, <1>6
  <2>4. Uploads' <=> Uploads
    BY <1>3, <1>5, <1>7, <2>3 DEF Uploads
  <2>5. Asking' <=> Asking
    BY <1>3, <1>7, <2>3 DEF Asking
  <2>6. Updating => Updating'
    BY <1>3, <1>5, <1>7, <2>1, <2>3 DEF Updating
  <2>7. \A x \in ToSet(vc.list) : Stored(x)' \/ x \in Uploading'
    BY <1>3, <1>7 DEF SavingInv, Stored
  <2>8. /\ vc.phase = "open" /\ vc.list # <<>> /\ presses > 0
        /\ \A i \in 1..Len(acks) :
             \/ acks[i] = [op |-> "stored", press |-> press]
             \/ Naming(acks[i]) /\ acks[i].trip = vc.tripID
                /\ (acks[i].op = "tripIDs" => i = 1 /\ acks[i].ids = vc.list)
             \/ acks[i] = UpdatedAck
        /\ \A i, j \in 1..Len(acks) : Naming(acks[i]) /\ Naming(acks[j]) => i = j
        /\ Uploads \/ Asking \/ Updating
        /\ vc.tripID # NoTrip /\ ~failed /\ ~torn => trips[vc.tripID].entries = vc.list
    BY DEF SavingInv
  <2> QED
    BY <1>3, <1>5, <2>1, <2>2, <2>4, <2>5, <2>6, <2>7, <2>8 DEF SavingInv
<1>12. NumberedInv'
  <2> SUFFICES ASSUME ~crashed, NEW q \in Trips, trips[q] # NoDoc
               PROVE  \/ Numbered(q)'
                      \/ saving /\ vc.tripID = q
                      \/ ~saving /\ Naming1(q)'
    BY <1>3, <1>4 DEF NumberedInv
  <2>1. Numbered(q) => Numbered(q)'
    BY <1>3, <1>4 DEF Numbered
  <2>2. Naming1(q) => Naming1(q)'
    BY <1>3 DEF Naming1
  <2> QED
    BY <2>1, <2>2 DEF NumberedInv
<1> QED
  BY <1>8, <1>10, <1>11, <1>12, OrderlyKeeps

LEMMA CoverUploadedKeeps ==
  ASSUME BaseInv, CarefulInv, TypeOK', NEW k \in calls, CoverUploaded(k)
  PROVE  CarefulInv'
<1>1. k.op = "cover" /\ k.trip \in Trips
  BY CallFields DEF CoverUploaded, BaseInv, TypeOK
<1>2. \A q \in Trips : /\ trips'[q] # NoDoc <=> trips[q] # NoDoc
                       /\ trips[q] # NoDoc => trips'[q].entries = trips[q].entries
  <2>1. trips' = TripsCovered(k.trip)
    BY DEF CoverUploaded, TripsCovered
  <2> QED
    BY <1>1, <2>1, CoverWritten DEF BaseInv
<1>3. CoverEnds(k)
  BY <1>1, <1>2 DEF CoverEnds, CoverUploaded, past
<1> QED
  BY <1>3, CoverEndsKeeps

\* The completion of an update of the entries of a trip, while a save is under way and
\* when none is.
LEMMA NamingHead ==
  ASSUME BaseInv, CarefulInv, acks # <<>>, Naming(Head(acks))
  PROVE  /\ ~Loading /\ ~Deleting /\ Head(acks) = acks[1] /\ Len(acks) \in Nat \ {0}
         /\ acks[1] \in Completion /\ acks[1].trip \in Trips /\ trips[acks[1].trip] # NoDoc
         /\ saving => /\ acks[1].trip = vc.tripID /\ Named = 1
                      /\ acks[1].op = "tripIDs" => acks[1].ids = vc.list
                      /\ \A i \in 2..Len(acks) :
                           /\ ~Naming(acks[i])
                           /\ acks[i] = [op |-> "stored", press |-> press] \/ acks[i] = UpdatedAck
         /\ ~saving => /\ vc.phase # "open"
                       /\ acks[1].op = "tripIDs" =>
                            /\ Len(acks) = 1
                            /\ acks[1].ids = trips[acks[1].trip].entries
                            /\ \A e \in ToSet(acks[1].ids) :
                                 Stored(e) /\ docs[e].tripID = acks[1].trip
<1> USE DEF BaseInv, CarefulInv
<1>1. ~Loading /\ ~Deleting
  BY DEF LoadingInv, DeletionsAlone
<1>2. Head(acks) = acks[1] /\ Len(acks) \in Nat \ {0} /\ acks[1] \in Completion /\ 1 \in 1..Len(acks)
  BY AckTaken DEF TypeOK
<1>3. acks[1].op # "stored" /\ acks[1] # UpdatedAck /\ acks[1] # [op |-> "stored", press |-> press]
  BY <1>2 DEF Naming, UpdatedAck
<1>4. acks[1].trip \in Trips /\ trips[acks[1].trip] # NoDoc
  BY <1>2, <1>3, AckFields DEF NamesInv
<1>5. ASSUME saving
      PROVE  /\ acks[1].trip = vc.tripID /\ Named = 1
             /\ acks[1].op = "tripIDs" => acks[1].ids = vc.list
             /\ \A i \in 2..Len(acks) :
                  /\ ~Naming(acks[i])
                  /\ acks[i] = [op |-> "stored", press |-> press] \/ acks[i] = UpdatedAck
  <2>1. Named = 1
    BY <1>2 DEF Named
  <2>2. ASSUME NEW i \in 2..Len(acks)
        PROVE  /\ ~Naming(acks[i])
               /\ acks[i] = [op |-> "stored", press |-> press] \/ acks[i] = UpdatedAck
    <3>1. i \in 1..Len(acks) /\ i # 1
      OBVIOUS
    <3>2. ~Naming(acks[i])
      BY <1>2, <1>5, <3>1 DEF SavingInv
    <3> QED
      BY <1>5, <3>1, <3>2 DEF SavingInv
  <2> QED
    BY <1>2, <1>3, <1>5, <2>1, <2>2 DEF SavingInv
<1>6. ASSUME ~saving
      PROVE  /\ vc.phase # "open"
             /\ acks[1].op = "tripIDs" =>
                  /\ Len(acks) = 1
                  /\ acks[1].ids = trips[acks[1].trip].entries
                  /\ \A e \in ToSet(acks[1].ids) : Stored(e) /\ docs[e].tripID = acks[1].trip
  <2>1. ~Settled
    BY DEF Settled
  <2> QED
    BY <1>1, <1>2, <1>6, <2>1 DEF RestInv
<1> QED
  BY <1>1, <1>2, <1>4, <1>5, <1>6

LEMMA OrdersStoredKeeps ==
  ASSUME BaseInv, CarefulInv, TypeOK', OrdersStored
  PROVE  CarefulInv'
<1> USE DEF BaseInv, CarefulInv
<1>1. acks # <<>> /\ Head(acks).op = "orders" /\ Naming(Head(acks)) /\ acks' = Tail(acks)
      /\ UNCHANGED <<trips, docs, ann, load, counts, calls, presses, failed, crashed, torn, lost, used, saving>>
  BY DEF OrdersStored, FirstAck, Naming, past, store
<1>2. /\ ~Loading /\ ~Deleting /\ Head(acks) = acks[1] /\ Len(acks) \in Nat \ {0}
      /\ acks[1].trip \in Trips /\ acks[1].op = "orders" /\ Naming(acks[1])
      /\ saving => /\ acks[1].trip = vc.tripID /\ Named = 1
                   /\ \A i \in 2..Len(acks) :
                        /\ ~Naming(acks[i])
                        /\ acks[i] = [op |-> "stored", press |-> press] \/ acks[i] = UpdatedAck
      /\ ~saving => vc.phase # "open"
  BY <1>1, NamingHead
<1>3. /\ Len(acks') = Len(acks) - 1
      /\ \A i \in 1..Len(acks') : i + 1 \in 1..Len(acks) /\ acks'[i] = acks[i + 1]
  BY <1>1, AckTaken DEF TypeOK
<1>4. /\ vc'.phase = vc.phase /\ vc'.list = vc.list /\ vc'.map = vc.map /\ vc'.deleted = vc.deleted
      /\ vc'.tripID \in {vc.tripID, acks[1].trip}
  BY <1>2 DEF OrdersStored, TypeOK, Editor
<1>5. /\ vc.phase = "open" => vc'.tripID = vc.tripID
      /\ saving => vc'.tripID = vc.tripID
  BY <1>2, <1>4
<1>6. \A x \in Entries : UploadOf(x)' = UploadOf(x)
  BY <1>1 DEF UploadOf, press
<1>7. Uploading' = Uploading
  BY <1>1, <1>6 DEF Uploading
<1>8. Orderly
  BY <1>1, <1>2, <1>4, <1>5, <1>7 DEF Orderly, Stored
<1>9. RestInv'
  <2> SUFFICES ASSUME ~saving
               PROVE  RestInv'
    BY <1>1 DEF RestInv
  <2>1. ASSUME NEW i \in 1..Len(acks')
        PROVE  /\ Naming(acks'[i])
               /\ acks'[i].op = "tripIDs" =>
                    /\ i = Len(acks')
                    /\ acks'[i].ids = trips[acks'[i].trip].entries
                    /\ \A e \in ToSet(acks'[i].ids) :
                         Stored(e) /\ docs[e].tripID = acks'[i].trip
    <3>1. i + 1 \in 1..Len(acks) /\ acks'[i] = acks[i + 1]
      BY <1>3
    <3> DEFINE m == i + 1
    <3>2. m = Len(acks) => i = Len(acks')
      BY <1>2, <1>3
    <3>3. m \in 1..Len(acks) /\ acks'[i] = acks[m]
      BY <3>1
    <3> HIDE DEF m
    <3>4. /\ Naming(acks[m])
          /\ acks[m].op = "tripIDs" =>
                    /\ m = Len(acks)
                    /\ acks[m].ids = trips[acks[m].trip].entries
                    /\ \A e \in ToSet(acks[m].ids) :
                         Stored(e) /\ docs[e].tripID = acks[m].trip
      BY <1>2, <3>3 DEF RestInv
    <3> QED
      BY <3>2, <3>3, <3>4
  <2>2. \A e : Stored(e)' <=> Stored(e)
    BY <1>1 DEF Stored
  <2>3. \A c \in calls' : c.op = "cover"
    BY <1>1, <1>2 DEF RestInv
  <2> QED
    BY <1>1, <1>2, <1>4, <2>1, <2>2, <2>3 DEF RestInv
<1>10. SavingInv'
  <2> SUFFICES ASSUME saving
               PROVE  SavingInv'
    BY <1>1 DEF SavingInv
  <2>1. press' = press /\ UserCall' = UserCall /\ UpdatedAck' = UpdatedAck
    BY <1>1, <1>4, <1>5 DEF press, UserCall, UpdatedAck
  <2>2. ASSUME NEW i \in 1..Len(acks')
        PROVE  /\ i + 1 \in 1..Len(acks) /\ acks'[i] = acks[i + 1]
               /\ ~Naming(acks'[i])
               /\ acks'[i] = [op |-> "stored", press |-> press] \/ acks'[i] = UpdatedAck
    <3>1. i + 1 \in 2..Len(acks) /\ i + 1 \in 1..Len(acks) /\ acks'[i] = acks[i + 1]
      BY <1>2, <1>3
    <3> QED
      BY <1>2, <3>1
  <2>3. Named' = 0
    BY <2>2 DEF Named
  <2>4. Uploads => Uploads'
    <3>1. Len(acks') - 0 = Len(acks) - Named
      BY <1>2, <1>3
    <3>2. SUFFICES ASSUME Uploads
                   PROVE  Uploads'
      OBVIOUS
    <3>3. /\ UserCall' \notin calls'
          /\ \A i \in 1..Len(acks') : acks'[i].op # "updated"
      BY <1>1, <2>1, <2>2, <3>2 DEF Uploads
    <3>4. counts[press] + Cardinality(Uploading) + Len(acks') - 0 = Len(vc.list)
          /\ counts[press] < Len(vc.list)
      <4>1. counts[press] \in Nat /\ Cardinality(Uploading) \in Nat
        BY SavingFacts
      <4>2. counts[press] + Cardinality(Uploading) + Len(acks) - Named = Len(vc.list)
            /\ counts[press] < Len(vc.list)
        BY <3>2 DEF Uploads
      <4> QED
        BY <1>2, <1>3, <4>1, <4>2
    <3> QED
      BY <1>1, <1>4, <1>7, <2>1, <2>3, <3>3, <3>4 DEF Uploads
  <2>5. Asking => Asking'
    <3> SUFFICES ASSUME Asking
                 PROVE  Asking'
      OBVIOUS
    <3>1. \A i \in 1..Len(acks') : Naming(acks'[i])
      BY <1>3 DEF Asking
    <3> QED
      BY <1>1, <1>7, <2>1, <3>1 DEF Asking
  <2>6. Updating => Updating'
    <3> SUFFICES ASSUME Updating
                 PROVE  Updating'
      OBVIOUS
    <3>1. PICK j \in 1..Len(acks) :
            acks[j] = UpdatedAck /\ \A i \in 1..Len(acks) : i # j => Naming(acks[i])
      BY DEF Updating
    <3>2. j # 1
      BY <1>2, <3>1 DEF UpdatedAck
    <3>3. j - 1 \in 1..Len(acks') /\ (j - 1) + 1 = j
      BY <1>2, <1>3, <3>2
    <3>4. acks'[j - 1] = UpdatedAck
      BY <1>3, <3>1, <3>3
    <3>5. \A i \in 1..Len(acks') : i # j - 1 => Naming(acks'[i])
      BY <1>3, <3>1, <3>3
    <3>6. \E m \in 1..Len(acks') :
            /\ acks'[m] = UpdatedAck
            /\ \A i \in 1..Len(acks') : m # i => Naming(acks'[i])
      BY <3>3, <3>4, <3>5
    <3> QED
      BY <1>1, <1>4, <1>5, <1>7, <2>1, <3>6 DEF Updating
  <2>7. \A x \in ToSet(vc.list) : Stored(x)' \/ x \in Uploading'
    BY <1>1, <1>7 DEF SavingInv, Stored
  <2>8. \A c \in calls' : \/ c.op = "cover"
                          \/ c.op = "upload" /\ c = UploadOf(c.entry)' /\ c.entry \in ToSet(vc.list)
                          \/ c = UserCall'
    BY <1>1, <2>1 DEF SavingInv, UploadOf
  <2>9. /\ vc.phase = "open" /\ vc.list # <<>> /\ presses > 0 /\ (Uploads \/ Asking \/ Updating)
        /\ vc.tripID # NoTrip /\ ~failed /\ ~torn => trips[vc.tripID].entries = vc.list
    BY DEF SavingInv
  <2> QED
    BY <1>1, <1>4, <1>5, <2>1, <2>2, <2>4, <2>5, <2>6, <2>7, <2>8, <2>9 DEF SavingInv
<1>11. NumberedInv'
  <2>1. CASE saving
    BY <1>1, <1>8, <2>1, OrderlyNumbered
  <2>2. CASE ~saving
    <3> SUFFICES ASSUME ~crashed, NEW q \in Trips, trips[q] # NoDoc
                 PROVE  Numbered(q)' \/ Naming1(q)'
      BY <1>1, <2>2 DEF NumberedInv
    <3>1. Numbered(q) => Numbered(q)'
      BY <1>1 DEF Numbered
    <3>2. ASSUME Naming1(q)
          PROVE  Naming1(q)'
      <4>1. PICK i \in 1..Len(acks) : acks[i].op = "tripIDs" /\ acks[i].trip = q
        BY <3>2 DEF Naming1
      <4>2. i # 1
        BY <1>2, <4>1
      <4>3. i - 1 \in 1..Len(acks') /\ (i - 1) + 1 = i
        BY <1>2, <1>3, <4>2
      <4>4. acks'[i - 1] = acks[i]
        BY <1>3, <4>3
      <4> QED
        BY <4>1, <4>3, <4>4 DEF Naming1
    <3> QED
      BY <2>2, <3>1, <3>2 DEF NumberedInv
  <2> QED
    BY <2>1, <2>2
<1> QED
  BY <1>8, <1>9, <1>10, <1>11, OrderlyKeeps

LEMMA TripIDsStoredKeeps ==
  ASSUME BaseInv, CarefulInv, TypeOK', TripIDsStored
  PROVE  CarefulInv'
<1> USE DEF BaseInv, CarefulInv
<1>1. acks # <<>> /\ Head(acks).op = "tripIDs" /\ Naming(Head(acks))
      /\ UNCHANGED <<trips, vc, ann, load, counts, calls, presses, failed, crashed, torn, lost, used, saving>>
  BY DEF TripIDsStored, FirstAck, Naming, past
<1>2. /\ ~Loading /\ ~Deleting /\ Head(acks) = acks[1] /\ Len(acks) \in Nat \ {0}
      /\ acks[1] \in Completion /\ acks[1].trip \in Trips /\ trips[acks[1].trip] # NoDoc
      /\ acks[1].op = "tripIDs" /\ Naming(acks[1])
      /\ saving => /\ acks[1].trip = vc.tripID /\ Named = 1 /\ acks[1].ids = vc.list
                   /\ \A i \in 2..Len(acks) :
                        /\ ~Naming(acks[i])
                        /\ acks[i] = [op |-> "stored", press |-> press] \/ acks[i] = UpdatedAck
      /\ ~saving => /\ vc.phase # "open" /\ Len(acks) = 1
                    /\ acks[1].ids = trips[acks[1].trip].entries
                    /\ \A e \in ToSet(acks[1].ids) : Stored(e) /\ docs[e].tripID = acks[1].trip
  BY <1>1, NamingHead
<1>3. PICK t \in Trips : t = acks[1].trip
  BY <1>2
<1>4. PICK l \in Seq(Entries) : l = acks[1].ids
  BY <1>2, AckFields
<1>5. PICK b : b = [op |-> "orders", trip |-> t]
  OBVIOUS
<1>6. b \in Completion /\ Naming(b) /\ b.op = "orders" /\ b.trip = t
  BY <1>5, AckMade DEF Naming
<1>7. /\ Len(acks') = Len(acks) /\ acks'[Len(acks)] = b
      /\ \A i \in 1..(Len(acks) - 1) : i + 1 \in 2..Len(acks) /\ acks'[i] = acks[i + 1]
  <2>1. acks' = Append(Tail(acks), b)
    BY <1>2, <1>3, <1>5 DEF TripIDsStored
  <2>2. /\ Tail(acks) \in Seq(Completion) /\ Len(Tail(acks)) = Len(acks) - 1
        /\ \A i \in 1..Len(Tail(acks)) : Tail(acks)[i] = acks[i + 1] /\ i + 1 \in 1..Len(acks)
    BY <1>1, AckTaken DEF TypeOK
  <2>3. /\ Len(acks') = Len(Tail(acks)) + 1
        /\ \A i \in 1..Len(Tail(acks)) : acks'[i] = Tail(acks)[i]
        /\ acks'[Len(Tail(acks)) + 1] = b
    BY <1>6, <2>1, <2>2, AckAppended
  <2> QED
    BY <1>2, <2>2, <2>3
<1>8. /\ \A e \in Entries : docs'[e] # NoDoc <=> Stored(e)
      /\ \A e \in Entries : Stored(e) => docs'[e].tripID = docs[e].tripID
      /\ \A e \in Entries : e \notin ToSet(l) => docs'[e] = docs[e]
      /\ \A i \in 1..Len(l) : Stored(l[i]) /\ Injective(l) => docs'[l[i]].order = i - 1
  <2>1. docs' = OrdersIn(l)
    BY <1>2, <1>4 DEF TripIDsStored, OrdersIn
  <2> QED
    BY <2>1, OrdersWritten
<1>9. \A e : Stored(e)' <=> docs'[e] # NoDoc
  BY DEF Stored
<1>10. \A x \in Entries : UploadOf(x)' = UploadOf(x)
  BY <1>1 DEF UploadOf, press
<1>11. Uploading' = Uploading
  BY <1>1, <1>10 DEF Uploading
<1>12. Orderly
  BY <1>1, <1>2, <1>8, <1>9, <1>11 DEF Orderly
<1>13. RestInv'
  <2> SUFFICES ASSUME ~saving
               PROVE  RestInv'
    BY <1>1 DEF RestInv
  <2>1. Len(acks') = 1 /\ acks'[1] = b
    BY <1>2, <1>7
  <2>2. \A c \in calls' : c.op = "cover"
    BY <1>1, <1>2 DEF RestInv
  <2> QED
    BY <1>1, <1>2, <1>6, <2>1, <2>2 DEF RestInv
<1>14. SavingInv'
  <2> SUFFICES ASSUME saving
               PROVE  SavingInv'
    BY <1>1 DEF SavingInv
  <2>1. press' = press /\ UserCall' = UserCall /\ UpdatedAck' = UpdatedAck
    BY <1>1 DEF press, UserCall, UpdatedAck
  <2>2. ASSUME NEW i \in 1..Len(acks'), i # Len(acks)
        PROVE  /\ i + 1 \in 2..Len(acks) /\ acks'[i] = acks[i + 1] /\ ~Naming(acks'[i])
               /\ acks'[i] = [op |-> "stored", press |-> press] \/ acks'[i] = UpdatedAck
    <3>1. i + 1 \in 2..Len(acks) /\ acks'[i] = acks[i + 1]
      BY <1>2, <1>7, <2>2
    <3> QED
      BY <1>2, <3>1
  <2>3. Len(acks) \in 1..Len(acks')
    BY <1>2, <1>7
  <2>4. Named' = 1
    BY <1>6, <1>7, <2>3 DEF Named
  <2>5. Uploads => Uploads'
    <3> SUFFICES ASSUME Uploads
                 PROVE  Uploads'
      OBVIOUS
    <3>1. ASSUME NEW i \in 1..Len(acks')
          PROVE  acks'[i].op # "updated"
      <4>1. CASE i = Len(acks)
        BY <1>6, <1>7, <4>1
      <4>2. CASE i # Len(acks)
        <5>1. i + 1 \in 1..Len(acks) /\ acks'[i] = acks[i + 1]
          BY <1>2, <2>2, <4>2
        <5> QED
          BY <5>1 DEF Uploads
      <4> QED
        BY <4>1, <4>2
    <3> QED
      BY <1>1, <1>2, <1>7, <1>11, <2>1, <2>4, <3>1 DEF Uploads
  <2>6. Asking => Asking'
    <3> SUFFICES ASSUME Asking
                 PROVE  Asking'
      OBVIOUS
    <3>1. ASSUME NEW i \in 1..Len(acks')
          PROVE  Naming(acks'[i])
      <4>1. CASE i = Len(acks)
        BY <1>6, <1>7, <4>1
      <4>2. CASE i # Len(acks)
        <5>1. i + 1 \in 1..Len(acks) /\ acks'[i] = acks[i + 1]
          BY <1>2, <2>2, <4>2
        <5> QED
          BY <5>1 DEF Asking
      <4> QED
        BY <4>1, <4>2
    <3> QED
      BY <1>1, <1>11, <2>1, <3>1 DEF Asking
  <2>7. Updating => Updating'
    <3> SUFFICES ASSUME Updating
                 PROVE  Updating'
      OBVIOUS
    <3>1. PICK j \in 1..Len(acks) :
            acks[j] = UpdatedAck /\ \A i \in 1..Len(acks) : i # j => Naming(acks[i])
      BY DEF Updating
    <3>2. j # 1
      BY <1>2, <3>1 DEF UpdatedAck
    <3>3. j - 1 \in 1..(Len(acks) - 1) /\ (j - 1) + 1 = j /\ j - 1 \in 1..Len(acks')
      BY <1>2, <1>7, <3>2
    <3>4. acks'[j - 1] = UpdatedAck
      BY <1>7, <3>1, <3>3
    <3>5. ASSUME NEW i \in 1..Len(acks'), i # j - 1
          PROVE  Naming(acks'[i])
      <4>1. CASE i = Len(acks)
        BY <1>6, <1>7, <4>1
      <4>2. CASE i # Len(acks)
        <5>1. i + 1 \in 1..Len(acks) /\ acks'[i] = acks[i + 1] /\ i + 1 # j
          BY <1>2, <2>2, <3>3, <3>5, <4>2
        <5> QED
          BY <3>1, <5>1
      <4> QED
        BY <4>1, <4>2
    <3>6. \E m \in 1..Len(acks') :
            /\ acks'[m] = UpdatedAck
            /\ \A i \in 1..Len(acks') : m # i => Naming(acks'[i])
      BY <3>3, <3>4, <3>5
    <3> QED
      BY <1>1, <1>11, <2>1, <3>6 DEF Updating
  <2>8. ASSUME NEW i \in 1..Len(acks')
        PROVE  \/ acks'[i] = [op |-> "stored", press |-> press]
               \/ Naming(acks'[i]) /\ acks'[i].trip = vc.tripID
                  /\ (acks'[i].op = "tripIDs" => i = 1 /\ acks'[i].ids = vc.list)
               \/ acks'[i] = UpdatedAck
    BY <1>2, <1>3, <1>6, <1>7, <2>2
  <2>9. ASSUME NEW i \in 1..Len(acks'), NEW j \in 1..Len(acks'), Naming(acks'[i]), Naming(acks'[j])
        PROVE  i = j
    BY <2>2, <2>9
  <2>10. \A x \in ToSet(vc.list) : Stored(x)' \/ x \in Uploading'
    <3>1. ToSet(vc.list) \subseteq Entries
      BY SavingFacts
    <3> QED
      BY <1>8, <1>9, <1>11, <3>1 DEF SavingInv
  <2>11. \A c \in calls' : \/ c.op = "cover"
                           \/ c.op = "upload" /\ c = UploadOf(c.entry)' /\ c.entry \in ToSet(vc.list)
                           \/ c = UserCall'
    BY <1>1, <2>1 DEF SavingInv, UploadOf
  <2>12. /\ vc.phase = "open" /\ vc.list # <<>> /\ presses > 0 /\ (Uploads \/ Asking \/ Updating)
         /\ vc.tripID # NoTrip /\ ~failed /\ ~torn => trips[vc.tripID].entries = vc.list
    BY DEF SavingInv
  <2> QED
    BY <1>1, <2>1, <2>5, <2>6, <2>7, <2>8, <2>9, <2>10, <2>11, <2>12 DEF SavingInv
<1>15. NumberedInv'
  <2>1. CASE saving
    <3>1. \A e \in Entries : e \notin Handled => docs'[e] = docs[e]
      BY <1>2, <1>4, <1>8, <2>1 DEF Handled
    <3> QED
      BY <1>12, <2>1, <3>1, OrderlyNumbered
  <2>2. CASE ~saving
    <3> SUFFICES ASSUME ~crashed, NEW q \in Trips, trips[q] # NoDoc
                 PROVE  Numbered(q)'
      BY <1>1, <2>2 DEF NumberedInv
    <3>1. trips[q] \in Trip /\ trips[q].entries \in Seq(Entries)
      BY DEF TypeOK, Trip
    <3>2. l = trips[t].entries /\ \A e \in ToSet(l) : Stored(e) /\ docs[e].tripID = t
      BY <1>2, <1>3, <1>4, <2>2
    <3>3. CASE q = t
      <4>1. Injective(l)
        BY <1>2, <1>3, <3>2 DEF ListsInv
      <4> SUFFICES ASSUME NEW i \in 1..Len(l)
                   PROVE  docs'[l[i]] = [tripID |-> t, order |-> i - 1]
        BY <1>1, <3>2, <3>3 DEF Numbered
      <4>2. l[i] \in Entries /\ l[i] \in ToSet(l)
        BY Members
      <4>3. PICK d : d = docs'[l[i]]
        OBVIOUS
      <4>4. d \in Entry /\ d.tripID = t /\ d.order = i - 1
        BY <1>8, <3>2, <4>1, <4>2, <4>3 DEF TypeOK
      <4> QED
        BY <4>3, <4>4 DEF Entry
    <3>4. CASE q # t
      <4>1. ~Naming1(q)
        <5>1. \A i \in 1..Len(acks) : i = 1
          <6>1. Len(acks) = 1
            BY <1>2, <2>2
          <6> QED
            BY <6>1
        <5> QED
          BY <1>3, <3>4, <5>1 DEF Naming1
      <4>2. Numbered(q)
        BY <2>2, <4>1 DEF NumberedInv
      <4> SUFFICES ASSUME NEW i \in 1..Len(trips[q].entries)
                   PROVE  docs'[trips[q].entries[i]] = [tripID |-> q, order |-> i - 1]
        BY <1>1 DEF Numbered
      <4> DEFINE e == trips[q].entries[i]
      <4>3. e \in Entries /\ Lists(q, e)
        BY <3>1, Members DEF Lists
      <4>4. e \notin ToSet(l)
        BY <1>2, <1>3, <3>2, <3>4, <4>3 DEF ListsInv, Lists
      <4> QED
        BY <1>8, <4>2, <4>3, <4>4 DEF Numbered
    <3> QED
      BY <3>3, <3>4
  <2> QED
    BY <2>1, <2>2
<1> QED
  BY <1>12, <1>13, <1>14, <1>15, OrderlyKeeps

\* A save that ends: its trip is stored and the updates of the entries are under way.
Finished(t) ==
  /\ saving /\ ~saving' /\ vc.tripID \in {NoTrip, t} /\ (vc.tripID = NoTrip => t \notin used)
  /\ trips'[t] # NoDoc /\ trips'[t].entries = vc.list
  /\ \A q \in Trips : q # t => trips'[q] = trips[q]
  /\ \A e \in Entries : /\ Stored(e)' <=> Stored(e)
                        /\ e \in ToSet(vc.list) => Stored(e) /\ docs'[e].tripID = t
                        /\ e \notin ToSet(vc.list) => docs'[e] = docs[e]
  /\ Uploading = {} /\ \A c \in calls' : c.op = "cover"
  /\ \A i \in 1..Len(acks') :
       /\ Naming(acks'[i])
       /\ acks'[i].op = "tripIDs" => i = Len(acks') /\ acks'[i].trip = t /\ acks'[i].ids = vc.list
  /\ Naming1(t)'
  /\ vc'.phase # "open"
  /\ vc'.list = vc.list /\ vc'.map = vc.map /\ vc'.deleted = vc.deleted
  /\ used' = used \cup {t}
  /\ UNCHANGED <<load, counts, presses, failed, crashed, torn, lost>>

LEMMA FinishedKeeps ==
  ASSUME BaseInv, CarefulInv, NEW t \in Trips, Finished(t)
  PROVE  CarefulInv'
<1> USE DEF BaseInv, CarefulInv
<1> DEFINE L == ToSet(vc.list)
<1>1. /\ saving /\ ~saving' /\ vc.tripID \in {NoTrip, t} /\ (vc.tripID = NoTrip => t \notin used)
      /\ trips'[t] # NoDoc /\ trips'[t].entries = vc.list
      /\ \A q \in Trips : q # t => trips'[q] = trips[q]
      /\ Uploading = {} /\ \A c \in calls' : c.op = "cover"
      /\ vc'.phase # "open"
      /\ vc'.list = vc.list /\ vc'.map = vc.map /\ vc'.deleted = vc.deleted
      /\ used' = used \cup {t}
      /\ UNCHANGED <<load, counts, presses, failed, crashed, torn, lost>>
  BY DEF Finished
<1>2. \A e \in Entries : /\ Stored(e)' <=> Stored(e)
                         /\ e \in L => Stored(e) /\ docs'[e].tripID = t
                         /\ e \notin L => docs'[e] = docs[e]
  BY DEF Finished
<1>3. /\ vc.phase = "open" /\ ~Loading /\ ~Deleting
      /\ L \subseteq Entries /\ L \subseteq Handled /\ Handled \subseteq used
  BY <1>1, SavingFacts
<1>4. ~Loading' /\ ~Deleting'
  BY <1>1 DEF Loading, Deleting
<1> HIDE DEF L
<1>5. \A q \in Trips : \A e : Lists(q, e)' <=> IF q = t THEN e \in L ELSE Lists(q, e)
  BY <1>1 DEF Lists, L
<1>6. \A q \in Trips, e \in L : Lists(q, e) => q = t
  BY <1>1, <1>3, OthersApart, TripAssumption
<1>7. UsedInv'
  <2>1. \A e \in Entries : Stored(e)' => e \in used' /\ docs'[e].tripID \in used' \cup {NoTrip}
    BY <1>1, <1>2 DEF UsedInv
  <2>2. \A q \in Trips : trips'[q] # NoDoc => q \in used'
    BY <1>1 DEF UsedInv
  <2>3. \A q \in Trips, e \in Entries : Lists(q, e)' => e \in used'
    BY <1>1, <1>3, <1>5 DEF UsedInv
  <2> QED
    BY <1>1, <2>1, <2>2, <2>3 DEF UsedInv
<1>8. ListsInv'
  <2>1. \A q, r \in Trips, e \in Entries : Lists(q, e)' /\ Lists(r, e)' => q = r
    BY <1>5, <1>6 DEF ListsInv
  <2>2. \A q \in Trips : trips'[q] # NoDoc => Injective(trips'[q].entries)
    BY <1>1 DEF ListsInv
  <2>3. \A c \in calls' : c.op # "fetchEntry"
    BY <1>1
  <2> QED
    BY <1>1, <2>1, <2>2, <2>3 DEF ListsInv
<1>9. OwnersInv'
  <2>1. ASSUME NEW q \in Trips, NEW e \in Entries, Lists(q, e)', Stored(e)'
        PROVE  docs'[e].tripID \in {NoTrip, q}
    <3>1. CASE q = t
      BY <1>2, <1>5, <2>1, <3>1
    <3>2. CASE q # t
      <4>1. Lists(q, e) /\ e \notin L
        BY <1>5, <1>6, <2>1, <3>2
      <4> QED
        BY <1>2, <2>1, <4>1 DEF OwnersInv
    <3> QED
      BY <3>1, <3>2
  <2> QED
    BY <1>1, <2>1 DEF OwnersInv
<1>10. DeletedInv'
  BY <1>1, <1>2, EditorFields DEF DeletedInv
<1>11. LoadingInv' /\ LoadedInv' /\ SavingInv'
  BY <1>1, <1>4 DEF LoadingInv, LoadedInv, SavingInv
<1>12. RestInv'
  <2>1. ASSUME NEW i \in 1..Len(acks')
        PROVE  /\ Naming(acks'[i])
               /\ acks'[i].op = "tripIDs" =>
                    /\ i = Len(acks')
                    /\ acks'[i].ids = trips'[acks'[i].trip].entries
                    /\ \A e \in ToSet(acks'[i].ids) :
                         Stored(e)' /\ docs'[e].tripID = acks'[i].trip
    <3>1. /\ Naming(acks'[i])
          /\ acks'[i].op = "tripIDs" =>
               i = Len(acks') /\ acks'[i].trip = t /\ acks'[i].ids = vc.list
      BY DEF Finished
    <3> QED
      BY <1>1, <1>2, <1>3, <3>1 DEF L
  <2> QED
    BY <1>1, <2>1 DEF RestInv
<1>13. NumberedInv'
  <2> SUFFICES ASSUME ~crashed, NEW q \in Trips, trips'[q] # NoDoc, q # t
               PROVE  Numbered(q)'
    BY <1>1 DEF NumberedInv, Finished
  <2>1. trips[q] # NoDoc /\ trips'[q].entries = trips[q].entries /\ q # vc.tripID
    BY <1>1, TripAssumption
  <2>2. Numbered(q)
    BY <1>1, <2>1, SavingNumbered
  <2>3. \A e \in Entries : e \notin Handled => docs'[e] = docs[e]
    BY <1>2, <1>3
  <2> QED
    BY <1>3, <2>1, <2>2, <2>3, OthersNumbered
<1>14. WholeInv'
  <2> SUFFICES ASSUME ~failed, ~torn
               PROVE  WholeInv'
    BY <1>1 DEF WholeInv
  <2>1. ASSUME NEW q \in Trips, NEW e \in Entries, Lists(q, e)'
        PROVE  Stored(e)'
    <3>1. CASE q = t
      BY <1>2, <1>5, <2>1, <3>1
    <3>2. CASE q # t
      BY <1>1, <1>2, <1>5, <2>1, <3>2 DEF WholeInv
    <3> QED
      BY <3>1, <3>2
  <2>2. ASSUME NEW q \in Trips, NEW e \in Entries,
               trips'[q] # NoDoc, Stored(e)', docs'[e].tripID = q
        PROVE  Lists(q, e)'
    <3>1. CASE e \in L
      BY <1>2, <1>5, <2>2, <3>1
    <3>2. CASE e \notin L
      <4>1. docs[e].tripID = q /\ Stored(e)
        BY <1>2, <2>2, <3>2
      <4>2. CASE q # t
        BY <1>1, <1>5, <2>2, <4>1, <4>2 DEF WholeInv
      <4>3. CASE q = t
        <5>1. vc.tripID = t
          BY <1>1, <4>1, <4>3, TripAssumption DEF UsedInv
        <5>2. trips[t] # NoDoc /\ trips[t].entries = vc.list
          <6>1. trips[t] # NoDoc
            BY <1>1, <5>1, SavingFacts, TripAssumption
          <6> QED
            BY <1>1, <5>1, <6>1, TripAssumption DEF SavingInv
        <5>3. Lists(t, e)
          BY <4>1, <4>3, <5>2 DEF WholeInv
        <5> QED
          BY <3>2, <5>2, <5>3 DEF Lists, L
      <4> QED
        BY <4>2, <4>3
    <3> QED
      BY <3>1, <3>2
  <2>3. vc.map = ToSet(vc.list)
    BY <1>3 DEF WholeInv
  <2> QED
    BY <1>1, <2>1, <2>2, <2>3 DEF WholeInv
<1>15. GoneInv'
  <2> SUFFICES ASSUME ~failed, ~crashed, NEW q \in Trips, NEW e \in Entries,
                      Stored(e)', docs'[e].tripID = q, trips'[q] = NoDoc, e \notin lost.entries
               PROVE  FALSE
    BY <1>1 DEF GoneInv
  <2>1. q # t /\ trips[q] = NoDoc
    BY <1>1
  <2>2. e \notin L
    BY <1>2, <2>1
  <2>3. Stored(e) /\ docs[e].tripID = q
    BY <1>2, <2>2
  <2> QED
    BY <1>3, <2>1, <2>3 DEF GoneInv, Deleting
<1> QED
  BY <1>7, <1>8, <1>9, <1>10, <1>11, <1>12, <1>13, <1>14, <1>15

\* A new trip is added.
LEMMA NewTripKeeps ==
  ASSUME BaseInv, CarefulInv, TypeOK', NEW k \in calls, k.op = "user", vc.tripID = NoTrip,
         NEW t \in Trips, NewTrip(k, t)
  PROVE  CarefulInv'
<1> USE DEF BaseInv, CarefulInv
<1>1. saving /\ k = UserCall /\ Asking
  BY SavingCall
<1>2. k.ids = vc.list /\ vc.list \in Seq(Entries) /\ Uploading = {} /\ vc.phase = "open"
  BY <1>1, SavingFacts DEF UserCall, Asking
<1>3. acks = <<>>
  <2>1. ASSUME NEW i \in 1..Len(acks)
        PROVE  FALSE
    <3>1. Naming(acks[i])
      BY <1>1 DEF Asking
    <3>2. acks[i].trip = NoTrip
      BY <1>1, <3>1 DEF SavingInv, Naming, UpdatedAck
    <3>3. acks[i] \in Completion /\ acks[i].op # "stored"
      BY <3>1 DEF TypeOK, Naming
    <3> QED
      BY <3>2, <3>3, AckFields, TripAssumption
  <2>2. acks \in Seq(Completion) /\ Len(acks) \in Nat
    BY DEF TypeOK
  <2>3. Len(acks) = 0
    BY <2>1, <2>2
  <2> QED
    BY <2>2, <2>3
<1>4. PICK a : a = [op |-> "tripIDs", trip |-> t, ids |-> vc.list]
  OBVIOUS
<1>5. a.op = "tripIDs" /\ Naming(a) /\ a.trip = t /\ a.ids = vc.list
  BY <1>4 DEF Naming
<1>6. Len(acks') = 1 /\ acks'[1] = a
  <2>1. acks' = <<a>>
    BY <1>2, <1>3, <1>4 DEF NewTrip
  <2> QED
    BY <2>1
<1>7. /\ trips'[t].entries = vc.list /\ trips'[t] # NoDoc
      /\ \A q \in Trips : q # t => trips'[q] = trips[q]
  BY <1>2, TripMade DEF NewTrip
<1>8. /\ \A e \in Entries : docs'[e] # NoDoc <=> Stored(e)
      /\ \A e \in Entries : e \in ToSet(vc.list) /\ Stored(e) => docs'[e].tripID = t
      /\ \A e \in Entries : e \notin ToSet(vc.list) => docs'[e] = docs[e]
  BY <1>2, TripIDsWritten DEF NewTrip
<1>9. \A e \in ToSet(vc.list) : Stored(e)
  BY <1>1, <1>2 DEF SavingInv
<1>10. \A c \in calls' : c.op = "cover"
  <2> SUFFICES ASSUME NEW c \in calls, c # k
               PROVE  c.op = "cover"
    BY DEF NewTrip
  <2>1. c.op \in {"upload", "user"} => c.op = "upload" /\ c.entry \in Uploading
    BY <1>1, SavingCall
  <2> QED
    BY <1>1, <1>2, <2>1 DEF SavingInv
<1>11. /\ vc'.phase = "alert"
       /\ vc'.list = vc.list /\ vc'.map = vc.map /\ vc'.deleted = vc.deleted
  BY <1>2 DEF NewTrip, TypeOK, Editor
<1>12. /\ t \notin used /\ used' = used \cup {t} /\ ~saving'
       /\ UNCHANGED <<load, counts, presses, failed, crashed, torn, lost>>
  BY DEF NewTrip, past
<1>13. Naming1(t)'
  BY <1>5, <1>6 DEF Naming1
<1>14. \A i \in 1..Len(acks') :
         /\ Naming(acks'[i])
         /\ acks'[i].op = "tripIDs" => i = Len(acks') /\ acks'[i].trip = t /\ acks'[i].ids = vc.list
  BY <1>5, <1>6
<1>15. \A e : Stored(e)' <=> docs'[e] # NoDoc
  BY DEF Stored
<1>16. Finished(t)
  BY <1>1, <1>2, <1>7, <1>8, <1>9, <1>10, <1>11, <1>12, <1>13, <1>14, <1>15 DEF Finished
<1> QED
  BY <1>16, FinishedKeeps

\* The trip is updated.
LEMMA TripUpdatedKeeps ==
  ASSUME BaseInv, CarefulInv, TypeOK', TripUpdated
  PROVE  CarefulInv'
<1> USE DEF BaseInv, CarefulInv
<1>1. acks # <<>> /\ Head(acks).op = "updated"
  BY DEF TripUpdated, FirstAck
<1>2. Head(acks) = acks[1] /\ Len(acks) \in Nat \ {0} /\ 1 \in 1..Len(acks)
  BY <1>1, AckTaken DEF TypeOK
<1>3. ~Naming(acks[1])
  BY <1>1, <1>2 DEF Naming
<1>4. saving
  BY <1>1, <1>2, <1>3 DEF RestInv, LoadingInv, DeletionsAlone
<1>5. Updating
  BY <1>1, <1>2, <1>3, <1>4 DEF SavingInv, Uploads, Asking
<1>6. acks[1] = UpdatedAck /\ \A i \in 1..Len(acks) : i # 1 => Naming(acks[i])
  BY <1>2, <1>3, <1>5 DEF Updating
<1>7. PICK t \in Trips : t = vc.tripID /\ trips[t] # NoDoc /\ trips[t].entries = vc.list
  BY <1>4, <1>5, SavingFacts DEF Updating
<1>8. Uploading = {} /\ UserCall \notin calls /\ vc.list \in Seq(Entries)
  BY <1>4, <1>5, SavingFacts DEF Updating
<1>9. Head(acks).trip = t /\ Head(acks).ids = vc.list
  BY <1>2, <1>6, <1>7 DEF UpdatedAck
<1>10. PICK a : a = [op |-> "tripIDs", trip |-> t, ids |-> vc.list]
  OBVIOUS
<1>11. a \in Completion /\ a.op = "tripIDs" /\ Naming(a) /\ a.trip = t /\ a.ids = vc.list
  BY <1>8, <1>10, AckMade DEF Naming
<1>12. /\ Len(acks') = Len(acks) /\ acks'[Len(acks)] = a
       /\ \A i \in 1..(Len(acks) - 1) : i + 1 \in 1..Len(acks) /\ acks'[i] = acks[i + 1]
  <2>1. acks' = Append(Tail(acks), a)
    BY <1>9, <1>10 DEF TripUpdated
  <2>2. /\ Tail(acks) \in Seq(Completion) /\ Len(Tail(acks)) = Len(acks) - 1
        /\ \A i \in 1..Len(Tail(acks)) : Tail(acks)[i] = acks[i + 1] /\ i + 1 \in 1..Len(acks)
    BY <1>1, AckTaken DEF TypeOK
  <2>3. /\ Len(acks') = Len(Tail(acks)) + 1
        /\ \A i \in 1..Len(Tail(acks)) : acks'[i] = Tail(acks)[i]
        /\ acks'[Len(Tail(acks)) + 1] = a
    BY <1>11, <2>1, <2>2, AckAppended
  <2> QED
    BY <1>2, <2>2, <2>3
<1>13. ASSUME NEW i \in 1..Len(acks')
       PROVE  /\ Naming(acks'[i])
              /\ acks'[i].op = "tripIDs" =>
                   i = Len(acks') /\ acks'[i].trip = t /\ acks'[i].ids = vc.list
  <2>1. CASE i = Len(acks)
    BY <1>11, <1>12, <2>1
  <2>2. CASE i # Len(acks)
    <3>1. i + 1 \in 1..Len(acks) /\ i + 1 # 1 /\ acks'[i] = acks[i + 1]
      BY <1>2, <1>12, <2>2
    <3>2. Naming(acks[i + 1])
      BY <1>6, <3>1
    <3>3. acks[i + 1].op # "tripIDs"
      <4>1. \/ acks[i + 1] = [op |-> "stored", press |-> press]
            \/ acks[i + 1].op = "tripIDs" => i + 1 = 1
            \/ acks[i + 1] = UpdatedAck
        BY <1>4, <3>1 DEF SavingInv
      <4>2. acks[i + 1] = [op |-> "stored", press |-> press] => acks[i + 1].op = "stored"
        OBVIOUS
      <4>3. acks[i + 1] = UpdatedAck => acks[i + 1].op = "updated"
        BY DEF UpdatedAck
      <4> QED
        BY <3>1, <4>1, <4>2, <4>3
    <3> QED
      BY <3>1, <3>2, <3>3
  <2> QED
    BY <2>1, <2>2
<1>14. Naming1(t)'
  <2>1. Len(acks) \in 1..Len(acks')
    BY <1>2, <1>12
  <2> QED
    BY <1>11, <1>12, <2>1 DEF Naming1
<1>15. /\ \A e \in Entries : docs'[e] # NoDoc <=> Stored(e)
       /\ \A e \in Entries : e \in ToSet(vc.list) /\ Stored(e) => docs'[e].tripID = t
       /\ \A e \in Entries : e \notin ToSet(vc.list) => docs'[e] = docs[e]
  <2>1. docs' = WithTripID(docs, vc.list, t)
    BY <1>9 DEF TripUpdated
  <2> QED
    BY <1>8, <2>1, TripIDsWritten
<1>16. \A e \in ToSet(vc.list) : Stored(e)
  BY <1>4, <1>8 DEF SavingInv
<1>17. \A c \in calls' : c.op = "cover"
  <2> SUFFICES ASSUME NEW c \in calls
               PROVE  c.op = "cover"
    BY DEF TripUpdated
  <2>1. c.op = "upload" => c.entry \in Uploading
    BY SavingCall
  <2> QED
    BY <1>4, <1>8, <2>1 DEF SavingInv
<1>18. /\ vc'.phase = "closed"
       /\ vc'.list = vc.list /\ vc'.map = vc.map /\ vc'.deleted = vc.deleted
  BY DEF TripUpdated, TypeOK, Editor
<1>19. /\ trips' = trips /\ used' = used /\ ~saving'
       /\ UNCHANGED <<load, counts, presses, failed, crashed, torn, lost>>
  BY DEF TripUpdated, past
<1>20. used' = used \cup {t} /\ vc.tripID # NoTrip
  BY <1>7, <1>19, TripAssumption DEF UsedInv
<1>21. \A e : Stored(e)' <=> docs'[e] # NoDoc
  BY DEF Stored
<1>22. Finished(t)
  BY <1>4, <1>7, <1>8, <1>13, <1>14, <1>15, <1>16, <1>17, <1>18, <1>19, <1>20, <1>21 DEF Finished
<1> QED
  BY <1>22, FinishedKeeps

\* The entries of the trip are written; the handler of that write is to come.
LEMMA OldTripKeeps ==
  ASSUME BaseInv, CarefulInv, TypeOK', NEW k \in calls, k.op = "user", vc.tripID # NoTrip,
         OldTrip(k)
  PROVE  CarefulInv'
<1> USE DEF BaseInv, CarefulInv
<1> DEFINE L == ToSet(vc.list)
<1>1. saving /\ k = UserCall /\ Asking
  BY SavingCall
<1>2. /\ k.ids = vc.list /\ vc.list \in Seq(Entries) /\ Uploading = {} /\ vc.phase = "open"
      /\ ~Loading /\ ~Deleting /\ L \subseteq Entries /\ L \subseteq Handled /\ Handled \subseteq used
  BY <1>1, SavingFacts DEF UserCall, Asking
<1>3. PICK t \in Trips : t = vc.tripID /\ trips[t] # NoDoc
  BY <1>1, SavingFacts
<1>4. /\ trips'[t].entries = vc.list
      /\ \A q \in Trips : q # t => trips'[q] = trips[q]
      /\ \A q \in Trips : trips'[q] # NoDoc <=> trips[q] # NoDoc
  BY <1>2, <1>3, TripWritten DEF OldTrip
<1>5. /\ acks' = Append(acks, UpdatedAck) /\ calls' = calls \ {k}
      /\ UNCHANGED <<docs, ann, vc, used, saving, load, counts, presses, failed, crashed, torn, lost>>
  BY <1>2 DEF OldTrip, UpdatedAck, past
<1>6. UpdatedAck \in Completion /\ ~Naming(UpdatedAck) /\ UpdatedAck.op = "updated"
  BY <1>2, <1>3, AckMade DEF UpdatedAck, Naming
<1>7. /\ Len(acks') = Len(acks) + 1 /\ Len(acks) \in Nat /\ acks'[Len(acks) + 1] = UpdatedAck
      /\ \A i \in 1..Len(acks) : acks'[i] = acks[i]
  BY <1>5, <1>6, AckAppended DEF TypeOK
<1> HIDE DEF L
<1>8. Handled' = Handled /\ press' = press /\ UserCall' = UserCall /\ UpdatedAck' = UpdatedAck
      /\ \A x \in Entries : UploadOf(x)' = UploadOf(x)
  BY <1>5 DEF Handled, press, UserCall, UpdatedAck, UploadOf
<1>9. Uploading' = {}
  BY <1>2, <1>5, <1>8 DEF Uploading
<1>10. \A x : Stored(x)' <=> Stored(x)
  BY <1>5 DEF Stored
<1>11. \A q \in Trips : \A e : Lists(q, e)' <=> IF q = t THEN e \in L ELSE Lists(q, e)
  BY <1>3, <1>4 DEF Lists, L
<1>12. \A q \in Trips, e \in Handled : Lists(q, e)' => q = t
  <2> SUFFICES ASSUME NEW q \in Trips, NEW e \in Handled, Lists(q, e)', q # t
               PROVE  FALSE
    OBVIOUS
  <2>1. Lists(q, e)
    BY <1>11
  <2> QED
    BY <1>2, <1>3, <2>1, OthersApart
<1>13. UsedInv'
  <2>1. \A q \in Trips, e \in Entries : Lists(q, e)' => e \in used
    BY <1>2, <1>11 DEF UsedInv
  <2> QED
    BY <1>4, <1>5, <1>8, <1>10, <2>1 DEF UsedInv
<1>14. ListsInv'
  <2>1. \A q, r \in Trips, e \in Entries : Lists(q, e)' /\ Lists(r, e)' => q = r
    <3> SUFFICES ASSUME NEW q \in Trips, NEW r \in Trips, NEW e \in Entries,
                        Lists(q, e)', Lists(r, e)'
                 PROVE  q = r
      OBVIOUS
    <3>1. CASE e \in L
      BY <1>2, <1>12, <3>1
    <3>2. CASE e \notin L
      BY <1>11, <3>2 DEF ListsInv
    <3> QED
      BY <3>1, <3>2
  <2>2. \A q \in Trips : trips'[q] # NoDoc => Injective(trips'[q].entries)
    BY <1>4 DEF ListsInv
  <2>3. \A c \in calls' : c.op # "fetchEntry"
    BY <1>2, <1>5 DEF Deleting
  <2> QED
    BY <1>3, <1>5, <1>8, <1>12, <2>1, <2>2, <2>3 DEF ListsInv
<1>15. OwnersInv'
  <2>1. ASSUME NEW q \in Trips, NEW e \in Entries, Lists(q, e)', Stored(e)
        PROVE  docs[e].tripID \in {NoTrip, q}
    <3>1. CASE q = t
      BY <1>2, <1>3, <1>11, <2>1, <3>1 DEF OwnersInv, L
    <3>2. CASE q # t
      BY <1>11, <2>1, <3>2 DEF OwnersInv
    <3> QED
      BY <3>1, <3>2
  <2> QED
    BY <1>5, <1>10, <2>1 DEF OwnersInv
<1>16. DeletedInv'
  BY <1>5, <1>10 DEF DeletedInv
<1>17. LoadingInv' /\ LoadedInv' /\ RestInv'
  <2>1. ~Loading'
    BY <1>2, <1>5 DEF Loading
  <2> QED
    BY <1>1, <1>5, <2>1 DEF LoadingInv, LoadedInv, RestInv
<1>18. Updating'
  <2>1. UserCall' \notin calls'
    BY <1>1, <1>5, <1>8
  <2>2. \A i \in 1..Len(acks') : Len(acks) + 1 # i => Naming(acks'[i])
    BY <1>1, <1>7 DEF Asking
  <2>3. Len(acks) + 1 \in 1..Len(acks')
    BY <1>7
  <2>4. \E j \in 1..Len(acks') :
          /\ acks'[j] = UpdatedAck
          /\ \A i \in 1..Len(acks') : j # i => Naming(acks'[i])
    BY <1>7, <2>2, <2>3
  <2> QED
    BY <1>3, <1>4, <1>5, <1>8, <1>9, <2>1, <2>4 DEF Updating
<1>19. SavingInv'
  <2>1. ASSUME NEW c \in calls'
        PROVE  \/ c.op = "cover"
               \/ c.op = "upload" /\ c = UploadOf(c.entry)' /\ c.entry \in L
               \/ c = UserCall'
    BY <1>1, <1>5, <1>8 DEF SavingInv, L, UploadOf
  <2>2. ASSUME NEW i \in 1..Len(acks')
        PROVE  \/ acks'[i] = [op |-> "stored", press |-> press]
               \/ Naming(acks'[i]) /\ acks'[i].trip = vc.tripID
                  /\ (acks'[i].op = "tripIDs" => i = 1 /\ acks'[i].ids = vc.list)
               \/ acks'[i] = UpdatedAck'
    <3>1. CASE i = Len(acks) + 1
      BY <1>7, <1>8, <3>1
    <3>2. CASE i \in 1..Len(acks)
      BY <1>1, <1>7, <1>8, <3>2 DEF SavingInv
    <3> QED
      BY <1>7, <3>1, <3>2
  <2>3. ASSUME NEW i \in 1..Len(acks'), NEW j \in 1..Len(acks'), Naming(acks'[i]), Naming(acks'[j])
        PROVE  i = j
    <3>1. i \in 1..Len(acks) /\ j \in 1..Len(acks)
      BY <1>6, <1>7, <2>3
    <3> QED
      BY <1>1, <1>7, <2>3, <3>1 DEF SavingInv
  <2>4. \A x \in L : Stored(x)'
    BY <1>1, <1>2, <1>10 DEF SavingInv, L
  <2>5. vc.phase = "open" /\ vc.list # <<>> /\ presses > 0
    BY <1>1 DEF SavingInv
  <2> QED
    BY <1>3, <1>4, <1>5, <1>8, <1>18, <2>1, <2>2, <2>3, <2>4, <2>5 DEF SavingInv, L
<1>20. NumberedInv'
  <2> SUFFICES ASSUME ~crashed, NEW q \in Trips, trips[q] # NoDoc, q # t
               PROVE  Numbered(q)'
    BY <1>1, <1>3, <1>4, <1>5 DEF NumberedInv
  <2>1. Numbered(q)
    BY <1>1, <1>3, SavingNumbered
  <2>2. trips'[q].entries = trips[q].entries /\ \A x \in Entries : docs'[x] = docs[x]
    BY <1>4, <1>5
  <2> QED
    BY <1>2, <1>3, <2>1, <2>2, OthersNumbered
<1>21. WholeInv'
  <2> SUFFICES ASSUME ~failed, ~torn
               PROVE  WholeInv'
    BY <1>5 DEF WholeInv
  <2>1. trips[t].entries = vc.list
    BY <1>1, <1>3 DEF SavingInv
  <2>2. \A q \in Trips : \A e : Lists(q, e)' <=> Lists(q, e)
    BY <1>3, <1>11, <2>1 DEF Lists, L
  <2>3. \A q \in Trips, e \in Entries : Lists(q, e) => Stored(e)
    BY <1>2 DEF WholeInv
  <2>4. \A q \in Trips, e \in Entries :
          trips[q] # NoDoc /\ Stored(e) /\ docs[e].tripID = q => Lists(q, e)
    BY DEF WholeInv
  <2>5. vc.map = ToSet(vc.list)
    BY <1>2 DEF WholeInv
  <2> QED
    BY <1>3, <1>4, <1>5, <1>10, <2>2, <2>3, <2>4, <2>5 DEF WholeInv
<1>22. GoneInv'
  BY <1>2, <1>4, <1>5, <1>10 DEF GoneInv, Deleting
<1> QED
  BY <1>13, <1>14, <1>15, <1>16, <1>17, <1>19, <1>20, <1>21, <1>22

-----------------------------------------------------------------------------
(* Deleting a trip.                                                        *)

LEMMA DeletingFacts ==
  ASSUME BaseInv, CarefulInv, Deleting
  PROVE  /\ vc.phase = "closed" /\ acks = <<>> /\ ~saving /\ ~Loading
         /\ \A c \in calls : c.op \in {"fetchTrip", "fetchEntry"}
         /\ ~crashed => \A q \in Trips : trips[q] # NoDoc => Numbered(q)
<1> USE DEF BaseInv, CarefulInv
<1>1. /\ vc.phase = "closed" /\ acks = <<>>
      /\ \A c \in calls : c.op \in {"fetchTrip", "fetchEntry"}
  BY DEF DeletionsAlone
<1>2. ~saving /\ ~Loading
  BY <1>1 DEF SavingInv, Loading
<1>3. \A q \in Trips : ~Naming1(q)
  BY <1>1 DEF Naming1
<1> QED
  BY <1>1, <1>2, <1>3 DEF NumberedInv

LEMMA TripFetchedKeeps ==
  ASSUME BaseInv, CarefulInv, TypeOK', NEW k \in calls, TripFetched(k)
  PROVE  CarefulInv'
<1> USE DEF BaseInv, CarefulInv
<1> DEFINE t == k.trip
           S == {[op |-> "fetchEntry", entry |-> e] : e \in EntriesOf(t)}
<1>1. k.op = "fetchTrip" /\ t \in Trips /\ trips[t] # NoDoc
  BY CallFields DEF TripFetched, TypeOK, NamesInv
<1>2. Deleting
  BY <1>1 DEF Deleting
<1>3. /\ vc.phase = "closed" /\ acks = <<>> /\ ~saving /\ ~Loading
      /\ \A c \in calls : c.op \in {"fetchTrip", "fetchEntry"}
      /\ ~crashed => \A q \in Trips : trips[q] # NoDoc => Numbered(q)
  BY <1>2, DeletingFacts
<1>4. \A c \in S : c.op = "fetchEntry" /\ Lists(t, c.entry)
  BY <1>1 DEF Lists, EntriesOf
<1>5. \A e : Lists(t, e) => [op |-> "fetchEntry", entry |-> e] \in S
  BY DEF Lists, EntriesOf
<1>6. /\ calls' = (calls \ {k}) \cup S
      /\ trips'[t] = NoDoc /\ \A q \in Trips : q # t => trips'[q] = trips[q]
      /\ UNCHANGED <<docs, vc, ann, load, counts, acks, presses, failed, crashed, torn, lost, used, saving>>
  BY <1>1 DEF TripFetched, TripsWithout, past, TypeOK
<1> HIDE DEF S, t
<1>7. \A q \in Trips : \A e : Lists(q, e)' <=> Lists(q, e) /\ q # t
  BY <1>1, <1>6 DEF Lists
<1>8. \A e : Stored(e)' <=> Stored(e)
  BY <1>6 DEF Stored
<1>9. \A c \in calls' : c.op \in {"fetchTrip", "fetchEntry"}
  BY <1>3, <1>4, <1>6
<1>10. ~Loading'
  BY <1>9 DEF Loading
<1>11. UsedInv'
  <2>1. \A q \in Trips : trips'[q] # NoDoc => q \in used
    BY <1>6 DEF UsedInv
  <2> QED
    BY <1>3, <1>6, <1>7, <1>8, <2>1 DEF UsedInv
<1>12. ListsInv'
  <2>1. ASSUME NEW c \in calls', c.op = "fetchEntry", NEW q \in Trips, Lists(q, c.entry)'
        PROVE  FALSE
    <3>1. Lists(q, c.entry) /\ q # t
      BY <1>7, <2>1
    <3>2. CASE c \in S
      <4>1. Lists(t, c.entry) /\ c.entry \in Entries
        BY <1>1, <1>4, <3>2, ListedIsEntry
      <4> QED
        BY <1>1, <3>1, <4>1 DEF ListsInv
    <3>3. CASE c \in calls
      BY <2>1, <3>1, <3>3 DEF ListsInv
    <3> QED
      BY <1>6, <3>2, <3>3
  <2>2. \A q, r \in Trips, e \in Entries : Lists(q, e)' /\ Lists(r, e)' => q = r
    BY <1>7 DEF ListsInv
  <2>3. \A q \in Trips : trips'[q] # NoDoc => Injective(trips'[q].entries)
    BY <1>6 DEF ListsInv
  <2> QED
    BY <1>3, <1>6, <2>1, <2>2, <2>3 DEF ListsInv
<1>13. OwnersInv'
  BY <1>3, <1>6, <1>7, <1>8 DEF OwnersInv
<1>14. DeletedInv'
  BY <1>3, <1>6, <1>8 DEF DeletedInv
<1>15. LoadingInv' /\ LoadedInv' /\ SavingInv'
  BY <1>3, <1>6, <1>10 DEF LoadingInv, LoadedInv, SavingInv
<1>16. RestInv'
  BY <1>3, <1>6, <1>9 DEF RestInv, Deleting
<1>17. NumberedInv'
  BY <1>3, <1>6 DEF NumberedInv, Numbered
<1>18. WholeInv'
  <2> SUFFICES ASSUME ~failed, ~torn
               PROVE  WholeInv'
    BY <1>6 DEF WholeInv
  <2>1. \A q \in Trips, e \in Entries : Lists(q, e)' => Stored(e)'
    BY <1>3, <1>7, <1>8 DEF WholeInv
  <2>2. \A q \in Trips, e \in Entries :
          trips'[q] # NoDoc /\ Stored(e)' /\ docs'[e].tripID = q => Lists(q, e)'
    BY <1>6, <1>7, <1>8 DEF WholeInv
  <2>3. vc.map = ToSet(vc.list)
    BY <1>3 DEF WholeInv
  <2> QED
    BY <1>3, <1>6, <2>1, <2>2, <2>3 DEF WholeInv
<1>19. GoneInv'
  <2> SUFFICES ASSUME ~failed, ~crashed, NEW q \in Trips, NEW e \in Entries,
                      Stored(e), docs[e].tripID = q, trips'[q] = NoDoc
               PROVE  [op |-> "fetchEntry", entry |-> e] \in calls' \/ e \in lost.entries
    BY <1>6, <1>8 DEF GoneInv
  <2>1. CASE q = t
    <3>1. Lists(t, e)
      BY <1>1, <2>1 DEF WholeInv
    <3> QED
      BY <1>5, <1>6, <3>1
  <2>2. CASE q # t
    <3>1. [op |-> "fetchEntry", entry |-> e] \in calls \/ e \in lost.entries
      BY <1>6, <2>2 DEF GoneInv
    <3> QED
      BY <1>1, <1>6, <3>1
  <2> QED
    BY <2>1, <2>2
<1> QED
  BY <1>11, <1>12, <1>13, <1>14, <1>15, <1>16, <1>17, <1>18, <1>19

LEMMA EntryFetchedKeeps ==
  ASSUME BaseInv, CarefulInv, TypeOK', NEW k \in calls, EntryFetched(k)
  PROVE  CarefulInv'
<1> USE DEF BaseInv, CarefulInv
<1> DEFINE e == k.entry
<1>1. k.op = "fetchEntry" /\ e \in Entries /\ k = [op |-> "fetchEntry", entry |-> e]
  BY CallFields DEF EntryFetched, TypeOK
<1>2. Deleting
  BY <1>1 DEF Deleting
<1>3. /\ vc.phase = "closed" /\ acks = <<>> /\ ~saving /\ ~Loading
      /\ \A c \in calls : c.op \in {"fetchTrip", "fetchEntry"}
      /\ ~crashed => \A q \in Trips : trips[q] # NoDoc => Numbered(q)
  BY <1>2, DeletingFacts
<1>4. /\ calls' = calls \ {k}
      /\ docs'[e] = NoDoc /\ \A x \in Entries : x # e => docs'[x] = docs[x]
      /\ UNCHANGED <<trips, vc, ann, load, counts, acks, presses, failed, crashed, torn, lost, used, saving>>
  BY <1>1 DEF EntryFetched, past, TypeOK
<1> HIDE DEF e
<1>5. \A q \in Trips : ~Lists(q, e)
  BY <1>1 DEF ListsInv, e
<1>6. \A q \in Trips : \A x : Lists(q, x)' <=> Lists(q, x)
  BY <1>4 DEF Lists
<1>7. \A x \in Entries : Stored(x)' => Stored(x) /\ x # e /\ docs'[x] = docs[x]
  BY <1>4 DEF Stored
<1>8. \A x \in Entries : x # e => (Stored(x)' <=> Stored(x))
  BY <1>4 DEF Stored
<1>9. ~Loading' /\ \A c \in calls' : c.op \in {"fetchTrip", "fetchEntry"}
  BY <1>3, <1>4 DEF Loading
<1>10. UsedInv'
  BY <1>3, <1>4, <1>6, <1>7 DEF UsedInv
<1>11. ListsInv'
  BY <1>3, <1>4, <1>6 DEF ListsInv
<1>12. OwnersInv'
  BY <1>3, <1>4, <1>6, <1>7 DEF OwnersInv
<1>13. DeletedInv'
  BY <1>3, <1>4, <1>7, EditorFields DEF DeletedInv
<1>14. LoadingInv' /\ LoadedInv' /\ SavingInv' /\ RestInv'
  BY <1>3, <1>4, <1>9 DEF LoadingInv, LoadedInv, SavingInv, RestInv, Deleting
<1>15. NumberedInv'
  <2> SUFFICES ASSUME ~crashed, NEW q \in Trips, trips[q] # NoDoc,
                      NEW i \in 1..Len(trips[q].entries)
               PROVE  docs'[trips[q].entries[i]] = [tripID |-> q, order |-> i - 1]
    BY <1>4 DEF NumberedInv, Numbered
  <2>1. trips[q].entries \in Seq(Entries)
    BY DEF TypeOK, Trip
  <2>2. trips[q].entries[i] \in Entries /\ Lists(q, trips[q].entries[i])
    BY <2>1, Members DEF Lists
  <2>3. trips[q].entries[i] # e
    BY <1>5, <2>2
  <2> QED
    BY <1>3, <1>4, <2>2, <2>3 DEF Numbered
<1>16. WholeInv'
  <2> SUFFICES ASSUME ~failed, ~torn
               PROVE  WholeInv'
    BY <1>4 DEF WholeInv
  <2>1. \A q \in Trips, x \in Entries : Lists(q, x) => Stored(x)'
    BY <1>3, <1>5, <1>8 DEF WholeInv
  <2>2. \A q \in Trips, x \in Entries :
          trips[q] # NoDoc /\ Stored(x)' /\ docs'[x].tripID = q => Lists(q, x)
    BY <1>7 DEF WholeInv
  <2>3. vc.map = ToSet(vc.list)
    BY <1>3 DEF WholeInv
  <2> QED
    BY <1>3, <1>4, <1>6, <2>1, <2>2, <2>3 DEF WholeInv
<1>17. GoneInv'
  <2> SUFFICES ASSUME ~failed, ~crashed, NEW q \in Trips, NEW x \in Entries,
                      Stored(x)', docs'[x].tripID = q, trips[q] = NoDoc
               PROVE  [op |-> "fetchEntry", entry |-> x] \in calls' \/ x \in lost.entries
    BY <1>4 DEF GoneInv
  <2>1. x # e /\ ([op |-> "fetchEntry", entry |-> x] \in calls \/ x \in lost.entries)
    BY <1>7 DEF GoneInv
  <2>2. [op |-> "fetchEntry", entry |-> x] # k
    BY <1>1, <2>1
  <2> QED
    BY <1>4, <2>1, <2>2
<1> QED
  BY <1>10, <1>11, <1>12, <1>13, <1>14, <1>15, <1>16, <1>17

\* A read of a deletion that comes to nothing leaves its entry behind.
LEMMA DeletionFailedKeeps ==
  ASSUME BaseInv, CarefulInv, TypeOK', NEW k \in calls, CallFailed(k),
         k.op \in {"fetchTrip", "fetchEntry"}
  PROVE  CarefulInv'
<1> USE DEF BaseInv, CarefulInv
<1>1. Deleting
  BY DEF Deleting
<1>2. /\ vc.phase = "closed" /\ acks = <<>> /\ ~saving /\ ~Loading
      /\ \A c \in calls : c.op \in {"fetchTrip", "fetchEntry"}
      /\ ~crashed => \A q \in Trips : trips[q] # NoDoc => Numbered(q)
  BY <1>1, DeletingFacts
<1>3. /\ calls' = calls \ {k} /\ failed' = failed
      /\ UNCHANGED <<trips, docs, vc, ann, load, counts, acks, presses, crashed, torn, used, saving>>
  BY DEF CallFailed, store, TypeOK
<1>4. /\ lost.entries \subseteq lost'.entries
      /\ k.op = "fetchEntry" => k.entry \in lost'.entries
  BY DEF CallFailed
<1>5. ~Loading' /\ \A c \in calls' : c.op \in {"fetchTrip", "fetchEntry"}
  BY <1>2, <1>3 DEF Loading
<1>6. UsedInv' /\ ListsInv'
  BY <1>2, <1>3 DEF UsedInv, ListsInv, Lists, Stored
<1>7. OwnersInv' /\ DeletedInv'
  BY <1>2, <1>3 DEF OwnersInv, DeletedInv, Lists, Stored
<1>8. LoadingInv' /\ LoadedInv' /\ SavingInv' /\ RestInv'
  BY <1>2, <1>3, <1>5 DEF LoadingInv, LoadedInv, SavingInv, RestInv, Deleting
<1>9. NumberedInv'
  BY <1>2, <1>3 DEF NumberedInv, Numbered
<1>10. WholeInv'
  BY <1>2, <1>3, <1>5 DEF WholeInv, Lists, Stored
<1>11. GoneInv'
  <2> SUFFICES ASSUME ~failed, ~crashed, NEW q \in Trips, NEW x \in Entries,
                      Stored(x), docs[x].tripID = q, trips[q] = NoDoc
               PROVE  [op |-> "fetchEntry", entry |-> x] \in calls' \/ x \in lost'.entries
    BY <1>3 DEF GoneInv, Stored
  <2>1. [op |-> "fetchEntry", entry |-> x] \in calls \/ x \in lost.entries
    BY DEF GoneInv
  <2>2. [op |-> "fetchEntry", entry |-> x] = k => x \in lost'.entries
    BY <1>4
  <2> QED
    BY <1>3, <1>4, <2>1, <2>2
<1> QED
  BY <1>6, <1>7, <1>8, <1>9, <1>10, <1>11

\* Any call comes to nothing; if it was the save's, the user's patience is at an end.
LEMMA CallFailedKeeps ==
  ASSUME BaseInv, CarefulInv, TypeOK', NEW k \in calls, CallFailed(k), ~lost'.save
  PROVE  CarefulInv'
<1>1. k.op \in {"cover", "trip", "fetchTrip", "entry", "fetchEntry"}
  <2>1. k.op \notin {"upload", "user"}
    BY DEF CallFailed
  <2> QED
    BY <2>1, CallFields DEF BaseInv, TypeOK
<1>2. CASE k.op = "cover"
  <2>1. CoverEnds(k)
    BY <1>2 DEF CallFailed, CoverEnds, store, BaseInv, TypeOK
  <2> QED
    BY <2>1, CoverEndsKeeps
<1> QED
  BY <1>1, <1>2, LoadFailedKeeps, DeletionFailedKeeps

-----------------------------------------------------------------------------
(* The invariant.                                                          *)

LEMMA InitCareful == Init => CarefulInv
<1> SUFFICES ASSUME Init
             PROVE  CarefulInv
  OBVIOUS
<1>1. /\ \A t \in Trips : trips[t] = NoDoc
      /\ \A e \in Entries : docs[e] = NoDoc
      /\ vc.phase = "closed" /\ vc.list = <<>> /\ vc.deleted = {} /\ vc.map = {}
      /\ calls = {} /\ acks = <<>> /\ ~saving
      /\ \A s \in Presses : counts[s] = 0
  BY ClosedEditor DEF Init
<1>2. ~Loading /\ ~Deleting
  BY <1>1 DEF Loading, Deleting
<1>3. \A e \in Entries : ~Stored(e)
  BY <1>1 DEF Stored
<1>4. \A t \in Trips : \A e : ~Lists(t, e)
  BY <1>1 DEF Lists
<1>5. UsedInv /\ ListsInv /\ OwnersInv /\ DeletedInv
  BY <1>1, <1>3, <1>4, EmptyList DEF UsedInv, ListsInv, OwnersInv, DeletedInv
<1>6. LoadingInv /\ LoadedInv /\ SavingInv /\ RestInv
  BY <1>1, <1>2 DEF LoadingInv, LoadedInv, SavingInv, RestInv
<1>7. NumberedInv /\ WholeInv /\ GoneInv
  BY <1>1, <1>3, <1>4, EmptyList DEF NumberedInv, WholeInv, GoneInv
<1> QED
  BY <1>5, <1>6, <1>7 DEF CarefulInv

\* Presses and failed calls alone take the patience away; nothing gives it back.
LEMMA PatienceLost ==
  ASSUME BaseInv, [Next]_vars, Patient'
  PROVE  Patient
<1>1. CASE Press
  <2>1. lost' = lost /\ (hasty' = 0 => hasty = 0)
    BY <1>1, Pressed DEF BaseInv
  <2> QED
    BY <2>1 DEF Patient
<1>2. CASE \E k \in calls : CallFailed(k)
  <2>1. PICK k \in calls : CallFailed(k)
    BY <1>2
  <2>2. hasty' = hasty /\ lost'.save = (lost.save \/ k.op \in {"upload", "user"})
    BY <2>1 DEF CallFailed
  <2> QED
    BY <2>2 DEF Patient
<1>3. CASE Terminated
  BY <1>3 DEF Terminated, Patient
<1>4. CASE UNCHANGED past
  BY <1>4 DEF Patient, past
<1>5. User => Press \/ UNCHANGED past
  BY DEF User, NewEditor, FillIn, Reorder, saveButtonPressed, AlertOk, addAnnotation,
         deleteAnnotation, EditTrip, deleteTrip
<1>6. (\E k \in calls : Callback(k)) => UNCHANGED past
  BY DEF Callback, TripLoaded, EntryLoaded, Uploaded, UserFetched, CoverUploaded, TripFetched,
         EntryFetched
<1>7. Ack \/ ListenerRefresh => UNCHANGED past
  BY DEF Ack, EntryStored, TripUpdated, TripIDsStored, OrdersStored, ListenerRefresh
<1>8. Failure => Terminated \/ \E k \in calls : CallFailed(k)
  BY DEF Failure, Killed, UploadFailed
<1> QED
  BY <1>1, <1>2, <1>3, <1>4, <1>5, <1>6, <1>7, <1>8 DEF Next, vars

\* A user who has waited so far, waits.
LEMMA CarefulKeeps ==
  ASSUME BaseInv, Patient => CarefulInv, [Next]_vars, Patient', TypeOK'
  PROVE  CarefulInv'
<1>1. CarefulInv
  BY PatienceLost
<1>2. CASE UNCHANGED vars
  <2>1. PageOnly
    BY <1>2 DEF PageOnly, vars, store
  <2> QED
    BY <1>1, <2>1, PageOnlyKeeps
<1>3. CASE User
  <2>1. CASE FillIn \/ AlertOk
    BY <1>1, <2>1, FillInKeeps, AlertOkKeeps
  <2>2. CASE Press
    <3>1. Quiet /\ presses' = presses + 1 /\ UNCHANGED <<failed, crashed, torn, lost>>
      BY <1>1, <2>2, QuietPress
    <3>2. CASE Reorder
      BY <1>1, <3>1, <3>2, ReorderEdited, EditedKeeps
    <3>3. CASE \E e \in Entries : addAnnotation(e) \/ deleteAnnotation(e)
      BY <1>1, <3>1, <3>3, AddEdited, DeleteEdited, EditedKeeps
    <3>4. CASE NewEditor \/ saveButtonPressed \/ \E t \in Trips : EditTrip(t) \/ deleteTrip(t)
      BY <1>1, <3>4, NewEditorKeeps, SaveKeeps, EditTripKeeps, deleteTripKeeps
    <3>5. CASE FillIn \/ AlertOk
      BY <2>1, <3>5
    <3> QED
      BY <1>3, <3>2, <3>3, <3>4, <3>5 DEF User
  <2> QED
    BY <1>3, <2>1, <2>2 DEF User, NewEditor, Reorder, saveButtonPressed, addAnnotation,
                            deleteAnnotation, EditTrip, deleteTrip
<1>4. CASE \E k \in calls : Callback(k)
  <2>1. PICK k \in calls : Callback(k)
    BY <1>4
  <2>2. CASE UserFetched(k)
    BY <1>1, <2>2, UserFetchedEnds, NewTripKeeps, OldTripKeeps
  <2> QED
    BY <1>1, <2>1, <2>2, TripLoadedKeeps, EntryLoadedKeeps, UploadedKeeps, CoverUploadedKeeps,
       TripFetchedKeeps, EntryFetchedKeeps DEF Callback
<1>5. CASE Ack
  BY <1>1, <1>5, EntryStoredKeeps, TripUpdatedKeeps, TripIDsStoredKeeps, OrdersStoredKeeps DEF Ack
<1>6. CASE ListenerRefresh
  BY <1>1, <1>6, ListenerKeeps
<1>7. CASE Failure
  BY <1>1, <1>7, TerminatedKeeps, CallFailedKeeps DEF Failure, Killed, UploadFailed, Patient
<1> QED
  BY <1>2, <1>3, <1>4, <1>5, <1>6, <1>7 DEF Next

\* What every reachable state satisfies, of any number of trips, entries and presses.
LEMMA InvariantHolds == Spec => []IInv
<1>1. Init => IInv
  BY InitBase, InitCareful DEF IInv
<1>2. IInv /\ [Next]_vars => IInv'
  <2> SUFFICES ASSUME IInv, [Next]_vars
               PROVE  IInv'
    OBVIOUS
  <2>1. BaseInv'
    BY BaseKeeps DEF IInv
  <2>2. TypeOK'
    BY <2>1 DEF BaseInv
  <2>3. ASSUME Patient'
        PROVE  CarefulInv'
    BY <2>2, <2>3, CarefulKeeps DEF IInv
  <2> QED
    BY <2>1, <2>3 DEF IInv
<1> QED
  BY <1>1, <1>2, PTL DEF Spec

LEMMA WaitedQuiet ==
  ASSUME IInv, Waited
  PROVE  BaseInv /\ CarefulInv /\ Quiet
BY QuietAtRest DEF IInv, Waited, Patient

\* Whatever the user does, editor, documents and callbacks keep their types and a trip
\* whose uploads have ended has its cover, unless one of them failed; with a user who
\* waits, and saves that come to an end, a save creates one trip at most and the map
\* shows what it will store (EditTripViewController:44-417).
THEOREM TripsSound == Spec => []TripInv
<1>1. ASSUME IInv
      PROVE  TripInv
  <2>1. TypeOK
    BY <1>1 DEF IInv, BaseInv
  <2>2. OneTripPerEntry
    <3> SUFFICES ASSUME hasty = 0, ~lost.save, NEW t \in Trips, NEW q \in Trips, t # q,
                        trips[t] # NoDoc, trips[q] # NoDoc,
                        NEW e \in ToSet(trips[t].entries), e \in ToSet(trips[q].entries)
                 PROVE  FALSE
      BY DEF OneTripPerEntry
    <3>1. Lists(t, e) /\ Lists(q, e)
      BY DEF Lists
    <3>2. e \in Entries
      BY <2>1, <3>1, ListedIsEntry
    <3> QED
      BY <1>1, <3>1, <3>2 DEF IInv, Patient, CarefulInv, ListsInv
  <2>3. TripHasCover
    BY <1>1 DEF IInv, BaseInv, CoverInv, TripHasCover, Settled
  <2>4. MapMatchesList
    BY <1>1, WaitedQuiet DEF MapMatchesList, CarefulInv, WholeInv, Quiet
  <2> QED
    BY <2>1, <2>2, <2>3, <2>4 DEF TripInv
<1> QED
  BY <1>1, InvariantHolds, PTL

\* For a user who waits, what a save has deleted is not stored, and no entry of a
\* deleted trip is but those whose read failed, unless the app ended or a download
\* failed before (EditTripViewController:306, TripInfoViewController:283).
THEOREM DeletionsStand == Spec => []DeletionsLast
<1>1. ASSUME IInv
      PROVE  DeletionsLast
  <2>1. DeletedStayDeleted
    BY <1>1, WaitedQuiet DEF DeletedStayDeleted, CarefulInv, DeletedInv
  <2>2. DeletedTripLeavesNoEntries
    BY <1>1, WaitedQuiet DEF DeletedTripLeavesNoEntries, CarefulInv, GoneInv, Quiet, Stored
  <2> QED
    BY <2>1, <2>2 DEF DeletionsLast
<1> QED
  BY <1>1, InvariantHolds, PTL

\* For a user who waits, the list of a trip, the owner of each entry and its position
\* agree, in both directions, unless a save came to nothing (saveButtonPressed,
\* updateTripID, updateEntryOrder).
THEOREM ListsAndEntriesAgree == Spec => []EntriesMatchTrips
<1>1. ASSUME IInv
      PROVE  EntriesMatchTrips
  <2>1. EntriesNumbered
    <3> SUFFICES ASSUME Waited, ~crashed, NEW t \in Trips, trips[t] # NoDoc,
                        NEW i \in DOMAIN trips[t].entries
                 PROVE  docs[trips[t].entries[i]] = [tripID |-> t, order |-> i - 1]
      BY DEF EntriesNumbered
    <3>1. BaseInv /\ CarefulInv /\ Quiet
      BY <1>1, WaitedQuiet
    <3>2. trips[t].entries \in Seq(Entries)
      BY <3>1 DEF BaseInv, TypeOK, Trip
    <3>3. i \in 1..Len(trips[t].entries)
      BY <3>2
    <3>4. Numbered(t)
      BY <3>1, QuietNumbered DEF CarefulInv
    <3> QED
      BY <3>3, <3>4 DEF Numbered
  <2>2. NoOrphans
    BY <1>1, WaitedQuiet DEF NoOrphans, CarefulInv, WholeInv, Lists
  <2> QED
    BY <2>1, <2>2 DEF EntriesMatchTrips
<1> QED
  BY <1>1, InvariantHolds, PTL
=============================================================================

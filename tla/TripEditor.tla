----------------------------- MODULE TripEditor -----------------------------
(***************************************************************************)
(* Editing and saving a trip (EditTripViewController, the order screen,    *)
(* deleteTrip of TripInfoViewController) on one device.                    *)
(*                                                                         *)
(* A save is a chain of callbacks.  Every entry uploads its photos and     *)
(* writes its document; a counter captured by the press waits until as     *)
(* many entries are stored as the editor holds at that moment; then the    *)
(* trip is written, then the tripID of each entry, then their order.       *)
(*                                                                         *)
(* Only this device writes these documents, so a write shows in them when  *)
(* it is issued; its completion handler runs later, in the order of the    *)
(* writes.  The queue of writes survives the process, its handlers do not. *)
(***************************************************************************)
EXTENDS Naturals, Sequences, FiniteSets, SequencesExt

CONSTANTS Entries,     \* ids of entries (UUIDs, drawn once)
          Trips,       \* document ids of trips, drawn once as well
          NoTrip,      \* tripID is nil
          NoDoc,       \* no such document
          MaxPresses,  \* bound on what the user does
          MaxHasty     \* bound on what the user does while callbacks are outstanding

Trip == [entries : Seq(Entries), cover : BOOLEAN]
Entry == [tripID : Trips \cup {NoTrip}, order : Nat]

ASSUME TripAssumption == /\ NoTrip \notin Trips
                         /\ NoDoc \notin Trip /\ NoDoc \notin Entry
                         /\ MaxPresses \in Nat /\ MaxHasty \in Nat

VARIABLES trips,     \* the collection trips
          docs,      \* the collection entries
          userTrips, \* users/{uid}.trips
          myTrips,   \* currentUser.trips
          vc,        \* the editor
          ann,       \* tripID and order of each CustomAnnotation object
          load,      \* loadEntryData: the entries asked for and those complete
          counts,    \* tempEntryList.count of the closure of each press
          calls,     \* reads and uploads whose callback has not run
          acks,      \* completion handlers of writes, in the order of the writes
          presses, hasty, used, saving,  \* history
          failed, crashed, \* history: a download failed, the process ended
          torn, \* history: it ended while a trip listed an entry that was not stored
          lost  \* history: whether a call of a save or the upload of a cover failed, and
                \* the entries of deleted trips that could not be read

store == <<trips, docs, userTrips>>
past == <<presses, hasty, failed, crashed, torn, lost>>
vars == <<store, myTrips, vc, ann, load, counts, calls, acks, past, used, saving>>

Closed == [phase |-> "closed", tripID |-> NoTrip, list |-> <<>>, deleted |-> {}, map |-> {},
           ready |-> FALSE]
NotLoading == [want |-> {}, got |-> {}]
Presses == 0..MaxPresses

Editor == [phase : {"open", "alert", "closed"}, tripID : Trips \cup {NoTrip},
           list : Seq(Entries), deleted : SUBSET Entries, map : SUBSET Entries,
           ready : BOOLEAN]

Call == [op : {"upload"}, entry : Entries, press : Presses]
        \cup [op : {"user"}, ids : Seq(Entries), press : Presses]
        \cup [op : {"cover", "trip", "fetchTrip"}, trip : Trips]
        \cup [op : {"entry", "fetchEntry"}, entry : Entries]

Completion == [op : {"stored"}, press : Presses]
              \cup [op : {"updated", "tripIDs"}, trip : Trips, ids : Seq(Entries)]
              \cup [op : {"orders"}, trip : Trips]

TypeOK ==
  /\ trips \in [Trips -> Trip \cup {NoDoc}]
  /\ docs \in [Entries -> Entry \cup {NoDoc}]
  /\ userTrips \in SUBSET Trips /\ myTrips \in SUBSET Trips
  /\ vc \in Editor
  /\ ann \in [Entries -> Entry]
  /\ load \in [want : SUBSET Entries, got : SUBSET Entries]
  /\ counts \in [Presses -> Nat]
  /\ calls \subseteq Call
  /\ acks \in Seq(Completion)
  /\ presses \in Presses /\ hasty \in 0..MaxHasty
  /\ used \in SUBSET (Entries \cup Trips)
  /\ saving \in BOOLEAN /\ failed \in BOOLEAN /\ crashed \in BOOLEAN /\ torn \in BOOLEAN
  /\ lost \in [save : BOOLEAN, cover : BOOLEAN, entries : SUBSET Entries]

Settled == calls = {} /\ acks = <<>>

Press == /\ presses < MaxPresses
         /\ presses' = presses + 1
         /\ hasty' = IF Settled THEN hasty ELSE hasty + 1
         /\ hasty' <= MaxHasty
         /\ UNCHANGED <<failed, crashed, torn, lost>>

Init == /\ trips = [t \in Trips |-> NoDoc]
        /\ docs = [e \in Entries |-> NoDoc]
        /\ userTrips = {} /\ myTrips = {}
        /\ vc = Closed
        /\ ann = [e \in Entries |-> [tripID |-> NoTrip, order |-> 0]]
        /\ load = NotLoading
        /\ counts = [s \in Presses |-> 0]
        /\ calls = {} /\ acks = <<>>
        /\ presses = 0 /\ hasty = 0 /\ used = {}
        /\ saving = FALSE /\ failed = FALSE /\ crashed = FALSE /\ torn = FALSE
        /\ lost = [save |-> FALSE, cover |-> FALSE, entries |-> {}]

Stored(e) == docs[e] # NoDoc

Lists(t, e) == trips[t] # NoDoc /\ e \in ToSet(trips[t].entries)

\* The process is gone: what is on the screen, objects, callbacks.
Terminated ==
  /\ vc' = Closed
  /\ myTrips' = userTrips
  /\ load' = NotLoading
  /\ calls' = {} /\ acks' = <<>>
  /\ saving' = FALSE /\ crashed' = TRUE
  /\ torn' = (torn \/ \E t \in Trips, e \in Entries : Lists(t, e) /\ ~Stored(e))
  /\ UNCHANGED <<store, ann, counts, presses, hasty, failed, lost, used>>

-----------------------------------------------------------------------------
(* The editor.                                                             *)

\* A new trip is begun while there is a document id left for it.
NewEditor ==
  /\ vc.phase = "closed" /\ Settled
  /\ Trips \ used # {}
  /\ Press
  /\ vc' = [Closed EXCEPT !.phase = "open"]
  /\ load' = NotLoading
  /\ UNCHANGED <<store, myTrips, ann, counts, calls, acks, used, saving>>

\* "Edit" on the page of a trip.  A trip without a cover photo cannot be decoded
\* as a Trip and is on no page.  An editor is opened only when the callbacks of
\* the one before are through.
EditTrip(t) ==
  /\ vc.phase = "closed" /\ Settled
  /\ t \in myTrips /\ trips[t] # NoDoc /\ trips[t].cover
  /\ Press
  /\ vc' = [Closed EXCEPT !.phase = "open", !.tripID = t]
  /\ load' = NotLoading
  /\ calls' = calls \cup {[op |-> "trip", trip |-> t]}
  /\ UNCHANGED <<store, myTrips, ann, counts, acks, used, saving>>

\* loadEntries: title and ids; the cover photo (loadCoverPhoto) comes with them.
TripLoaded(k) ==
  /\ k.op = "trip"
  /\ LET ids == trips[k.trip].entries IN
       /\ load' = [want |-> ToSet(ids), got |-> {}]
       /\ calls' = (calls \ {k}) \cup {[op |-> "entry", entry |-> e] : e \in ToSet(ids)}
  /\ vc' = [vc EXCEPT !.ready = TRUE]
  /\ UNCHANGED <<store, myTrips, ann, counts, acks, past, used, saving>>

\* loadEntryData: an entry goes on the map when its photos are there; the last
\* one replaces entryList.  A missing document is never counted.  At a document whose
\* tripID was never set ("as! String", line 122) the app ends, which is Killed.
EntryLoaded(k) ==
  /\ k.op = "entry"
  /\ Stored(k.entry) => docs[k.entry].tripID # NoTrip
  /\ calls' = calls \ {k}
  /\ IF Stored(k.entry)
     THEN LET e   == k.entry
              got == load.got \cup {e}
          IN  /\ load' = [load EXCEPT !.got = got]
              /\ ann' = [ann EXCEPT ![e] = docs[e]]
              /\ IF got = load.want
                 THEN \E s \in SetToSeqs(got) :
                        /\ \A i \in 1..(Len(s) - 1) : ann'[s[i]].order <= ann'[s[i + 1]].order
                        /\ vc' = [vc EXCEPT !.map = @ \cup {e}, !.list = s]
                 ELSE vc' = [vc EXCEPT !.map = @ \cup {e}]
     ELSE UNCHANGED <<load, ann, vc>>
  /\ UNCHANGED <<store, myTrips, counts, acks, past, used, saving>>

\* Title and cover photo are there.
FillIn ==
  /\ vc.phase = "open" /\ ~vc.ready
  /\ vc' = [vc EXCEPT !.ready = TRUE]
  /\ UNCHANGED <<store, myTrips, ann, load, counts, calls, acks, past, used, saving>>

addAnnotation(e) ==
  /\ vc.phase = "open"
  /\ e \notin used
  /\ Press
  /\ ann' = [ann EXCEPT ![e] = [tripID |-> NoTrip, order |-> Len(vc.list)]]
  /\ vc' = [vc EXCEPT !.map = @ \cup {e}, !.list = Append(@, e)]
  /\ used' = used \cup {e}
  /\ UNCHANGED <<store, myTrips, load, counts, calls, acks, saving>>

deleteAnnotation(e) ==
  /\ vc.phase = "open"
  /\ e \in vc.map
  /\ Press
  /\ vc' = IF e \in ToSet(vc.list)
           THEN [vc EXCEPT !.map = @ \ {e}, !.deleted = @ \cup {e},
                           !.list = RemoveAt(@, SelectInSeq(@, LAMBDA x : x = e))]
           ELSE [vc EXCEPT !.map = @ \ {e}]
  /\ UNCHANGED <<store, myTrips, ann, load, counts, calls, acks, used, saving>>

\* EditEntryOrderViewController: a row is moved and the list handed back.
Reorder ==
  /\ vc.phase = "open"
  /\ Press
  /\ \E i, j \in DOMAIN vc.list :
       /\ i # j
       /\ vc' = [vc EXCEPT !.list = InsertAt(RemoveAt(@, i), j, @[i])]
  /\ UNCHANGED <<store, myTrips, ann, load, counts, calls, acks, used, saving>>

-----------------------------------------------------------------------------
(* Saving.                                                                 *)

\* updateTripID: documents that do not exist yet refuse the update.
WithTripID(d, ids, t) ==
  [e \in Entries |-> IF e \in ToSet(ids) /\ d[e] # NoDoc THEN [d[e] EXCEPT !.tripID = t] ELSE d[e]]

ObjectsWithTripID(t) ==
  [e \in Entries |-> IF e \in ToSet(vc.list) THEN [ann[e] EXCEPT !.tripID = t] ELSE ann[e]]

\* updateTripInfo acts when the counter meets the number of pins on the map.
UpdatesAtOnce == vc.tripID # NoTrip /\ Cardinality(vc.map) \in 1..Len(vc.list)

Deletes(d) == [e \in Entries |-> IF e \in vc.deleted THEN NoDoc ELSE d[e]]

\* saveButtonPressed: updateTripInfo, the deletions, then every entry uploads.
saveButtonPressed ==
  LET t == vc.tripID IN
  /\ vc.phase = "open"
  /\ vc.list # <<>> /\ vc.ready
  /\ Press
  /\ saving' = TRUE
  /\ IF UpdatesAtOnce
     THEN /\ trips' = [trips EXCEPT ![t].entries = vc.list]
          /\ docs' = Deletes(WithTripID(docs, vc.list, t))
          /\ ann' = ObjectsWithTripID(t)
          /\ acks' = Append(acks, [op |-> "tripIDs", trip |-> t, ids |-> vc.list])
     ELSE docs' = Deletes(docs) /\ UNCHANGED <<trips, ann, acks>>
  /\ calls' = calls
       \cup {[op |-> "upload", entry |-> e, press |-> presses] : e \in ToSet(vc.list)}
       \cup (IF UpdatesAtOnce THEN {[op |-> "cover", trip |-> t]} ELSE {})
  /\ UNCHANGED <<userTrips, myTrips, vc, load, counts, used>>

\* addEntryToFirestore has all its urls: addToFirebase sets the whole document.
Uploaded(k) ==
  /\ k.op = "upload"
  /\ docs' = [docs EXCEPT ![k.entry] = ann[k.entry]]
  /\ calls' = calls \ {k}
  /\ acks' = Append(acks, [op |-> "stored", press |-> k.press])
  /\ UNCHANGED <<trips, userTrips, myTrips, vc, ann, load, counts, past, used, saving>>

\* "print("url \(url!.absoluteString)")": no url, no app.
UploadFailed(k) == k.op = "upload" /\ Terminated

FirstAck(op) == acks # <<>> /\ Head(acks).op = op

\* Mutant: every stored entry counts as the last one.
AnyStored(n) == n >= 1

\* Mutant: the comparison is off by one.
MoreStored(n) == n > Len(vc.list)

EnoughStored(n) == n = Len(vc.list)

\* tempEntryList's didSet
EntryStored ==
  /\ FirstAck("stored")
  /\ LET s == Head(acks).press
         n == counts[s] + 1
     IN  /\ counts' = [counts EXCEPT ![s] = n]
         /\ calls' = IF EnoughStored(n)
                     THEN calls \cup {[op |-> "user", ids |-> vc.list, press |-> s]}
                     ELSE calls
  /\ acks' = Tail(acks)
  /\ UNCHANGED <<store, myTrips, vc, ann, load, past, used, saving>>

NewTripEntries(d, ids, t) == WithTripID(d, ids, t)

NewTripCover(t) == {[op |-> "cover", trip |-> t]}

\* The answer for users/{uid}: a new trip is added, or the trip is updated.
UserFetched(k) ==
  /\ k.op = "user"
  /\ IF vc.tripID = NoTrip
     THEN \E t \in Trips :
            /\ t \notin used
            /\ used' = used \cup {t}
            /\ trips' = [trips EXCEPT ![t] = [entries |-> k.ids, cover |-> FALSE]]
            /\ userTrips' = userTrips \cup {t}
            /\ docs' = NewTripEntries(docs, k.ids, t)
            /\ ann' = ObjectsWithTripID(t)
            /\ acks' = Append(acks, [op |-> "tripIDs", trip |-> t, ids |-> k.ids])
            /\ calls' = (calls \ {k}) \cup NewTripCover(t)
            /\ vc' = IF vc.phase = "open" THEN [vc EXCEPT !.phase = "alert"] ELSE vc
            /\ saving' = FALSE
     ELSE /\ trips' = [trips EXCEPT ![vc.tripID].entries = k.ids]
          /\ acks' = Append(acks, [op |-> "updated", trip |-> vc.tripID, ids |-> k.ids])
          /\ calls' = calls \ {k}
          /\ UNCHANGED <<userTrips, docs, ann, vc, used, saving>>
  /\ UNCHANGED <<myTrips, load, counts, past>>

\* updateTrip.updateData's handler: cover, tripIDs, pop.
TripUpdated ==
  /\ FirstAck("updated")
  /\ LET a == Head(acks) IN
       /\ docs' = WithTripID(docs, a.ids, a.trip)
       /\ ann' = ObjectsWithTripID(a.trip)
       /\ acks' = Append(Tail(acks), [op |-> "tripIDs", trip |-> a.trip, ids |-> a.ids])
       /\ calls' = calls \cup {[op |-> "cover", trip |-> a.trip]}
  /\ vc' = [vc EXCEPT !.phase = "closed"]
  /\ saving' = FALSE
  /\ UNCHANGED <<trips, userTrips, myTrips, load, counts, past, used>>

\* Mutant: positions are counted from 1.
OrderFromOne(i) == i

OrderOf(i) == i - 1

\* updateEntryOrder, after the last of the tripID updates.
TripIDsStored ==
  /\ FirstAck("tripIDs")
  /\ LET a == Head(acks) IN
       /\ docs' = [e \in Entries |->
                     IF Stored(e) /\ e \in ToSet(a.ids)
                     THEN [docs[e] EXCEPT !.order = OrderOf(CHOOSE i \in DOMAIN a.ids : a.ids[i] = e)]
                     ELSE docs[e]]
       /\ acks' = Append(Tail(acks), [op |-> "orders", trip |-> a.trip])
  /\ UNCHANGED <<trips, userTrips, myTrips, vc, ann, load, counts, calls, past, used, saving>>

OrdersStored ==
  /\ FirstAck("orders")
  /\ vc' = [vc EXCEPT !.tripID = IF vc.phase = "closed" THEN @ ELSE Head(acks).trip]
  /\ acks' = Tail(acks)
  /\ UNCHANGED <<store, myTrips, ann, load, counts, calls, past, used, saving>>

CoverUploaded(k) ==
  /\ k.op = "cover"
  /\ trips' = IF trips[k.trip] = NoDoc THEN trips ELSE [trips EXCEPT ![k.trip].cover = TRUE]
  /\ calls' = calls \ {k}
  /\ UNCHANGED <<docs, userTrips, myTrips, vc, ann, load, counts, acks, past, used, saving>>

\* "Trip Saved Successfully", Ok: resetViewController
AlertOk ==
  /\ vc.phase = "alert"
  /\ vc' = [vc EXCEPT !.phase = "closed"]
  /\ UNCHANGED <<store, myTrips, ann, load, counts, calls, acks, past, used, saving>>

-----------------------------------------------------------------------------
(* Deleting a trip.                                                        *)

deleteTrip(t) ==
  /\ vc.phase = "closed" /\ Settled
  /\ t \in myTrips /\ trips[t] # NoDoc /\ trips[t].cover
  /\ Press
  /\ calls' = calls \cup {[op |-> "fetchTrip", trip |-> t]}
  /\ UNCHANGED <<store, myTrips, vc, ann, load, counts, acks, used, saving>>

TripsWithout(t) == [trips EXCEPT ![t] = NoDoc]

\* Mutant: the last entry is left out.
EntriesButLast(t) == ToSet(Front(trips[t].entries))

EntriesOf(t) == ToSet(trips[t].entries)

\* Every entry is read first and deleted in the callback.
TripFetched(k) ==
  /\ k.op = "fetchTrip"
  /\ calls' = (calls \ {k})
       \cup {[op |-> "fetchEntry", entry |-> e] : e \in EntriesOf(k.trip)}
  /\ userTrips' = myTrips \ {k.trip}
  /\ trips' = TripsWithout(k.trip)
  /\ UNCHANGED <<docs, myTrips, vc, ann, load, counts, acks, past, used, saving>>

\* deleteEntry's callback; fetchEntry does not call back for a missing entry.
EntryFetched(k) ==
  /\ k.op = "fetchEntry"
  /\ docs' = [docs EXCEPT ![k.entry] = NoDoc]
  /\ calls' = calls \ {k}
  /\ UNCHANGED <<trips, userTrips, myTrips, vc, ann, load, counts, acks, past, used, saving>>

\* currentUser follows the user's document.
ListenerRefresh ==
  /\ myTrips # userTrips
  /\ myTrips' = userTrips
  /\ UNCHANGED <<store, vc, ann, load, counts, calls, acks, past, used, saving>>

Killed == ~Settled /\ Terminated

\* Any call may come to nothing: an error or a missing document ends its callback
\* after a print at most.  That goes for the trip and the entries an editor loads, the
\* user's document (EditTripViewController:253), the cover and its url (324-338), an
\* entry's document that is refused (CustomAnnotation:157, its completion is not
\* called), and the trip and the entries that are read to be deleted.
CallFailed(k) ==
  /\ calls' = calls \ {k}
  /\ failed' = (failed \/ k.op \in {"trip", "entry"})
  /\ lost' = [save    |-> lost.save \/ k.op \in {"upload", "user"},
              cover   |-> lost.cover \/ k.op = "cover",
              entries |-> lost.entries \cup (IF k.op = "fetchEntry" THEN {k.entry} ELSE {})]
  /\ UNCHANGED <<store, myTrips, vc, ann, load, counts, acks, presses, hasty, crashed, torn,
                 used, saving>>

-----------------------------------------------------------------------------
User == \/ NewEditor \/ FillIn \/ Reorder \/ saveButtonPressed \/ AlertOk
        \/ \E e \in Entries : addAnnotation(e) \/ deleteAnnotation(e)
        \/ \E t \in Trips : EditTrip(t) \/ deleteTrip(t)

Callback(k) == \/ TripLoaded(k) \/ EntryLoaded(k) \/ Uploaded(k) \/ UserFetched(k)
               \/ CoverUploaded(k) \/ TripFetched(k) \/ EntryFetched(k)

Ack == EntryStored \/ TripUpdated \/ TripIDsStored \/ OrdersStored

Failure == \/ Killed
           \/ \E k \in calls : CallFailed(k) \/ UploadFailed(k)

Next == User \/ (\E k \in calls : Callback(k)) \/ Ack \/ ListenerRefresh \/ Failure

Spec == Init /\ [][Next]_vars

\* Every read, upload and write ends; the user owes nothing.
FairSpec == Spec /\ WF_vars(\E k \in calls : Callback(k)) /\ WF_vars(Ack)

-----------------------------------------------------------------------------
\* A user who waits for every answer loses nothing to the order of callbacks, also
\* when downloads fail, unless a save came to nothing.
Waited == Settled /\ hasty = 0 /\ ~lost.save

\* A stored trip lists stored entries only (its page shows none before it has all of
\* them), and the three places that say where an entry belongs agree: the list of the
\* trip, the tripID of the entry and its entryOrder (saveButtonPressed, updateTripID,
\* updateEntryOrder), unless the app ended half way.  (After a reorder the uploads of
\* a save write the old entryOrder again: if the user's document then cannot be read,
\* nothing corrects it.)
EntriesNumbered ==
  Waited /\ ~crashed => \A t \in Trips : trips[t] # NoDoc =>
    \A i \in DOMAIN trips[t].entries :
      docs[trips[t].entries[i]] = [tripID |-> t, order |-> i - 1]

\* No save drops an entry the user did not delete: a stored entry that carries the
\* id of a stored trip is on the list of that trip, also when the app has ended half
\* way of a save or of a deletion.  (A failed download leaves entryList empty, and so
\* does a trip that lists an entry whose upload was cut short; a save then drops the
\* entries of the trip.)
NoOrphans ==
  Waited /\ ~failed /\ ~torn => \A t \in Trips, e \in Entries :
    trips[t] # NoDoc /\ Stored(e) /\ docs[e].tripID = t => e \in ToSet(trips[t].entries)

\* "delete all entries" (TripInfoViewController:283): no entry of a deleted trip is
\* left but those that could not be read, unless the app ended before the callbacks or
\* an earlier save, after a failed download, had dropped the entry from the trip.
DeletedTripLeavesNoEntries ==
  Waited /\ ~failed /\ ~crashed => \A t \in Trips, e \in Entries :
    Stored(e) /\ docs[e].tripID = t => trips[t] # NoDoc \/ e \in lost.entries

\* An entry is in one trip: a save creates one trip at most, also across crashes.
\* (A second press of save before the first has ended adds a second trip.)
OneTripPerEntry ==
  hasty = 0 /\ ~lost.save => \A t, q \in Trips : t # q /\ trips[t] # NoDoc /\ trips[q] # NoDoc =>
    ToSet(trips[t].entries) \cap ToSet(trips[q].entries) = {}

\* "Delete the entries from firebase" (EditTripViewController:306): when a save
\* has ended the deleted entries are not stored.
DeletedStayDeleted ==
  Waited /\ vc.phase # "open" => \A e \in vc.deleted : ~Stored(e)

\* "A trip must contain at least one entry, a cover photo, and a title."
\* (EditTripViewController:44), unless the app ended before the cover was stored, or
\* its upload failed (nothing tells the user).
TripHasCover ==
  Settled /\ ~crashed /\ ~lost.cover => \A t \in Trips : trips[t] # NoDoc => trips[t].cover

\* The pins on the map are the entries that a save will store, unless a failed
\* download or an upload cut short keeps the entries of the trip from the list.
MapMatchesList == Waited /\ ~failed /\ ~torn => vc.map = ToSet(vc.list)

\* The list of a trip, the tripID of its entries and their entryOrder are written by
\* three rounds of writes; once they have landed the three agree in both directions.
EntriesMatchTrips == EntriesNumbered /\ NoOrphans

\* What is deleted stays deleted, entry by entry and with its trip, although the same
\* save deletes and uploads, and the entries of a trip are read one by one after the
\* trip is gone.
DeletionsLast == DeletedStayDeleted /\ DeletedTripLeavesNoEntries

\* Editor, documents and outstanding callbacks keep their types, no two trips share
\* an entry, every trip gets its cover and the map shows what a save will store
\* (EditTripViewController:44-417).
TripInv == TypeOK /\ OneTripPerEntry /\ TripHasCover /\ MapMatchesList

\* "Once this tempEntryList is the same as the entry list count then we are good
\* to save everything and pop" (EditTripViewController:241): it comes to that, unless
\* a call of the save fails.  (Nothing then ends it, and nothing tells the user.)
SaveEnds == saving ~> (~saving \/ hasty > 0 \/ lost.save)
=============================================================================

----------------------------- MODULE EntryCovers ----------------------------
(***************************************************************************)
(* Cover photos of entries (uploadEntryCoverPhoto, EditEntryViewController). *)
(* The photo is stored at entryCovers/<entryID>; the editor of a trip never *)
(* sets entryID, the page of an entry does.  A url stands for its path.    *)
(***************************************************************************)
EXTENDS Naturals, FiniteSets

CONSTANTS Entries,
          Covers,      \* photos that may be chosen
          NoEntry,     \* entryID is nil
          NoCover,
          MaxSaves     \* bound on the entries saved

ASSUME CoversAssumption == /\ NoEntry \notin Entries /\ NoCover \notin Covers
                           /\ MaxSaves \in Nat

Paths == Entries \cup {NoEntry}

VARIABLES coverFiles,  \* Storage: the photo at each path
          cover,       \* coverPhoto of each entry's document, a path
          pins,        \* entries on the map of a trip's editor whose coverPhoto was set
                       \* there to the path of no entry, and has not been stored
          picked,      \* history: the photo last chosen for each entry
          coverJobs,   \* saves whose callbacks have not run
          saves,       \* entries saved so far
          saveFailed,  \* history: a step of a save failed
          clashed      \* history: a path was saved to while another save to it was under way

coversPast == <<saves, saveFailed, clashed>>
coversVars == <<coverFiles, cover, pins, picked, coverJobs, coversPast>>

CoversTypeOK == /\ coverFiles \in [Paths -> Covers \cup {NoCover}]
                /\ cover \in [Entries -> Paths \cup {NoCover}]
                /\ pins \subseteq Entries
                /\ picked \in [Entries -> Covers \cup {NoCover}]
                /\ coverJobs \subseteq [op : {"put", "url", "locate", "update"}, n : 0..MaxSaves,
                                      entry : Entries, path : Paths, pic : Covers]
                /\ saves \in 0..MaxSaves
                /\ saveFailed \in BOOLEAN /\ clashed \in BOOLEAN

CoversInit == /\ coverFiles = [f \in Paths |-> NoCover]
              /\ cover = [e \in Entries |-> NoCover]
              /\ pins = {}
              /\ picked = [e \in Entries |-> NoCover]
              /\ coverJobs = {}
              /\ saves = 0 /\ saveFailed = FALSE /\ clashed = FALSE

\* Nothing keeps the user from saving again, or on another page, meanwhile.
UploadCover(e, path, pic) ==
  /\ saves < MaxSaves
  /\ saves' = saves + 1
  /\ coverJobs' = coverJobs \cup {[op |-> "put", n |-> saves, entry |-> e, path |-> path, pic |-> pic]}
  /\ clashed' = (clashed \/ \E j \in coverJobs : j.path = path)
  /\ UNCHANGED <<coverFiles, cover, pins, picked, saveFailed>>

\* "goEdit" and "fromEditBtn": the segue leaves entryID nil, the path ends in "nil".
SaveFromTrip(e, pic) == UploadCover(e, NoEntry, pic)

\* The page of a stored entry hands its id over.
SaveFromInfo(e, pic) == cover[e] # NoCover /\ UploadCover(e, e, pic)

\* The job goes on with its next call.
Continue(j, op) == coverJobs' = (coverJobs \ {j}) \cup {[j EXCEPT !.op = op]}

\* Mutant: a photo already stored is not replaced.
StoredOnce(j) == IF coverFiles[j.path] = NoCover THEN j.pic ELSE coverFiles[j.path]

StoredPhoto(j) == j.pic

CoverPut(j) ==
  /\ j.op = "put"
  /\ coverFiles' = [coverFiles EXCEPT ![j.path] = StoredPhoto(j)]
  /\ Continue(j, "url")
  /\ UNCHANGED <<cover, pins, picked, coversPast>>

\* The error of putData is not looked at: the url is asked for all the same.
CoverPutFailed(j) ==
  /\ j.op = "put"
  /\ Continue(j, "url")
  /\ saveFailed' = TRUE
  /\ UNCHANGED <<coverFiles, cover, pins, picked, saves, clashed>>

\* Mutant: completion is called although there is no url.
AnyAnswer(path) == TRUE

\* "if let downloadURL = url": Storage has a file at the path.
UrlGiven(path) == coverFiles[path] # NoCover

\* entryCoverURL is set; a trip's entry then waits for the address, the entry's
\* page for its photos.
CoverUrlFetched(j) ==
  /\ j.op = "url"
  /\ UrlGiven(j.path)
  /\ Continue(j, IF j.path = NoEntry THEN "locate" ELSE "update")
  /\ UNCHANGED <<coverFiles, cover, pins, picked, coversPast>>

\* geocodeAddressString answered: addAnnotation, or the pin's own fields.  The
\* document comes with the save of the trip.
LocationFound(j) ==
  /\ j.op = "locate"
  /\ pins' = pins \cup {j.entry}
  /\ coverJobs' = coverJobs \ {j}
  /\ UNCHANGED <<coverFiles, cover, picked, coversPast>>

\* saveButtonPressed of the trip: addToFirebase writes the pin's coverPhoto.
TripSaved(e) ==
  /\ e \in pins
  /\ cover' = [cover EXCEPT ![e] = NoEntry]
  /\ pins' = pins \ {e}
  /\ UNCHANGED <<coverFiles, picked, coverJobs, coversPast>>

\* The trip's editor is left without a save.
EditorLeft == pins # {} /\ pins' = {} /\ UNCHANGED <<coverFiles, cover, picked, coverJobs, coversPast>>

\* updateEntry has stored the photos and writes the document.
EntryUpdated(j) ==
  /\ j.op = "update"
  /\ cover' = [cover EXCEPT ![j.entry] = j.path]
  /\ picked' = [picked EXCEPT ![j.entry] = j.pic]
  /\ coverJobs' = coverJobs \ {j}
  /\ UNCHANGED <<coverFiles, pins, coversPast>>

\* No url, no address, or a photo without a url: the save ends without a word.
SaveFailed(j) == /\ j.op # "put"
                 /\ coverJobs' = coverJobs \ {j}
                 /\ saveFailed' = TRUE
                 /\ UNCHANGED <<coverFiles, cover, pins, picked, saves, clashed>>

\* iOS ends the app; an upload that was under way is lost.
SavesKilled == /\ coverJobs # {}
               /\ coverJobs' = {} /\ pins' = {}
               /\ saveFailed' = TRUE
               /\ UNCHANGED <<coverFiles, cover, picked, saves, clashed>>

CoversNext == \/ \E e \in Entries, pic \in Covers : SaveFromTrip(e, pic) \/ SaveFromInfo(e, pic)
              \/ \E j \in coverJobs : \/ CoverPut(j) \/ CoverPutFailed(j) \/ CoverUrlFetched(j)
                                    \/ LocationFound(j) \/ EntryUpdated(j) \/ SaveFailed(j)
              \/ \E e \in Entries : TripSaved(e)
              \/ EditorLeft \/ SavesKilled

CoversSpec == CoversInit /\ [][CoversNext]_coversVars

-----------------------------------------------------------------------------
SavesUndisturbed == coverJobs = {} /\ ~saveFailed /\ ~clashed

\* The page of an entry saves under the entry's id: from then on the cover is the
\* photo last chosen there, whatever is saved for other entries meanwhile, until a
\* trip's editor sets the url back to the shared path.
OwnCoverIsChosen ==
  SavesUndisturbed => \A e \in Entries : cover[e] = e => coverFiles[e] = picked[e]

\* Saves that overlap, fail half way or are cut off leave no entry whose cover leads
\* nowhere (uploadEntryCoverPhoto, updateEntry).
CoverStored == \A e \in Entries : cover[e] # NoCover => coverFiles[cover[e]] # NoCover

\* Paths lead to photos and nothing else, and to one for every cover
\* (EditEntryViewController:227-246).
CoversInv == CoversTypeOK /\ CoverStored
=============================================================================

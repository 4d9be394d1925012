----------------------------- MODULE EntryPhotos ----------------------------
(***************************************************************************)
(* The photos of one entry: files in Storage and the mediaList of its      *)
(* document.  Two routines write them, both joined by a counter that is    *)
(* compared with the number of photos in the editor at that moment:        *)
(*   "image"   addEntryToFirestore (CustomAnnotation), from a trip's editor *)
(*   "images"  updateEntry (EditEntryViewController), from the entry's page *)
(* A url stands for the path it was made from, <<routine, index>>.         *)
(***************************************************************************)
EXTENDS Naturals, Sequences, FiniteSets, SequencesExt

CONSTANTS Pictures,
          NoFile, NoDoc,
          MaxPhotos,   \* bound on the photos of an editor
          MaxPresses,  \* bound on what the user does
          MaxHasty     \* bound on what the user does while uploads are under way

ASSUME PhotosAssumption == /\ NoFile \notin Pictures
                           /\ MaxPhotos \in Nat /\ MaxPresses \in Nat /\ MaxHasty \in Nat

VARIABLES photos,    \* images of the annotation, entryImage of the entry's editor
          urls,      \* imageUrls, entryInfoImages
          editor,    \* the routine whose save button is on the screen; gone: deleted
          storage,   \* the files of the entry
          media,     \* mediaList of its document
          jobs,      \* downloads, uploads, url requests and deletions under way
          index,     \* the counter of each press
          chosen,    \* history: the photos the last save is to store
          presses, hasty,  \* history: presses, those that did not wait for a save,
          late, failed     \* whether a photo arrived during the uploads of a save, and
                           \* whether an upload failed or the app ended

past == <<presses, hasty, late, failed>>
vars == <<photos, urls, editor, storage, media, jobs, index, chosen, past>>

Kinds == {"image", "images"}
Files == Kinds \X (0..(MaxPhotos - 1))
Presses == 0..MaxPresses
Albums == {album \in BoundedSeq(Pictures, MaxPhotos) : IsInjective(album)}

TypeOK ==
  /\ photos \in [Kinds -> Seq(Pictures)] /\ \A k \in Kinds : Len(photos[k]) <= MaxPhotos
  /\ urls \in [Kinds -> Seq(Files)]
  /\ editor \in Kinds \cup {"none", "gone"}
  /\ storage \in [Files -> Pictures \cup {NoFile}]
  /\ media \in Seq(Files) \cup {NoDoc}
  /\ jobs \subseteq [op : {"put", "url"}, press : Presses, file : Files, pic : Pictures]
                    \cup [op : {"cover"}, press : Presses]
                    \cup [op : {"load"}, file : Files, n : 1..MaxPhotos]
                    \cup [op : {"delete"}, file : Kinds \X (0..MaxPhotos)]
  /\ index \in [Presses -> 0..MaxPhotos]
  /\ chosen \in SUBSET Pictures
  /\ presses \in Presses /\ hasty \in 0..MaxHasty
  /\ late \in BOOLEAN /\ failed \in BOOLEAN

SaveUnderWay == \E j \in jobs : j.op # "load"
Uploading(k) == \E j \in jobs : j.op \in {"put", "url"} /\ j.file[1] = k

Press == /\ presses < MaxPresses
         /\ presses' = presses + 1
         /\ hasty' = IF SaveUnderWay THEN hasty + 1 ELSE hasty
         /\ hasty' <= MaxHasty
         /\ UNCHANGED <<late, failed>>

\* A new entry, put together on the page that adds it to a trip.
Init == /\ \E album \in Albums \ {<<>>} : photos = [k \in Kinds |-> IF k = "image" THEN album ELSE <<>>]
        /\ urls = [k \in Kinds |-> <<>>]
        /\ editor = "image"
        /\ storage = [f \in Files |-> NoFile]
        /\ media = NoDoc
        /\ jobs = {} /\ index = [s \in Presses |-> 0]
        /\ chosen = {}
        /\ presses = 0 /\ hasty = 0 /\ late = FALSE /\ failed = FALSE

Closed == /\ editor' = IF editor = "gone" THEN "gone" ELSE "none"
          /\ photos' = [k \in Kinds |-> <<>>]
          /\ urls' = [k \in Kinds |-> <<>>]

-----------------------------------------------------------------------------
Loads == {j \in jobs : j.op = "load"}

\* The trip's editor has an entry once all of its photos have come, in any order
\* (module TripEditor).
OpenEditor ==
  /\ editor # "gone" /\ ~SaveUnderWay
  /\ media # NoDoc /\ Len(media) <= MaxPhotos
  /\ Press
  /\ \E order \in SetToSeqs(DOMAIN media) :
       photos' = [photos EXCEPT !["image"] = [i \in DOMAIN media |-> storage[media[order[i]]]]]
  /\ urls' = [urls EXCEPT !["image"] = media]
  /\ editor' = "image"
  /\ jobs' = {}
  /\ UNCHANGED <<storage, media, index, chosen>>

\* The entry's page opens its editor, which downloads the photos one by one.
loadImagesFromEntryInfo ==
  /\ editor # "gone" /\ ~SaveUnderWay
  /\ media # NoDoc /\ Len(media) <= MaxPhotos
  /\ Press
  /\ photos' = [photos EXCEPT !["images"] = <<>>]
  /\ urls' = [urls EXCEPT !["images"] = media]
  /\ editor' = "images"
  /\ jobs' = {[op |-> "load", file |-> media[i], n |-> i] : i \in DOMAIN media}
  /\ UNCHANGED <<storage, media, index, chosen>>

\* A photo joins the others on the page, also those a save is storing.
PhotoLoaded(j) ==
  /\ j.op = "load" /\ storage[j.file] # NoFile
  /\ photos' = [photos EXCEPT !["images"] = Append(@, storage[j.file])]
  /\ jobs' = jobs \ {j}
  /\ late' = (late \/ Uploading("images"))
  /\ UNCHANGED <<urls, editor, storage, media, index, chosen, presses, hasty, failed>>

\* "Error downloading image" is printed.
PhotoNotLoaded(j) ==
  /\ j.op = "load"
  /\ jobs' = jobs \ {j}
  /\ UNCHANGED <<photos, urls, editor, storage, media, index, chosen, past>>

\* Photos are picked and removed.
EditPhotos(album) ==
  /\ editor \in Kinds
  /\ album # photos[editor] /\ Len(album) + Cardinality(Loads) <= MaxPhotos
  /\ Press
  /\ photos' = [photos EXCEPT ![editor] = album]
  /\ UNCHANGED <<urls, editor, storage, media, jobs, index, chosen>>

FileName(k, i) == <<k, i - 1>>

\* Mutant: removeAll is forgotten.
UrlsKept(list) == list

UrlsCleared(list) == <<>>

\* The list of urls is emptied and every photo starts its upload.
StartUploads(s, k, others) ==
  /\ urls' = [urls EXCEPT ![k] = UrlsCleared(@)]
  /\ jobs' = others \cup {[op |-> "put", press |-> s, file |-> FileName(k, i),
                           pic |-> photos[k][i]] : i \in DOMAIN photos[k]}
  /\ chosen' = ToSet(photos[k])

\* saveButtonPressed of the trip: addEntryToFirestore.
Save ==
  /\ editor = "image" /\ photos["image"] # <<>>
  /\ Press
  /\ StartUploads(presses, "image", jobs)
  /\ UNCHANGED <<photos, editor, storage, media, index>>

\* saveButton of the entry's page: the cover is uploaded first (module EntryCovers).
saveButton ==
  /\ editor = "images" /\ photos["images"] # <<>>
  /\ Press
  /\ jobs' = jobs \cup {[op |-> "cover", press |-> presses]}
  /\ chosen' = ToSet(photos["images"])
  /\ UNCHANGED <<photos, urls, editor, storage, media, index>>

\* updateEntry, with the photos that are on the page by now; "0...entryImage.count - 1"
\* of an empty page ends the app.
CoverUploaded(j) ==
  /\ j.op = "cover"
  /\ photos["images"] # <<>>
  /\ StartUploads(j.press, "images", jobs \ {j})
  /\ UNCHANGED <<photos, editor, storage, media, index, past>>

\* There is no url: the save ends without a word.
CoverFailed(j) ==
  /\ j.op = "cover"
  /\ jobs' = jobs \ {j}
  /\ failed' = TRUE
  /\ UNCHANGED <<photos, urls, editor, storage, media, index, chosen, presses, hasty, late>>

PhotoPut(j) ==
  /\ j.op = "put"
  /\ storage' = [storage EXCEPT ![j.file] = j.pic]
  /\ jobs' = (jobs \ {j}) \cup {[j EXCEPT !.op = "url"]}
  /\ UNCHANGED <<photos, urls, editor, media, index, chosen, past>>

\* The error of putData is printed and the url asked for all the same.
PutFailed(j) ==
  /\ failed' = TRUE
  /\ j.op = "put"
  /\ jobs' = (jobs \ {j}) \cup {[j EXCEPT !.op = "url"]}
  /\ UNCHANGED <<photos, urls, editor, storage, media, index, chosen, presses, hasty, late>>

\* Mutant: the counter is compared before it is incremented.
OneTooMany(n, k) == n - 1 = Len(photos[k])

AllThere(n, k) == n = Len(photos[k])

\* The entry's page closes its editor; the trip's editor waits for other entries.
AfterWrite == IF editor = "images" THEN {"none"}
                 ELSE IF editor = "image" THEN {"image", "none"} ELSE {editor}

\* downloadURL answered: the url is listed, and the last one writes the document.
UrlFetched(j) ==
  LET k == j.file[1]
      n == index[j.press] + 1
  IN
  /\ j.op = "url"
  /\ storage[j.file] # NoFile
  /\ urls' = [urls EXCEPT ![k] = Append(@, j.file)]
  /\ index' = [index EXCEPT ![j.press] = n]
  /\ IF AllThere(n, k) THEN media' = urls'[k] /\ editor' \in AfterWrite
                      ELSE UNCHANGED <<media, editor>>
  /\ jobs' = jobs \ {j}
  /\ UNCHANGED <<photos, storage, chosen, past>>

\* The document is refused: the error is printed, and the entry's page is closed.
DocumentRefused(j) ==
  LET k == j.file[1] IN
  /\ j.op = "url"
  /\ storage[j.file] # NoFile
  /\ AllThere(index[j.press] + 1, k)
  /\ urls' = [urls EXCEPT ![k] = Append(@, j.file)]
  /\ index' = [index EXCEPT ![j.press] = @ + 1]
  /\ editor' = IF editor = "images" THEN "none" ELSE editor
  /\ jobs' = jobs \ {j}
  /\ failed' = TRUE
  /\ UNCHANGED <<photos, storage, media, chosen, presses, hasty, late>>

\* Mutant: only the files are deleted.
DocumentStays(m) == m

DocumentDeleted(m) == NoDoc

\* deleteEntry: the document, then the files 0 ... numPhotos of addEntryToFirestore.
deleteEntry ==
  /\ editor = "image"
  /\ Press
  /\ media' = DocumentDeleted(media)
  /\ jobs' = jobs \cup {[op |-> "delete", file |-> <<"image", i>>] : i \in 0..Len(photos["image"])}
  /\ editor' = "gone"
  /\ UNCHANGED <<photos, urls, storage, index, chosen>>

FileDeleted(j) ==
  /\ j.op = "delete"
  /\ storage' = [f \in Files |-> IF f = j.file THEN NoFile ELSE storage[f]]
  /\ jobs' = jobs \ {j}
  /\ UNCHANGED <<photos, urls, editor, media, index, chosen, past>>

\* updateEntry: "guard let downloadURL = url else {return}".
UrlMissing(j) ==
  /\ failed' = TRUE
  /\ j.op = "url" /\ j.file[1] = "images"
  /\ jobs' = jobs \ {j}
  /\ UNCHANGED <<photos, urls, editor, storage, media, index, chosen, presses, hasty, late>>

\* iOS ends the app, or addEntryToFirestore unwraps a missing url ("url!"), or
\* updateEntry finds no photo on the page: what was stored stays.
Killed ==
  /\ failed' = TRUE
  /\ jobs # {}
  /\ Closed
  /\ jobs' = {}
  /\ UNCHANGED <<storage, media, index, chosen, presses, hasty, late>>

Callback(j) == \/ PhotoLoaded(j) \/ CoverUploaded(j) \/ PhotoPut(j) \/ UrlFetched(j)
               \/ FileDeleted(j)

Failure(j) == \/ PhotoNotLoaded(j) \/ CoverFailed(j) \/ PutFailed(j) \/ UrlMissing(j)
              \/ DocumentRefused(j)

Next == \/ OpenEditor \/ loadImagesFromEntryInfo
        \/ Save \/ saveButton \/ deleteEntry \/ Killed
        \/ \E album \in Albums : EditPhotos(album)
        \/ \E j \in jobs : Callback(j) \/ Failure(j)

Spec == Init /\ [][Next]_vars

\* Storage answers; the user owes nothing.
FairSpec == Spec /\ WF_vars(\E j \in jobs : Callback(j))

-----------------------------------------------------------------------------
\* A document never lists a photo that is not stored, however saves overlap, when
\* uploads fail and when the app ends half way (addEntryToFirestore waits for every
\* url), unless the entry is deleted while a save is under way.
MediaStored ==
  media # NoDoc /\ (editor = "gone" => hasty = 0) => \A f \in ToSet(media) : storage[f] # NoFile

\* Files are named by the positions they are stored at, one document, one album, and
\* nothing is listed that is not stored (CustomAnnotation:66-140).
AlbumInv == TypeOK /\ MediaStored

Undisturbed == hasty = 0 /\ ~late /\ ~failed

\* "used didset to deal with synchronization issues" (CustomAnnotation:106): when
\* all callbacks of saves that did not overlap ran, the document lists every photo
\* of the last save once, whichever page saved it and whatever was stored before, also
\* when photos of the page failed to load, or came before its uploads began.
MediaFaithful ==
  Undisturbed /\ ~SaveUnderWay /\ media # NoDoc /\ editor # "gone" =>
    /\ IsInjective(media)
    /\ {storage[f] : f \in ToSet(media)} = chosen

\* A save ends with a document that lists its photos, unless it is disturbed (a photo
\* that arrives during the uploads changes the number they are compared with) or the
\* user saves something else or deletes the entry.
SaveIsStored ==
  \A ps \in (SUBSET Pictures) \ {{}} :
    chosen = ps ~> \/ ~Undisturbed \/ editor = "gone" \/ chosen # ps
                   \/ media # NoDoc /\ {storage[f] : f \in ToSet(media)} = ps
=============================================================================

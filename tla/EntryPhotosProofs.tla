-------------------------- MODULE EntryPhotosProofs --------------------------
(***************************************************************************)
(* Whatever saves overlap, whichever uploads fail and whenever the app is  *)
(* ended: an entry's document lists stored photos only, for any number of  *)
(* photos and presses, unless the entry is deleted during a save.          *)
(*                                                                         *)
(* MediaStored is not preserved by itself: a document is written from the  *)
(* list of urls of a page, and files go away one by one.  Kept says the    *)
(* same of the lists of both pages, and that files are deleted only of an  *)
(* entry that is gone.  Counted bounds the counter of each press by the    *)
(* photos whose url is still to come, Room the photos of a page by those   *)
(* that may still arrive.                                                  *)
(*                                                                         *)
(* And a document lists the photos of the last save, each once, if nothing *)
(* disturbed it.  Saving follows such a save: every photo is to be stored, *)
(* stored, or stored and listed, and the counter is the length of the list.*)
(***************************************************************************)
EXTENDS EntryPhotos, EntryCovers, FiniteSetTheorems, TLAPS

Upload == [op : {"put", "url"}, press : Presses, file : Files, pic : Pictures]
Cover == [op : {"cover"}, press : Presses]
Load == [op : {"load"}, file : Files, n : 1..MaxPhotos]
Deletion == [op : {"delete"}, file : Kinds \X (0..MaxPhotos)]
Job == Upload \cup Cover \cup Load \cup Deletion

Ups == {j \in jobs : j.op \in {"put", "url"}}
Uploads(s) == {j \in Ups : j.press = s}
Covered(s) == \E j \in jobs : j.op = "cover" /\ j.press = s

Kept ==
  /\ editor # "gone" =>
       /\ \A j \in jobs : j.op # "delete"
       /\ \A k \in Kinds : \A f \in ToSet(urls[k]) : storage[f] # NoFile
       /\ media # NoDoc => \A f \in ToSet(media) : storage[f] # NoFile
  /\ editor = "gone" /\ hasty = 0 => media = NoDoc /\ \A j \in jobs : j.op \in {"delete", "load"}

\* Every press counts its own photos; those to come have not begun, and those whose
\* cover is under way neither.
Counted ==
  \A s \in Presses :
    /\ IsFiniteSet(Uploads(s))
    /\ index[s] + Cardinality(Uploads(s)) <= MaxPhotos
    /\ s >= presses \/ Covered(s) => Uploads(s) = {} /\ index[s] = 0
    /\ s >= presses => ~Covered(s)

Room == IsFiniteSet(Loads) /\ Len(photos["images"]) + Cardinality(Loads) <= MaxPhotos

IInv == TypeOK /\ Kept /\ Counted /\ Room

-----------------------------------------------------------------------------
(* Albums, urls and jobs.                                                  *)

LEMMA PhotosCounted == MaxPhotos \in Nat
BY PhotosAssumption

LEMMA AlbumShape ==
  ASSUME NEW album \in Albums
  PROVE  album \in Seq(Pictures) /\ Len(album) \in Nat /\ Len(album) <= MaxPhotos
<1>1. PICK n \in 0..MaxPhotos : album \in [1..n -> Pictures]
  BY DEF Albums, BoundedSeq, SeqOf
<1> QED
  BY <1>1, PhotosCounted

\* A page whose photos are set to another album.
LEMMA PageSet ==
  ASSUME TypeOK, NEW k \in Kinds, NEW album \in Seq(Pictures), Len(album) <= MaxPhotos,
         photos' = [photos EXCEPT ![k] = album]
  PROVE  /\ photos' \in [Kinds -> Seq(Pictures)]
         /\ \A m \in Kinds : Len(photos'[m]) <= MaxPhotos
         /\ photos'[k] = album /\ \A m \in Kinds \ {k} : photos'[m] = photos[m]
BY DEF TypeOK

LEMMA UrlsSet ==
  ASSUME TypeOK, NEW k \in Kinds, NEW list \in Seq(Files),
         urls' = [urls EXCEPT ![k] = list]
  PROVE  /\ urls' \in [Kinds -> Seq(Files)]
         /\ urls'[k] = list /\ \A m \in Kinds \ {k} : urls'[m] = urls[m]
BY DEF TypeOK

LEMMA Appended ==
  ASSUME NEW S, NEW s \in Seq(S), NEW e \in S
  PROVE  Append(s, e) \in Seq(S) /\ \A f \in ToSet(Append(s, e)) : f \in ToSet(s) \/ f = e
BY DEF ToSet

LEMMA NoUrls == ToSet(<<>>) = {}
BY DEF ToSet

LEMMA Jobs ==
  ASSUME TypeOK, NEW j \in jobs
  PROVE  /\ j \in Job
         /\ j.op \in {"put", "url"} => j \in Upload
         /\ j.op = "cover" => j \in Cover
         /\ j.op = "load" => j \in Load
         /\ j.op = "delete" => j \in Deletion
BY DEF TypeOK, Job, Upload, Cover, Load, Deletion

LEMMA UploadContinues ==
  ASSUME NEW j \in Upload
  PROVE  LET k == [j EXCEPT !.op = "url"]
         IN  k \in Upload /\ k.op = "url" /\ k.press = j.press /\ k.file = j.file /\ k.pic = j.pic
BY DEF Upload

LEMMA JobsTyped ==
  ASSUME jobs' \subseteq Job
  PROVE  jobs' \subseteq [op : {"put", "url"}, press : Presses, file : Files, pic : Pictures]
                         \cup [op : {"cover"}, press : Presses]
                         \cup [op : {"load"}, file : Files, n : 1..MaxPhotos]
                         \cup [op : {"delete"}, file : Kinds \X (0..MaxPhotos)]
BY DEF Job, Upload, Cover, Load, Deletion

LEMMA Numbers ==
  ASSUME IInv, NEW s \in Presses
  PROVE  /\ IsFiniteSet(Uploads(s)) /\ Cardinality(Uploads(s)) \in Nat
         /\ index[s] \in Nat /\ MaxPhotos \in Nat
         /\ s \in Nat /\ presses \in Nat
BY FS_CardinalityType, PhotosAssumption DEF IInv, Counted, TypeOK, Presses

\* Nothing new is to come of any press.
LEMMA StillCounted ==
  ASSUME IInv, UNCHANGED index, presses' \in Nat, presses' >= presses,
         \A s \in Presses : Uploads(s)' \subseteq Uploads(s) /\ (Covered(s)' => Covered(s))
  PROVE  Counted'
<1> SUFFICES ASSUME NEW s \in Presses
             PROVE  /\ IsFiniteSet(Uploads(s)')
                    /\ index[s] + Cardinality(Uploads(s)') <= MaxPhotos
                    /\ s >= presses' \/ Covered(s)' => Uploads(s)' = {} /\ index[s] = 0
                    /\ s >= presses' => ~Covered(s)'
  BY DEF Counted
<1>1. /\ IsFiniteSet(Uploads(s)) /\ Cardinality(Uploads(s)) \in Nat
      /\ index[s] \in Nat /\ MaxPhotos \in Nat /\ s \in Nat /\ presses \in Nat
  BY Numbers
<1>2. /\ index[s] + Cardinality(Uploads(s)) <= MaxPhotos
      /\ s >= presses \/ Covered(s) => Uploads(s) = {} /\ index[s] = 0
      /\ s >= presses => ~Covered(s)
  BY DEF IInv, Counted
<1>3. /\ IsFiniteSet(Uploads(s)') /\ Cardinality(Uploads(s)') <= Cardinality(Uploads(s))
  BY <1>1, FS_Subset
<1>4. Cardinality(Uploads(s)') \in Nat
  BY <1>3, FS_CardinalityType
<1> QED
  BY <1>1, <1>2, <1>3, <1>4

\* One upload goes on: as many are to come.
LEMMA Continued ==
  ASSUME IInv, NEW j \in jobs, j \in Upload, NEW k \in Upload, k.press = j.press,
         jobs' = (jobs \ {j}) \cup {k}, UNCHANGED <<index, presses>>
  PROVE  Counted'
<1> SUFFICES ASSUME NEW s \in Presses
             PROVE  /\ IsFiniteSet(Uploads(s)')
                    /\ index[s] + Cardinality(Uploads(s)') <= MaxPhotos
                    /\ s >= presses \/ Covered(s)' => Uploads(s)' = {} /\ index[s] = 0
                    /\ s >= presses => ~Covered(s)'
  BY DEF Counted
<1>1. /\ IsFiniteSet(Uploads(s)) /\ Cardinality(Uploads(s)) \in Nat
      /\ index[s] \in Nat /\ MaxPhotos \in Nat
      /\ index[s] + Cardinality(Uploads(s)) <= MaxPhotos
      /\ s >= presses \/ Covered(s) => Uploads(s) = {} /\ index[s] = 0
      /\ s >= presses => ~Covered(s)
  BY Numbers DEF IInv, Counted
<1>2. j.op \in {"put", "url"} /\ k.op \in {"put", "url"}
  BY DEF Upload
<1>3. Covered(s)' => Covered(s)
  BY <1>2 DEF Covered
<1>4. CASE j.press = s
  <2>1. Uploads(s)' = (Uploads(s) \ {j}) \cup {k} /\ j \in Uploads(s)
    BY <1>2, <1>4 DEF Uploads, Ups
  <2> DEFINE left == Uploads(s) \ {j}
  <2>2. IsFiniteSet(left) /\ Cardinality(left) = Cardinality(Uploads(s)) - 1
    BY <1>1, <2>1, FS_RemoveElement
  <2>3. Uploads(s)' = left \cup {k}
    BY <2>1
  <2> HIDE DEF left
  <2>4. /\ IsFiniteSet(left \cup {k})
        /\ Cardinality(left \cup {k}) = IF k \in left THEN Cardinality(left)
                                                     ELSE Cardinality(left) + 1
    BY <2>2, FS_AddElement
  <2>5. IsFiniteSet(Uploads(s)') /\ Cardinality(Uploads(s)') <= Cardinality(Uploads(s))
    BY <1>1, <2>2, <2>3, <2>4
  <2>6. Cardinality(Uploads(s)') \in Nat
    BY <2>5, FS_CardinalityType
  <2> QED
    BY <1>1, <1>3, <2>1, <2>5, <2>6
<1>5. CASE j.press # s
  <2>1. Uploads(s)' = Uploads(s)
    BY <1>2, <1>5 DEF Uploads, Ups
  <2> QED
    BY <1>1, <1>3, <2>1
<1> QED
  BY <1>4, <1>5

\* A press begins as many uploads as there are photos on its page.
LEMMA SaveCounts ==
  ASSUME IInv, UNCHANGED index, presses' \in Nat, presses' >= presses,
         NEW s0 \in Presses, s0 < presses', Uploads(s0) = {}, index[s0] = 0,
         NEW n \in Nat, n <= MaxPhotos, NEW up,
         up \in [1..n -> Upload], \A i \in 1..n : up[i].press = s0,
         Ups' = Ups \cup {up[i] : i \in 1..n},
         \A s \in Presses : Covered(s)' => Covered(s) /\ s # s0
  PROVE  Counted'
<1> SUFFICES ASSUME NEW s \in Presses
             PROVE  /\ IsFiniteSet(Uploads(s)')
                    /\ index[s] + Cardinality(Uploads(s)') <= MaxPhotos
                    /\ s >= presses' \/ Covered(s)' => Uploads(s)' = {} /\ index[s] = 0
                    /\ s >= presses' => ~Covered(s)'
  BY DEF Counted
<1>1. /\ IsFiniteSet(Uploads(s)) /\ index[s] + Cardinality(Uploads(s)) <= MaxPhotos
      /\ s >= presses \/ Covered(s) => Uploads(s) = {} /\ index[s] = 0
      /\ s >= presses => ~Covered(s)
      /\ s \in Nat /\ presses \in Nat /\ MaxPhotos \in Nat
  BY Numbers DEF IInv, Counted
<1>2. CASE s = s0
  <2> DEFINE new == {up[i] : i \in 1..n}
  <2>1. Uploads(s)' = new
    BY <1>2 DEF Uploads
  <2>2. IsFiniteSet(1..n) /\ Cardinality(1..n) = n
    BY FS_Interval
  <2>3. up \in Surjection(1..n, new)
    BY DEF Surjection
  <2> HIDE DEF new
  <2>4. IsFiniteSet(new) /\ Cardinality(new) <= n
    BY <2>2, <2>3, FS_Surjection
  <2>5. Cardinality(new) \in Nat
    BY <2>4, FS_CardinalityType
  <2> QED
    BY <1>1, <1>2, <2>1, <2>4, <2>5
<1>3. CASE s # s0
  <2>1. Uploads(s)' = Uploads(s)
    BY <1>3 DEF Uploads
  <2> QED
    BY <1>1, <1>3, <2>1
<1> QED
  BY <1>2, <1>3

\* As many photos may still arrive.
LEMMA StillRoom ==
  ASSUME Room, TypeOK, Loads' \subseteq Loads,
         Len(photos'["images"]) <= Len(photos["images"]), Len(photos'["images"]) \in Nat
  PROVE  Room'
<1>1. IsFiniteSet(Loads) /\ Len(photos["images"]) + Cardinality(Loads) <= MaxPhotos
  BY DEF Room
<1>2. IsFiniteSet(Loads') /\ Cardinality(Loads') <= Cardinality(Loads)
  BY <1>1, FS_Subset
<1>3. Cardinality(Loads') \in Nat /\ Cardinality(Loads) \in Nat
  BY <1>1, <1>2, FS_CardinalityType
<1>4. Len(photos["images"]) \in Nat /\ MaxPhotos \in Nat
  BY PhotosCounted DEF TypeOK, Kinds
<1> QED
  BY <1>1, <1>2, <1>3, <1>4 DEF Room

LEMMA Pressed ==
  ASSUME IInv, Press
  PROVE  /\ presses \in Presses /\ presses' \in Presses /\ presses' = presses + 1
         /\ presses \in Nat /\ presses' \in Nat /\ presses' >= presses
         /\ hasty' \in 0..MaxHasty /\ hasty <= hasty' /\ hasty \in Nat
         /\ hasty' = 0 => ~SaveUnderWay /\ hasty = 0
         /\ late' \in BOOLEAN /\ failed' \in BOOLEAN
         /\ UNCHANGED <<late, failed>>
<1>1. presses \in 0..MaxPresses /\ hasty \in 0..MaxHasty /\ MaxHasty \in Nat /\ MaxPresses \in Nat
  BY PhotosAssumption DEF IInv, TypeOK, Presses
<1>2. presses' = presses + 1 /\ presses < MaxPresses
  BY DEF Press
<1>3. hasty' = (IF SaveUnderWay THEN hasty + 1 ELSE hasty) /\ hasty' <= MaxHasty
  BY DEF Press
<1>4. /\ hasty' \in 0..MaxHasty /\ hasty <= hasty' /\ hasty \in Nat
      /\ hasty' = 0 => ~SaveUnderWay /\ hasty = 0
  BY <1>1, <1>3
<1>5. late' \in BOOLEAN /\ failed' \in BOOLEAN /\ UNCHANGED <<late, failed>>
  BY DEF Press, IInv, TypeOK
<1> QED
  BY <1>1, <1>2, <1>4, <1>5 DEF Presses

-----------------------------------------------------------------------------
(* The page.                                                               *)

LEMMA InitHolds == Init => IInv
<1> SUFFICES ASSUME Init PROVE IInv
  OBVIOUS
<1>1. presses \in Presses /\ hasty \in 0..MaxHasty
  BY PhotosAssumption DEF Init, Presses
<1>2. PICK album \in Albums : photos = [k \in Kinds |-> IF k = "image" THEN album ELSE <<>>]
  BY DEF Init
<1>3. /\ photos \in [Kinds -> Seq(Pictures)] /\ \A k \in Kinds : Len(photos[k]) <= MaxPhotos
      /\ photos["images"] = <<>>
  BY <1>2, AlbumShape, PhotosCounted DEF Kinds
<1>4. urls \in [Kinds -> Seq(Files)] /\ storage \in [Files -> Pictures \cup {NoFile}]
  BY DEF Init
<1>5. index \in [Presses -> 0..MaxPhotos] /\ \A s \in Presses : index[s] = 0
  BY PhotosCounted DEF Init
<1>6. late \in BOOLEAN /\ failed \in BOOLEAN /\ editor \in Kinds /\ chosen \in SUBSET Pictures
  BY DEF Init, Kinds
<1>7. TypeOK
  BY <1>1, <1>3, <1>4, <1>5, <1>6 DEF Init, TypeOK
<1>8. Kept
  BY NoUrls DEF Init, Kept
<1>9. Counted
  <2>1. ASSUME NEW s PROVE Uploads(s) = {} /\ ~Covered(s)
    BY DEF Init, Uploads, Ups, Covered
  <2> QED
    BY <1>5, <2>1, PhotosCounted, FS_EmptySet DEF Counted
<1>10. Room
  <2>1. Loads = {}
    BY DEF Init, Loads
  <2> QED
    BY <1>3, <2>1, PhotosCounted, FS_EmptySet DEF Room
<1> QED
  BY <1>7, <1>8, <1>9, <1>10 DEF IInv

\* The trip's editor shows the photos of the document in some order.
LEMMA OpenEditorKeeps ==
  ASSUME IInv, OpenEditor
  PROVE  IInv'
<1>1. /\ editor # "gone" /\ media # NoDoc /\ Len(media) <= MaxPhotos /\ Press
      /\ urls' = [urls EXCEPT !["image"] = media] /\ editor' = "image" /\ jobs' = {}
      /\ UNCHANGED <<storage, media, index, chosen>>
  BY DEF OpenEditor
<1>2. media \in Seq(Files) /\ Len(media) \in Nat /\ DOMAIN media = 1..Len(media)
  BY <1>1 DEF IInv, TypeOK
<1>3. PICK order \in SetToSeqs(DOMAIN media) :
        photos' = [photos EXCEPT !["image"] = [i \in DOMAIN media |-> storage[media[order[i]]]]]
  BY DEF OpenEditor
<1> DEFINE album == [i \in DOMAIN media |-> storage[media[order[i]]]]
<1>4. \A i \in DOMAIN media : order[i] \in DOMAIN media
  BY <1>2, <1>3, FS_Interval DEF SetToSeqs
<1>5. \A i \in DOMAIN media : media[i] \in Files /\ storage[media[i]] \in Pictures
  <2>1. \A i \in DOMAIN media : media[i] \in Files /\ storage[media[i]] # NoFile
    BY <1>1, <1>2 DEF IInv, Kept, ToSet
  <2> QED
    BY <2>1 DEF IInv, TypeOK
<1>6. album \in Seq(Pictures) /\ Len(album) <= MaxPhotos
  BY <1>1, <1>2, <1>4, <1>5
<1>7. photos' = [photos EXCEPT !["image"] = album]
  BY <1>3
<1> HIDE DEF album
<1>8. /\ photos' \in [Kinds -> Seq(Pictures)] /\ \A m \in Kinds : Len(photos'[m]) <= MaxPhotos
      /\ photos'["images"] = photos["images"]
  BY <1>6, <1>7, PageSet DEF IInv, Kinds
<1>9. /\ urls' \in [Kinds -> Seq(Files)] /\ urls'["image"] = media
      /\ \A m \in Kinds \ {"image"} : urls'[m] = urls[m]
  BY <1>1, <1>2, UrlsSet DEF IInv, Kinds
<1>10. TypeOK'
  BY <1>1, <1>8, <1>9, Pressed DEF IInv, TypeOK, Kinds
<1>11. Kept'
  BY <1>1, <1>9 DEF IInv, Kept, Kinds
<1>12. Counted'
  <2>1. \A s \in Presses : Uploads(s)' = {} /\ ~Covered(s)'
    BY <1>1 DEF Uploads, Ups, Covered
  <2> QED
    BY <1>1, <2>1, Pressed, StillCounted
<1>13. Room'
  <2>1. Len(photos["images"]) \in Nat
    BY DEF IInv, TypeOK, Kinds
  <2>2. Loads' = {}
    BY <1>1 DEF Loads
  <2> QED
    BY <1>8, <2>1, <2>2, StillRoom DEF IInv
<1> QED
  BY <1>10, <1>11, <1>12, <1>13 DEF IInv

\* The entry's editor begins to load them.
LEMMA LoadImagesKeeps ==
  ASSUME IInv, loadImagesFromEntryInfo
  PROVE  IInv'
<1> DEFINE load == [i \in 1..Len(media) |-> [op |-> "load", file |-> media[i], n |-> i]]
<1>1. /\ editor # "gone" /\ media # NoDoc /\ Len(media) <= MaxPhotos /\ Press
      /\ photos' = [photos EXCEPT !["images"] = <<>>]
      /\ urls' = [urls EXCEPT !["images"] = media] /\ editor' = "images"
      /\ jobs' = {[op |-> "load", file |-> media[i], n |-> i] : i \in DOMAIN media}
      /\ UNCHANGED <<storage, media, index, chosen>>
  BY DEF loadImagesFromEntryInfo
<1>2. media \in Seq(Files) /\ Len(media) \in Nat /\ DOMAIN media = 1..Len(media)
  BY <1>1 DEF IInv, TypeOK
<1>3. jobs' = {load[i] : i \in 1..Len(media)}
  BY <1>1, <1>2
<1>4. load \in [1..Len(media) -> Load] /\ \A i \in 1..Len(media) : load[i].op = "load"
  BY <1>1, <1>2, PhotosCounted DEF Load
<1> HIDE DEF load
<1>5. jobs' \subseteq Load /\ \A j \in jobs' : j.op = "load"
  BY <1>3, <1>4
<1>6. /\ photos' \in [Kinds -> Seq(Pictures)] /\ \A m \in Kinds : Len(photos'[m]) <= MaxPhotos
      /\ photos'["images"] = <<>>
  <2>1. <<>> \in Seq(Pictures) /\ Len(<<>>) <= MaxPhotos
    BY PhotosCounted
  <2>2. "images" \in Kinds
    BY DEF Kinds
  <2> QED
    BY <1>1, <2>1, <2>2, PageSet DEF IInv
<1>7. /\ urls' \in [Kinds -> Seq(Files)] /\ urls'["images"] = media
      /\ \A m \in Kinds \ {"images"} : urls'[m] = urls[m]
  BY <1>1, <1>2, UrlsSet DEF IInv, Kinds
<1>8. jobs' \subseteq Job
  BY <1>5 DEF Job
<1>9. TypeOK'
  BY <1>1, <1>6, <1>7, <1>8, JobsTyped, Pressed DEF IInv, TypeOK, Kinds
<1>10. Kept'
  BY <1>1, <1>5, <1>7 DEF IInv, Kept, Kinds
<1>11. Counted'
  <2>1. \A s \in Presses : Uploads(s)' = {} /\ ~Covered(s)'
    BY <1>5 DEF Uploads, Ups, Covered
  <2> QED
    BY <1>1, <2>1, Pressed, StillCounted
<1>12. Room'
  <2>1. IsFiniteSet(1..Len(media)) /\ Cardinality(1..Len(media)) = Len(media)
    BY <1>2, FS_Interval
  <2>2. load \in Surjection(1..Len(media), jobs')
    BY <1>3, <1>4 DEF Surjection
  <2>3. IsFiniteSet(jobs') /\ Cardinality(jobs') <= Len(media)
    BY <2>1, <2>2, FS_Surjection
  <2>4. Loads' = jobs'
    BY <1>5 DEF Loads
  <2>5. Cardinality(jobs') \in Nat
    BY <2>3, FS_CardinalityType
  <2> QED
    BY <1>1, <1>2, <1>6, <2>3, <2>4, <2>5, PhotosCounted DEF Room
<1> QED
  BY <1>9, <1>10, <1>11, <1>12 DEF IInv

\* A photo that arrives leaves room for the others.
LEMMA PhotoLoadedKeeps ==
  ASSUME IInv, NEW j \in jobs, PhotoLoaded(j)
  PROVE  IInv'
<1> DEFINE album == Append(photos["images"], storage[j.file])
<1>1. /\ j.op = "load" /\ storage[j.file] # NoFile
      /\ photos' = [photos EXCEPT !["images"] = album]
      /\ jobs' = jobs \ {j}
      /\ late' = (late \/ Uploading("images"))
      /\ UNCHANGED <<urls, editor, storage, media, index, chosen, presses, hasty, failed>>
  BY DEF PhotoLoaded
<1>2. j.file \in Files /\ storage[j.file] \in Pictures
  BY <1>1, Jobs DEF IInv, TypeOK, Load
<1>3. Loads' = Loads \ {j} /\ j \in Loads
  BY <1>1 DEF Loads
<1>4. /\ IsFiniteSet(Loads) /\ Cardinality(Loads) \in Nat
      /\ IsFiniteSet(Loads') /\ Cardinality(Loads') = Cardinality(Loads) - 1
      /\ Cardinality(Loads') \in Nat
  BY <1>3, FS_RemoveElement, FS_CardinalityType DEF IInv, Room
<1>5. photos["images"] \in Seq(Pictures) /\ "images" \in Kinds
  BY DEF IInv, TypeOK, Kinds
<1>6. album \in Seq(Pictures) /\ Len(album) = Len(photos["images"]) + 1
  BY <1>2, <1>5
<1>7. Len(album) + Cardinality(Loads') <= MaxPhotos /\ Len(album) <= MaxPhotos
  BY <1>4, <1>5, <1>6, PhotosCounted DEF IInv, Room
<1> HIDE DEF album
<1>8. /\ photos' \in [Kinds -> Seq(Pictures)] /\ \A m \in Kinds : Len(photos'[m]) <= MaxPhotos
      /\ photos'["images"] = album
  BY <1>1, <1>5, <1>6, <1>7, PageSet DEF IInv
<1>9. late' \in BOOLEAN
  BY <1>1 DEF IInv, TypeOK
<1>10. jobs' \subseteq Job
  BY <1>1, Jobs DEF IInv
<1>11. TypeOK'
  BY <1>1, <1>8, <1>9, <1>10, JobsTyped DEF IInv, TypeOK
<1>12. Kept'
  BY <1>1 DEF IInv, Kept
<1>13. Counted'
  <2>1. \A s \in Presses : Uploads(s)' \subseteq Uploads(s) /\ (Covered(s)' => Covered(s))
    BY <1>1 DEF Uploads, Ups, Covered
  <2>2. presses' \in Nat /\ presses' >= presses
    BY <1>1, PhotosAssumption DEF IInv, TypeOK, Presses
  <2> QED
    BY <1>1, <2>1, <2>2, StillCounted
<1>14. Room'
  BY <1>4, <1>7, <1>8 DEF Room
<1> QED
  BY <1>11, <1>12, <1>13, <1>14 DEF IInv

\* Callbacks that come to nothing.
LEMMA LostKeeps ==
  ASSUME IInv, NEW j \in jobs, PhotoNotLoaded(j) \/ CoverFailed(j) \/ UrlMissing(j)
  PROVE  IInv'
<1>1. /\ jobs' = jobs \ {j} /\ failed' \in BOOLEAN
      /\ UNCHANGED <<photos, urls, editor, storage, media, index, chosen, presses, hasty, late>>
  BY DEF PhotoNotLoaded, CoverFailed, UrlMissing, past, IInv, TypeOK
<1>2. jobs' \subseteq jobs
  BY <1>1
<1>3. TypeOK'
  BY <1>1, <1>2 DEF IInv, TypeOK
<1>4. Kept'
  BY <1>1, <1>2 DEF IInv, Kept
<1>5. Counted'
  <2>1. \A s \in Presses : Uploads(s)' \subseteq Uploads(s) /\ (Covered(s)' => Covered(s))
    BY <1>2 DEF Uploads, Ups, Covered
  <2>2. presses' \in Nat /\ presses' >= presses
    BY <1>1, PhotosAssumption DEF IInv, TypeOK, Presses
  <2> QED
    BY <1>1, <2>1, <2>2, StillCounted
<1>6. Room'
  <2>1. Loads' \subseteq Loads
    BY <1>2 DEF Loads
  <2>2. Len(photos["images"]) \in Nat
    BY DEF IInv, TypeOK, Kinds
  <2> QED
    BY <1>1, <2>1, <2>2, StillRoom DEF IInv
<1> QED
  BY <1>3, <1>4, <1>5, <1>6 DEF IInv

LEMMA EditPhotosKeeps ==
  ASSUME IInv, NEW album \in Albums, EditPhotos(album)
  PROVE  IInv'
<1>1. /\ editor \in Kinds /\ Press /\ Len(album) + Cardinality(Loads) <= MaxPhotos
      /\ photos' = [photos EXCEPT ![editor] = album]
      /\ UNCHANGED <<urls, editor, storage, media, jobs, index, chosen>>
  BY DEF EditPhotos
<1>2. album \in Seq(Pictures) /\ Len(album) <= MaxPhotos
  BY AlbumShape
<1>3. /\ photos' \in [Kinds -> Seq(Pictures)] /\ \A m \in Kinds : Len(photos'[m]) <= MaxPhotos
      /\ photos'["images"] \in {album, photos["images"]}
  BY <1>1, <1>2, PageSet DEF IInv, Kinds
<1>4. TypeOK'
  BY <1>1, <1>3, Pressed DEF IInv, TypeOK
<1>5. Kept'
  <2>1. editor # "gone"
    BY <1>1 DEF Kinds
  <2> QED
    BY <1>1, <2>1 DEF IInv, Kept
<1>6. Counted'
  <2>1. \A s \in Presses : Uploads(s)' \subseteq Uploads(s) /\ (Covered(s)' => Covered(s))
    BY <1>1 DEF Uploads, Ups, Covered
  <2> QED
    BY <1>1, <2>1, Pressed, StillCounted
<1>7. Room'
  <2>1. Loads' = Loads
    BY <1>1 DEF Loads
  <2> QED
    BY <1>1, <1>3, <2>1 DEF IInv, Room
<1> QED
  BY <1>4, <1>5, <1>6, <1>7 DEF IInv

\* deleteEntry: files are deleted from now on, and no document refers to them.
LEMMA DeleteEntryKeeps ==
  ASSUME IInv, deleteEntry
  PROVE  IInv'
<1> DEFINE n == Len(photos["image"])
<1> DEFINE files == {[op |-> "delete", file |-> <<"image", i>>] : i \in 0..n}
<1>1. /\ editor = "image" /\ Press /\ media' = NoDoc /\ editor' = "gone"
      /\ jobs' = jobs \cup files
      /\ UNCHANGED <<photos, urls, storage, index, chosen>>
  BY DEF deleteEntry, DocumentDeleted
<1>2. n \in Nat /\ n <= MaxPhotos
  BY DEF IInv, TypeOK, Kinds
<1>3. files \subseteq Deletion /\ \A j \in files : j.op = "delete"
  BY <1>2, PhotosCounted DEF Deletion, Kinds
<1> HIDE DEF n, files
<1>4. jobs' \subseteq Job
  BY <1>1, <1>3, Jobs DEF IInv, Job
<1>5. TypeOK'
  <2>1. editor' \in Kinds \cup {"none", "gone"} /\ media' \in Seq(Files) \cup {NoDoc}
    BY <1>1
  <2> QED
    BY <1>1, <1>4, <2>1, JobsTyped, Pressed DEF IInv, TypeOK
<1>6. Kept'
  <2>1. hasty' = 0 => \A j \in jobs : j.op = "load"
    BY <1>1, Pressed DEF SaveUnderWay
  <2> QED
    BY <1>1, <1>3, <2>1 DEF Kept
<1>7. Counted'
  <2>1. \A s \in Presses : Uploads(s)' \subseteq Uploads(s) /\ (Covered(s)' => Covered(s))
    BY <1>1, <1>3 DEF Uploads, Ups, Covered
  <2> QED
    BY <1>1, <2>1, Pressed, StillCounted
<1>8. Room'
  <2>1. Loads' = Loads
    BY <1>1, <1>3 DEF Loads
  <2> QED
    BY <1>1, <2>1 DEF IInv, Room
<1> QED
  BY <1>5, <1>6, <1>7, <1>8 DEF IInv

\* The end of the app: pages and callbacks are gone.
LEMMA KilledKeeps ==
  ASSUME IInv, Killed
  PROVE  IInv'
<1>1. /\ failed' = TRUE /\ jobs' = {}
      /\ editor' = IF editor = "gone" THEN "gone" ELSE "none"
      /\ photos' = [k \in Kinds |-> <<>>] /\ urls' = [k \in Kinds |-> <<>>]
      /\ UNCHANGED <<storage, media, index, chosen, presses, hasty, late>>
  BY DEF Killed, Closed
<1>2. /\ failed' \in BOOLEAN /\ editor' \in Kinds \cup {"none", "gone"}
      /\ photos' \in [Kinds -> Seq(Pictures)] /\ urls' \in [Kinds -> Seq(Files)]
      /\ \A k \in Kinds : Len(photos'[k]) <= MaxPhotos
  BY <1>1, PhotosCounted
<1>3. TypeOK'
  BY <1>1, <1>2 DEF IInv, TypeOK
<1>4. Kept'
  BY <1>1, NoUrls DEF IInv, Kept
<1>5. Counted'
  <2>1. \A s \in Presses : Uploads(s)' = {} /\ ~Covered(s)'
    BY <1>1 DEF Uploads, Ups, Covered
  <2>2. presses' \in Nat /\ presses' >= presses
    BY <1>1, PhotosAssumption DEF IInv, TypeOK, Presses
  <2> QED
    BY <1>1, <2>1, <2>2, StillCounted
<1>6. Room'
  <2>1. Loads' = {}
    BY <1>1 DEF Loads
  <2>2. photos'["images"] = <<>>
    BY <1>1 DEF Kinds
  <2> QED
    BY <2>1, <2>2, FS_EmptySet, PhotosCounted DEF Room
<1> QED
  BY <1>3, <1>4, <1>5, <1>6 DEF IInv

-----------------------------------------------------------------------------
(* Saves and their callbacks.                                              *)

\* The uploads of press s from page k, with what is under way besides them.
LEMMA Started ==
  ASSUME IInv, NEW s \in Presses, NEW k \in Kinds, NEW others, others \subseteq jobs,
         StartUploads(s, k, others)
  PROVE  LET n == Len(photos[k])
             up == [i \in 1..n |-> [op |-> "put", press |-> s, file |-> FileName(k, i),
                                    pic |-> photos[k][i]]]
         IN  /\ n \in Nat /\ n <= MaxPhotos
             /\ up \in [1..n -> Upload] /\ \A i \in 1..n : up[i].press = s
             /\ jobs' = others \cup {up[i] : i \in 1..n}
             /\ jobs' \subseteq Job
             /\ \A j \in jobs' : j \in others \/ (j \in Upload /\ j.op = "put")
             /\ urls' \in [Kinds -> Seq(Files)] /\ urls'[k] = <<>>
             /\ \A m \in Kinds \ {k} : urls'[m] = urls[m]
             /\ chosen' = ToSet(photos[k]) /\ chosen' \in SUBSET Pictures
<1> DEFINE album == photos[k]
<1> DEFINE n == Len(album)
<1> DEFINE up == [i \in 1..n |-> [op |-> "put", press |-> s, file |-> FileName(k, i),
                                  pic |-> album[i]]]
<1>1. /\ urls' = [urls EXCEPT ![k] = <<>>]
      /\ jobs' = others \cup {[op |-> "put", press |-> s, file |-> FileName(k, i),
                               pic |-> album[i]] : i \in DOMAIN album}
      /\ chosen' = ToSet(album)
  BY DEF StartUploads, UrlsCleared
<1>2. album \in Seq(Pictures) /\ n <= MaxPhotos /\ n \in Nat
  BY DEF IInv, TypeOK
<1>3. DOMAIN album = 1..n /\ \A i \in 1..n : album[i] \in Pictures
  BY <1>2
<1>4. up \in [1..n -> Upload] /\ \A i \in 1..n : up[i].press = s /\ up[i].op = "put"
  BY <1>2, <1>3, PhotosCounted DEF Upload, FileName, Files
<1>5. jobs' = others \cup {up[i] : i \in 1..n}
  BY <1>1, <1>3
<1>6. chosen' \in SUBSET Pictures
  BY <1>1, <1>3 DEF ToSet
<1> HIDE DEF up
<1>7. \A j \in jobs' : j \in others \/ (j \in Upload /\ j.op = "put")
  BY <1>4, <1>5
<1>8. jobs' \subseteq Job
  BY <1>7, Jobs DEF IInv, Job
<1>9. /\ urls' \in [Kinds -> Seq(Files)] /\ urls'[k] = <<>>
      /\ \A m \in Kinds \ {k} : urls'[m] = urls[m]
  <2>1. <<>> \in Seq(Files)
    OBVIOUS
  <2> QED
    BY <1>1, <2>1, UrlsSet DEF IInv
<1> QED
  BY <1>1, <1>2, <1>4, <1>5, <1>6, <1>7, <1>8, <1>9 DEF up

\* What Kept says when a list of urls was emptied and uploads began.
LEMMA StartKeeps ==
  ASSUME IInv, hasty' >= hasty, UNCHANGED <<editor, storage, media>>,
         editor = "gone" => hasty' # 0,
         \A j \in jobs' : j \in jobs \/ j.op # "delete",
         \A k \in Kinds : urls'[k] = <<>> \/ urls'[k] = urls[k]
  PROVE  Kept'
<1>1. CASE editor = "gone"
  BY <1>1 DEF Kept
<1>2. CASE editor # "gone"
  BY <1>2, NoUrls DEF IInv, Kept
<1> QED
  BY <1>1, <1>2

LEMMA SaveKeeps ==
  ASSUME IInv, Save
  PROVE  IInv'
<1> DEFINE n == Len(photos["image"])
<1> DEFINE up == [i \in 1..n |-> [op |-> "put", press |-> presses,
                                  file |-> FileName("image", i), pic |-> photos["image"][i]]]
<1>1. /\ editor = "image" /\ Press /\ StartUploads(presses, "image", jobs)
      /\ UNCHANGED <<photos, editor, storage, media, index>>
  BY DEF Save
<1>2. /\ presses \in Presses /\ "image" \in Kinds /\ jobs \subseteq jobs
      /\ presses \in Nat /\ presses' = presses + 1
  BY <1>1, Pressed DEF Kinds
<1>3. /\ n \in Nat /\ n <= MaxPhotos
      /\ up \in [1..n -> Upload] /\ \A i \in 1..n : up[i].press = presses
      /\ jobs' = jobs \cup {up[i] : i \in 1..n}
  BY <1>1, <1>2, Started
<1>4. /\ jobs' \subseteq Job
      /\ \A j \in jobs' : j \in jobs \/ (j \in Upload /\ j.op = "put")
      /\ urls' \in [Kinds -> Seq(Files)] /\ urls'["image"] = <<>>
      /\ \A m \in Kinds \ {"image"} : urls'[m] = urls[m]
      /\ chosen' \in SUBSET Pictures
  BY <1>1, <1>2, Started
<1> HIDE DEF n, up
<1>5. \A i \in 1..n : up[i].op \in {"put", "url"}
  BY <1>3 DEF Upload
<1>6. TypeOK'
  BY <1>1, <1>4, JobsTyped, Pressed DEF IInv, TypeOK
<1>7. Kept'
  BY <1>1, <1>4, Pressed, StartKeeps
<1>8. Counted'
  <2>1. Uploads(presses) = {} /\ index[presses] = 0 /\ ~Covered(presses)
    BY <1>2 DEF IInv, Counted
  <2>2. Ups' = Ups \cup {up[i] : i \in 1..n}
    BY <1>3, <1>5 DEF Ups
  <2>3. \A s \in Presses : Covered(s)' => Covered(s) /\ s # presses
    BY <1>4, <2>1 DEF Covered
  <2>4. presses' \in Nat /\ presses' >= presses /\ presses < presses'
    BY <1>2
  <2> QED
    BY <1>1, <1>2, <1>3, <2>1, <2>2, <2>3, <2>4, SaveCounts
<1>9. Room'
  <2>1. Loads' = Loads
    BY <1>3, <1>5 DEF Loads
  <2> QED
    BY <1>1, <2>1 DEF IInv, Room
<1> QED
  BY <1>6, <1>7, <1>8, <1>9 DEF IInv

\* The entry's page saves its cover first.
LEMMA SaveButtonKeeps ==
  ASSUME IInv, saveButton
  PROVE  IInv'
<1> DEFINE c == [op |-> "cover", press |-> presses]
<1>1. /\ editor = "images" /\ Press
      /\ jobs' = jobs \cup {c} /\ chosen' = ToSet(photos["images"])
      /\ UNCHANGED <<photos, urls, editor, storage, media, index>>
  BY DEF saveButton
<1>2. /\ presses \in Presses /\ presses \in Nat /\ presses' = presses + 1
  BY <1>1, Pressed
<1>3. c \in Cover /\ c.op = "cover" /\ c.press = presses
  BY <1>2 DEF Cover
<1> HIDE DEF c
<1>4. jobs' \subseteq Job
  BY <1>1, <1>3, Jobs DEF IInv, Job
<1>5. chosen' \in SUBSET Pictures
  BY <1>1 DEF ToSet, IInv, TypeOK, Kinds
<1>6. TypeOK'
  BY <1>1, <1>4, <1>5, JobsTyped, Pressed DEF IInv, TypeOK
<1>7. Kept'
  BY <1>1, <1>3, Pressed, StartKeeps
<1>8. Counted'
  <2> SUFFICES ASSUME NEW s \in Presses
               PROVE  /\ IsFiniteSet(Uploads(s)')
                      /\ index[s] + Cardinality(Uploads(s)') <= MaxPhotos
                      /\ s >= presses' \/ Covered(s)' => Uploads(s)' = {} /\ index[s] = 0
                      /\ s >= presses' => ~Covered(s)'
    BY <1>1 DEF Counted
  <2>1. Uploads(s)' = Uploads(s)
    BY <1>1, <1>3 DEF Uploads, Ups
  <2>2. Covered(s)' => Covered(s) \/ s = presses
    BY <1>1, <1>3 DEF Covered
  <2>3. s \in Nat
    BY Numbers
  <2> QED
    BY <1>2, <2>1, <2>2, <2>3 DEF IInv, Counted
<1>9. Room'
  <2>1. Loads' = Loads
    BY <1>1, <1>3 DEF Loads
  <2> QED
    BY <1>1, <2>1 DEF IInv, Room
<1> QED
  BY <1>6, <1>7, <1>8, <1>9 DEF IInv

\* And its photos next.
LEMMA CoverUploadedKeeps ==
  ASSUME IInv, NEW j \in jobs, CoverUploaded(j)
  PROVE  IInv'
<1> DEFINE n == Len(photos["images"])
<1> DEFINE up == [i \in 1..n |-> [op |-> "put", press |-> j.press,
                                  file |-> FileName("images", i), pic |-> photos["images"][i]]]
<1>1. /\ j.op = "cover" /\ StartUploads(j.press, "images", jobs \ {j})
      /\ UNCHANGED <<photos, editor, storage, media, index, presses, hasty, late, failed>>
  BY DEF CoverUploaded, past
<1>2. /\ j \in Cover /\ j.press \in Presses /\ "images" \in Kinds /\ jobs \ {j} \subseteq jobs
  BY <1>1, Jobs DEF IInv, Cover, Kinds
<1>a. \E s, others : s = j.press /\ others = jobs \ {j}
  OBVIOUS
<1>b. PICK s, others : s = j.press /\ others = jobs \ {j}
  BY <1>a
<1>c. s \in Presses /\ others \subseteq jobs /\ StartUploads(s, "images", others)
  BY <1>1, <1>2, <1>b
<1>3. /\ n \in Nat /\ n <= MaxPhotos
      /\ up \in [1..n -> Upload] /\ \A i \in 1..n : up[i].press = j.press
      /\ jobs' = (jobs \ {j}) \cup {up[i] : i \in 1..n}
  BY <1>2, <1>b, <1>c, Started
<1>4. /\ jobs' \subseteq Job
      /\ \A g \in jobs' : g \in jobs \ {j} \/ (g \in Upload /\ g.op = "put")
      /\ urls' \in [Kinds -> Seq(Files)] /\ urls'["images"] = <<>>
      /\ \A m \in Kinds \ {"images"} : urls'[m] = urls[m]
      /\ chosen' \in SUBSET Pictures
  BY <1>2, <1>b, <1>c, Started
<1> HIDE DEF n, up
<1>5. \A i \in 1..n : up[i].op \in {"put", "url"}
  BY <1>3 DEF Upload
<1>6. TypeOK'
  BY <1>1, <1>4, JobsTyped DEF IInv, TypeOK
<1>7. Kept'
  <2>1. editor = "gone" => hasty # 0
    BY <1>1 DEF IInv, Kept
  <2>2. hasty' >= hasty
    BY <1>1, PhotosAssumption DEF IInv, TypeOK
  <2> QED
    BY <1>1, <1>4, <2>1, <2>2, StartKeeps
<1>8. Counted'
  <2>1. Covered(j.press)
    BY <1>1 DEF Covered
  <2>2. Uploads(j.press) = {} /\ index[j.press] = 0 /\ ~(j.press >= presses)
    BY <1>2, <2>1 DEF IInv, Counted
  <2>3. Ups' = Ups \cup {up[i] : i \in 1..n}
    BY <1>1, <1>3, <1>5 DEF Ups
  <2>4. ASSUME NEW r \in Presses, Covered(r)'
        PROVE  Covered(r) /\ r # j.press
    <3>1. PICK g \in jobs' : g.op = "cover" /\ g.press = r
      BY <2>4 DEF Covered
    <3>2. g \in jobs /\ g # j
      BY <1>4, <3>1
    <3>3. g \in Cover
      BY <3>1, <3>2, Jobs DEF IInv
    <3>4. g.press # j.press
      BY <1>1, <1>2, <3>1, <3>2, <3>3 DEF Cover
    <3> QED
      BY <3>1, <3>2, <3>4 DEF Covered
  <2>5. presses' \in Nat /\ presses' >= presses /\ j.press < presses'
    BY <1>1, <1>2, <2>2, Numbers
  <2> QED
    BY <1>1, <1>2, <1>3, <2>2, <2>3, <2>4, <2>5, SaveCounts
<1>9. Room'
  <2>1. Loads' = Loads
    BY <1>1, <1>3, <1>5 DEF Loads
  <2> QED
    BY <1>1, <2>1 DEF IInv, Room
<1> QED
  BY <1>6, <1>7, <1>8, <1>9 DEF IInv

\* The photo is stored, or is not; its url is asked for.
LEMMA PutKeeps ==
  ASSUME IInv, NEW j \in jobs, PhotoPut(j) \/ PutFailed(j)
  PROVE  IInv'
<1> DEFINE k == [j EXCEPT !.op = "url"]
<1>1. /\ j.op = "put" /\ jobs' = (jobs \ {j}) \cup {k}
      /\ storage' = [storage EXCEPT ![j.file] = j.pic] \/ storage' = storage
      /\ failed' \in BOOLEAN
      /\ UNCHANGED <<photos, urls, editor, media, index, chosen, presses, hasty, late>>
  BY DEF PhotoPut, PutFailed, past, IInv, TypeOK
<1>2. j \in Upload /\ k \in Upload /\ k.op = "url" /\ k.press = j.press
  BY <1>1, Jobs, UploadContinues DEF IInv
<1> HIDE DEF k
<1>3. j.file \in Files /\ j.pic \in Pictures
  BY <1>2 DEF Upload
<1>4. /\ storage' \in [Files -> Pictures \cup {NoFile}]
      /\ \A f \in Files : storage[f] # NoFile => storage'[f] # NoFile
  BY <1>1, <1>3, PhotosAssumption DEF IInv, TypeOK
<1>6. jobs' \subseteq Job
  BY <1>1, <1>2, Jobs DEF IInv, Job
<1>7. TypeOK'
  BY <1>1, <1>4, <1>6, JobsTyped DEF IInv, TypeOK
<1>8. Kept'
  <2>1. CASE editor = "gone"
    BY <1>1, <2>1 DEF IInv, Kept
  <2>2. CASE editor # "gone"
    <3>1. \A m \in Kinds : \A f \in ToSet(urls[m]) : f \in Files
      BY DEF IInv, TypeOK, ToSet
    <3>2. media # NoDoc => \A f \in ToSet(media) : f \in Files
      BY DEF IInv, TypeOK, ToSet
    <3> QED
      BY <1>1, <1>2, <1>4, <2>2, <3>1, <3>2 DEF IInv, Kept
  <2> QED
    BY <2>1, <2>2
<1>9. Counted'
  BY <1>1, <1>2, Continued
<1>10. Room'
  <2>1. Loads' = Loads
    BY <1>1, <1>2 DEF Loads
  <2> QED
    BY <1>1, <2>1 DEF IInv, Room
<1> QED
  BY <1>7, <1>8, <1>9, <1>10 DEF IInv

\* A url joins its list, and the list may become the document.
LEMMA UrlFetchedKeeps ==
  ASSUME IInv, NEW j \in jobs, UrlFetched(j) \/ DocumentRefused(j)
  PROVE  IInv'
<1> DEFINE k == j.file[1]
<1> DEFINE n == index[j.press] + 1
<1>1. /\ j.op = "url" /\ storage[j.file] # NoFile
      /\ urls' = [urls EXCEPT ![k] = Append(urls[k], j.file)]
      /\ index' = [index EXCEPT ![j.press] = n]
      /\ \/ media' = urls'[k] /\ editor' \in AfterWrite
         \/ UNCHANGED <<media, editor>>
         \/ media' = media /\ editor' = IF editor = "images" THEN "none" ELSE editor
      /\ jobs' = jobs \ {j}
      /\ failed' \in BOOLEAN
      /\ UNCHANGED <<photos, storage, chosen, presses, hasty, late>>
  BY DEF UrlFetched, DocumentRefused, past, IInv, TypeOK
<1>2. j \in Upload /\ j.file \in Files /\ k \in Kinds /\ j.press \in Presses
  BY <1>1, Jobs DEF IInv, Upload, Files
<1> DEFINE list == Append(urls[k], j.file)
<1>3. list \in Seq(Files) /\ \A f \in ToSet(list) : f \in ToSet(urls[k]) \/ f = j.file
  <2>1. urls[k] \in Seq(Files)
    BY <1>2 DEF IInv, TypeOK
  <2> QED
    BY <1>2, <2>1, Appended
<1>4. /\ urls' \in [Kinds -> Seq(Files)] /\ urls'[k] = list
      /\ \A m \in Kinds \ {k} : urls'[m] = urls[m]
  BY <1>1, <1>2, <1>3, UrlsSet DEF IInv
<1>5. media' \in {list, media}
  BY <1>1, <1>4
<1> HIDE DEF k, list
<1>6. /\ editor' \in Kinds \cup {"none", "gone"} /\ (editor' = "gone" <=> editor = "gone")
  BY <1>1 DEF IInv, TypeOK, AfterWrite, Kinds
<1>7. Counted' /\ index' \in [Presses -> 0..MaxPhotos]
  <2>1. ASSUME NEW s \in Presses
        PROVE  /\ IsFiniteSet(Uploads(s)')
               /\ index'[s] + Cardinality(Uploads(s)') <= MaxPhotos
               /\ s >= presses \/ Covered(s)' => Uploads(s)' = {} /\ index'[s] = 0
               /\ s >= presses => ~Covered(s)'
               /\ index'[s] \in 0..MaxPhotos
    <3>1. /\ IsFiniteSet(Uploads(s)) /\ Cardinality(Uploads(s)) \in Nat
          /\ index[s] \in Nat /\ MaxPhotos \in Nat
          /\ index[s] + Cardinality(Uploads(s)) <= MaxPhotos
          /\ s >= presses \/ Covered(s) => Uploads(s) = {} /\ index[s] = 0
          /\ s >= presses => ~Covered(s)
      BY Numbers DEF IInv, Counted
    <3>2. Covered(s)' => Covered(s)
      BY <1>1 DEF Covered
    <3>3. CASE s = j.press
      <4>1. j \in Uploads(s) /\ Uploads(s)' = Uploads(s) \ {j}
        BY <1>1, <3>3 DEF Uploads, Ups
      <4>2. /\ IsFiniteSet(Uploads(s)')
            /\ Cardinality(Uploads(s)') = Cardinality(Uploads(s)) - 1
        BY <3>1, <4>1, FS_RemoveElement
      <4>3. Cardinality(Uploads(s)') \in Nat
        BY <4>2, FS_CardinalityType
      <4>4. index'[s] = index[s] + 1
        BY <1>1, <1>2, <3>3 DEF IInv, TypeOK
      <4> QED
        BY <3>1, <3>2, <4>1, <4>2, <4>3, <4>4
    <3>4. CASE s # j.press
      <4>1. Uploads(s)' = Uploads(s) /\ index'[s] = index[s]
        BY <1>1, <1>2, <3>4 DEF Uploads, Ups, IInv, TypeOK
      <4> QED
        BY <3>1, <3>2, <4>1
    <3> QED
      BY <3>3, <3>4
  <2>2. DOMAIN index' = Presses /\ index' = [s \in Presses |-> index'[s]]
    BY <1>1 DEF IInv, TypeOK
  <2> QED
    BY <1>1, <2>1, <2>2 DEF Counted
<1>8. TypeOK'
  <2>1. jobs' \subseteq Job
    BY <1>1, Jobs DEF IInv
  <2>2. media' \in Seq(Files) \cup {NoDoc}
    BY <1>3, <1>5 DEF IInv, TypeOK
  <2> QED
    BY <1>1, <1>4, <1>6, <1>7, <2>1, <2>2, JobsTyped DEF IInv, TypeOK
<1>9. Kept'
  <2>1. CASE editor = "gone" /\ hasty = 0
    BY <1>1, <2>1 DEF IInv, Kept
  <2>2. CASE editor = "gone" /\ hasty # 0
    BY <1>1, <1>6, <2>2 DEF Kept
  <2>3. CASE editor # "gone"
    <3>1. \A f \in ToSet(list) : storage[f] # NoFile
      BY <1>1, <1>2, <1>3, <2>3 DEF IInv, Kept
    <3>2. \A m \in Kinds : urls'[m] = list \/ urls'[m] = urls[m]
      BY <1>2, <1>4
    <3> QED
      BY <1>1, <1>5, <1>6, <2>3, <3>1, <3>2 DEF IInv, Kept
  <2> QED
    BY <2>1, <2>2, <2>3
<1>10. Room'
  <2>1. Loads' = Loads
    BY <1>1 DEF Loads
  <2> QED
    BY <1>1, <2>1 DEF IInv, Room
<1> QED
  BY <1>7, <1>8, <1>9, <1>10 DEF IInv

\* Files go away only of an entry that is gone.
LEMMA FileDeletedKeeps ==
  ASSUME IInv, NEW j \in jobs, FileDeleted(j)
  PROVE  IInv'
<1>1. /\ j.op = "delete" /\ jobs' = jobs \ {j}
      /\ storage' = [f \in Files |-> IF f = j.file THEN NoFile ELSE storage[f]]
      /\ UNCHANGED <<photos, urls, editor, media, index, chosen, presses, hasty, late, failed>>
  BY DEF FileDeleted, past
<1>2. storage' \in [Files -> Pictures \cup {NoFile}] /\ jobs' \subseteq jobs
  BY <1>1 DEF IInv, TypeOK
<1>3. TypeOK'
  BY <1>1, <1>2 DEF IInv, TypeOK
<1>4. Kept'
  BY <1>1, <1>2 DEF IInv, Kept
<1>5. Counted'
  <2>1. \A s \in Presses : Uploads(s)' \subseteq Uploads(s) /\ (Covered(s)' => Covered(s))
    BY <1>2 DEF Uploads, Ups, Covered
  <2>2. presses' \in Nat /\ presses' >= presses
    BY <1>1, PhotosAssumption DEF IInv, TypeOK, Presses
  <2> QED
    BY <1>1, <2>1, <2>2, StillCounted
<1>6. Room'
  <2>1. Loads' = Loads
    BY <1>1 DEF Loads
  <2> QED
    BY <1>1, <2>1 DEF IInv, Room
<1> QED
  BY <1>3, <1>4, <1>5, <1>6 DEF IInv

LEMMA NextKeeps == IInv /\ [Next]_vars => IInv'
<1> SUFFICES ASSUME IInv, [Next]_vars PROVE IInv'
  OBVIOUS
<1>1. CASE OpenEditor \/ loadImagesFromEntryInfo \/ Save \/ saveButton \/ deleteEntry \/ Killed
  BY <1>1, OpenEditorKeeps, LoadImagesKeeps, SaveKeeps, SaveButtonKeeps, DeleteEntryKeeps,
     KilledKeeps
<1>2. ASSUME NEW album \in Albums, EditPhotos(album)
      PROVE  IInv'
  BY <1>2, EditPhotosKeeps
<1>3. ASSUME NEW j \in jobs, Callback(j)
      PROVE  IInv'
  BY <1>3, PhotoLoadedKeeps, CoverUploadedKeeps, PutKeeps, UrlFetchedKeeps, FileDeletedKeeps
  DEF Callback
<1>4. ASSUME NEW j \in jobs, Failure(j)
      PROVE  IInv'
  BY <1>4, LostKeeps, PutKeeps, UrlFetchedKeeps DEF Failure
<1>5. CASE UNCHANGED vars
  <2>1. UNCHANGED <<photos, urls, editor, storage, media, jobs, index, chosen,
                    presses, hasty, late, failed>>
    BY <1>5 DEF vars, past
  <2> QED
    BY <2>1 DEF IInv, TypeOK, Kept, Counted, Room, Uploads, Ups, Covered, Loads
<1> QED
  BY <1>1, <1>2, <1>3, <1>4, <1>5 DEF Next

\* An entry's document lists stored photos only (addEntryToFirestore and updateEntry
\* wait for every url), and every state is well typed: whatever presses overlap,
\* whichever uploads fail and whenever the app ends, for any number of photos.
THEOREM DocumentsListStoredPhotos == Spec => []AlbumInv
<1>1. Init => IInv
  BY InitHolds
<1>2. IInv /\ [Next]_vars => IInv'
  BY NextKeeps
<1>3. IInv => AlbumInv
  BY DEF IInv, Kept, AlbumInv, MediaStored
<1> QED
  BY <1>1, <1>2, <1>3, PTL DEF Spec

-----------------------------------------------------------------------------
(* Saves that nothing disturbs: what the document lists is what was chosen. *)

\* The save of press s from page k: each photo is still to be stored, stored, or
\* stored and listed, and the counter is the length of the list.
Saving(k, s) ==
  /\ chosen = ToSet(photos[k])
  /\ index[s] = Len(urls[k])
  /\ IsFiniteSet(Ups) /\ index[s] + Cardinality(Ups) = Len(photos[k])
  /\ \A a, b \in 1..Len(urls[k]) : urls[k][a] = urls[k][b] => a = b
  /\ \A a \in 1..Len(urls[k]) : \E i \in 1..Len(photos[k]) :
       urls[k][a] = FileName(k, i) /\ storage[urls[k][a]] = photos[k][i]
  /\ \A j \in Ups :
       /\ j \in Upload /\ j.press = s
       /\ \A a \in 1..Len(urls[k]) : urls[k][a] # j.file
       /\ \E i \in 1..Len(photos[k]) : j.file = FileName(k, i) /\ j.pic = photos[k][i]
       /\ j.op = "url" => storage[j.file] = j.pic
       /\ \A m \in Ups : m.file = j.file => m = j
  /\ \A i \in 1..Len(photos[k]) :
       \/ \E a \in 1..Len(urls[k]) : urls[k][a] = FileName(k, i)
       \/ \E j \in Ups : j.file = FileName(k, i)

\* The one save under way is that of the editor's page.
SavingHere == /\ editor \in Kinds /\ Ups # {} /\ \A j \in jobs : j \in Ups \/ j.op = "load"
              /\ \E s \in Presses : Saving(editor, s)

\* It has just begun: its cover is to be stored first.
Covering == /\ editor = "images" /\ Ups = {}
            /\ \A j \in jobs : j.op \in {"cover", "load"}
            /\ \A j, m \in jobs : j.op = "cover" /\ m.op = "cover" => j = m

Listed == media # NoDoc => /\ IsInjective(media)
                           /\ {storage[f] : f \in ToSet(media)} = chosen

Faithful ==
  Undisturbed /\ editor # "gone" =>
    /\ ~SaveUnderWay => Listed
    /\ SaveUnderWay => SavingHere \/ Covering

FaithInv == IInv /\ Faithful

\* What the page shows and what IInv says of a job.
LEMMA SavingParts ==
  ASSUME IInv, NEW k \in Kinds
  PROVE  /\ photos[k] \in Seq(Pictures) /\ Len(photos[k]) \in Nat
         /\ urls[k] \in Seq(Files) /\ Len(urls[k]) \in Nat
         /\ DOMAIN photos[k] = 1..Len(photos[k]) /\ DOMAIN urls[k] = 1..Len(urls[k])
         /\ \A i \in 1..Len(photos[k]) : photos[k][i] \in Pictures
BY DEF IInv, TypeOK

\* No save is under way: a press that leaves the document alone.
LEMMA IdlePress ==
  ASSUME FaithInv, Press, editor # "gone", UNCHANGED <<storage, media, chosen>>,
         \A j \in jobs' : j \in jobs \/ j.op = "load"
  PROVE  Faithful'
<1> SUFFICES ASSUME Undisturbed' PROVE Faithful'
  BY DEF Faithful
<1>1. Undisturbed /\ ~SaveUnderWay
  BY Pressed DEF FaithInv, Undisturbed
<1>2. Listed
  BY <1>1 DEF FaithInv, Faithful
<1>3. Listed'
  BY <1>2 DEF Listed
<1>4. ~SaveUnderWay'
  BY <1>1 DEF SaveUnderWay
<1> QED
  BY <1>3, <1>4 DEF Faithful

LEMMA InitFaithful == Init => FaithInv
<1> SUFFICES ASSUME Init PROVE FaithInv
  OBVIOUS
<1>1. jobs = {} /\ media = NoDoc
  BY DEF Init
<1> QED
  BY <1>1, InitHolds DEF FaithInv, Faithful, Listed, SaveUnderWay

LEMMA PageFaithful ==
  ASSUME FaithInv,
         OpenEditor \/ loadImagesFromEntryInfo \/ (\E album \in Albums : EditPhotos(album))
  PROVE  Faithful'
<1>1. CASE OpenEditor
  BY <1>1, IdlePress DEF OpenEditor
<1>2. CASE loadImagesFromEntryInfo
  <2>1. \A j \in jobs' : j.op = "load"
    BY <1>2 DEF loadImagesFromEntryInfo
  <2> QED
    BY <1>2, <2>1, IdlePress DEF loadImagesFromEntryInfo
<1>3. CASE \E album \in Albums : EditPhotos(album)
  <2>1. PICK album \in Albums : EditPhotos(album)
    BY <1>3
  <2>2. editor # "gone"
    BY <2>1 DEF EditPhotos, Kinds
  <2> QED
    BY <2>1, <2>2, IdlePress DEF EditPhotos
<1> QED
  BY <1>1, <1>2, <1>3

-----------------------------------------------------------------------------
(* The save.                                                               *)

LEMMA StartFaithful ==
  ASSUME IInv, NEW s \in Presses, NEW k \in Kinds, NEW others, others \subseteq jobs,
         \A j \in others : j.op = "load",
         StartUploads(s, k, others), UNCHANGED <<photos, index>>,
         index[s] = 0, photos[k] # <<>>
  PROVE  /\ Ups' # {} /\ \A j \in jobs' : j \in Ups' \/ j.op = "load"
         /\ Saving(k, s)'
<1> DEFINE album == photos[k]
<1> DEFINE n == Len(album)
<1> DEFINE up == [i \in 1..n |-> [op |-> "put", press |-> s, file |-> FileName(k, i),
                                  pic |-> album[i]]]
<1>1. /\ n \in Nat /\ n <= MaxPhotos
      /\ up \in [1..n -> Upload] /\ \A i \in 1..n : up[i].press = s
      /\ jobs' = others \cup {up[i] : i \in 1..n}
  BY Started
<1>2. /\ \A j \in jobs' : j \in others \/ (j \in Upload /\ j.op = "put")
      /\ urls' \in [Kinds -> Seq(Files)] /\ urls'[k] = <<>>
      /\ chosen' = ToSet(album)
  BY Started
<1>3. 1 <= n
  BY <1>1, SavingParts
<1>4. /\ \A i \in 1..n : /\ up[i] \in Upload /\ up[i].op = "put" /\ up[i].press = s
                         /\ up[i].file = FileName(k, i) /\ up[i].pic = album[i]
      /\ \A i, m \in 1..n : up[i].file = up[m].file => i = m
  <2>1. \A i \in 1..n : up[i] \in Upload
    BY <1>1
  <2>2. \A i \in 1..n : /\ up[i].op = "put" /\ up[i].press = s
                        /\ up[i].file = FileName(k, i) /\ up[i].pic = album[i]
    OBVIOUS
  <2>3. \A i, m \in 1..n : FileName(k, i) = FileName(k, m) => i = m
    BY <1>1 DEF FileName
  <2> HIDE DEF up, n
  <2> QED
    BY <2>1, <2>2, <2>3
<1>5. Ups' = {up[i] : i \in 1..n}
  <2> HIDE DEF up, n
  <2> QED
    BY <1>1, <1>4 DEF Ups
<1>8. IsFiniteSet(Ups') /\ Cardinality(Ups') = n
  <2>1. up \in Bijection(1..n, Ups')
    <3>1. up \in [1..n -> Ups'] /\ \A t \in Ups' : \E i \in 1..n : up[i] = t
      BY <1>5
    <3>2. \A i, m \in 1..n : up[i] = up[m] => i = m
      BY <1>4
    <3>3. DOMAIN up = 1..n
      OBVIOUS
    <3> HIDE DEF up, n
    <3> QED
      BY <3>1, <3>2, <3>3 DEF Bijection, Injection, Surjection, IsInjective
  <2>2. ExistsBijection(1..n, Ups')
    BY <2>1 DEF ExistsBijection
  <2>3. IsFiniteSet(1..n) /\ Cardinality(1..n) = n
    BY <1>1, FS_Interval
  <2> HIDE DEF n
  <2> QED
    BY <2>2, <2>3, FS_Bijection
<1>9. Ups' # {}
  BY <1>1, <1>3, <1>5
<1>10. photos'[k] = album /\ index'[s] = 0 /\ urls'[k] = <<>>
  BY <1>2
<1>11. Saving(k, s)'
  <2>1. ASSUME NEW j \in Ups'
        PROVE  /\ j \in Upload /\ j.press = s /\ j.op = "put"
               /\ \E i \in 1..n : j.file = FileName(k, i) /\ j.pic = album[i]
               /\ \A m \in Ups' : m.file = j.file => m = j
    <3> HIDE DEF up
    <3> QED
      BY <1>5, <1>4
  <2>2. \A i \in 1..n : \E j \in Ups' : j.file = FileName(k, i)
    <3> HIDE DEF up
    <3> QED
      BY <1>5, <1>4
  <2>3. Len(urls'[k]) = 0 /\ 1..Len(urls'[k]) = {} /\ Len(photos'[k]) = n
    BY <1>10
  <2>4. index'[s] = Len(urls'[k]) /\ index'[s] + Cardinality(Ups') = n
    BY <1>1, <1>8, <1>10, <2>3
  <2>5. chosen' = ToSet(photos'[k])
    BY <1>2, <1>10
  <2>6. \A j \in Ups' : j.op # "url"
    BY <2>1
  <2> HIDE DEF up, n
  <2> QED
    BY <1>8, <1>10, <2>1, <2>2, <2>3, <2>4, <2>5, <2>6 DEF Saving
<1>12. \A j \in jobs' : j \in Ups' \/ j.op = "load"
  BY <1>2 DEF Ups
<1> QED
  BY <1>9, <1>11, <1>12

LEMMA SaveFaithful ==
  ASSUME FaithInv, Save
  PROVE  Faithful'
<1> SUFFICES ASSUME Undisturbed' PROVE Faithful'
  BY DEF Faithful
<1>1. /\ editor = "image" /\ photos["image"] # <<>> /\ Press
      /\ StartUploads(presses, "image", jobs)
      /\ UNCHANGED <<photos, editor, storage, media, index>>
  BY DEF Save
<1>2. ~SaveUnderWay /\ presses \in Presses /\ presses \in Nat
  BY <1>1, Pressed DEF FaithInv, Undisturbed
<1>3. index[presses] = 0
  BY <1>2 DEF FaithInv, IInv, Counted
<1>4. \A j \in jobs : j.op = "load"
  BY <1>2 DEF SaveUnderWay
<1>5. "image" \in Kinds /\ jobs \subseteq jobs
  BY DEF Kinds
<1>6. PICK s \in Presses : s = presses
  BY <1>2
<1>7. /\ Ups' # {} /\ \A j \in jobs' : j \in Ups' \/ j.op = "load"
      /\ Saving("image", s)'
  <2>1. StartUploads(s, "image", jobs) /\ index[s] = 0
    BY <1>1, <1>3, <1>6
  <2> QED
    BY <1>1, <1>4, <1>5, <2>1, StartFaithful DEF FaithInv
<1>8. editor' = "image"
  BY <1>1
<1>9. SavingHere'
  BY <1>5, <1>7, <1>8 DEF SavingHere
<1>10. SaveUnderWay'
  BY <1>7 DEF SaveUnderWay, Ups
<1> QED
  BY <1>9, <1>10 DEF Faithful

LEMMA CoverFaithful ==
  ASSUME FaithInv,
         saveButton \/ \E j \in jobs : CoverUploaded(j)
  PROVE  Faithful'
<1> SUFFICES ASSUME Undisturbed', editor' # "gone" PROVE Faithful'
  BY DEF Faithful
<1>1. CASE saveButton
  <2> DEFINE c == [op |-> "cover", press |-> presses]
  <2>1. editor' = "images" /\ Press /\ jobs' = jobs \cup {c} /\ c.op = "cover"
    BY <1>1 DEF saveButton
  <2> HIDE DEF c
  <2>2. \A j \in jobs : j.op = "load"
    BY <2>1, Pressed DEF FaithInv, Undisturbed, SaveUnderWay
  <2>3. Covering' /\ SaveUnderWay'
    BY <2>1, <2>2 DEF Covering, Ups, SaveUnderWay
  <2> QED
    BY <2>3 DEF Faithful
<1>2. CASE \E j \in jobs : CoverUploaded(j)
  <2>1. PICK j \in jobs : CoverUploaded(j)
    BY <1>2
  <2>2. /\ j.op = "cover" /\ photos["images"] # <<>>
        /\ StartUploads(j.press, "images", jobs \ {j})
        /\ UNCHANGED <<photos, editor, storage, media, index, presses, hasty, late, failed>>
    BY <2>1 DEF CoverUploaded, past
  <2>3. SavingHere \/ Covering
    BY <2>2 DEF FaithInv, Faithful, Undisturbed, SaveUnderWay
  <2>4. Covering
    BY <2>2, <2>3 DEF SavingHere, Ups
  <2>5. /\ j.press \in Presses /\ "images" \in Kinds
        /\ \A m \in jobs \ {j} : m.op = "load"
    BY <2>2, <2>4, Jobs DEF FaithInv, IInv, Cover, Kinds, Covering
  <2>6. index[j.press] = 0
    BY <2>2, <2>5 DEF FaithInv, IInv, Counted, Covered
  <2>7. \E s, others : s = j.press /\ others = jobs \ {j}
    OBVIOUS
  <2>8. PICK s, others : s = j.press /\ others = jobs \ {j}
    BY <2>7
  <2>9. /\ s \in Presses /\ others \subseteq jobs /\ StartUploads(s, "images", others)
        /\ index[s] = 0 /\ \A m \in others : m.op = "load"
    BY <2>2, <2>5, <2>6, <2>8
  <2>10. /\ Ups' # {} /\ \A m \in jobs' : m \in Ups' \/ m.op = "load"
         /\ Saving("images", s)'
    BY <2>2, <2>5, <2>9, StartFaithful DEF FaithInv
  <2>11. SavingHere'
    BY <2>2, <2>4, <2>5, <2>9, <2>10 DEF SavingHere, Covering
  <2>12. SaveUnderWay'
    BY <2>10 DEF SaveUnderWay, Ups
  <2> QED
    BY <2>11, <2>12 DEF Faithful
<1> QED
  BY <1>1, <1>2

\* A photo that joins a page whose uploads have not begun, or does not come.
LEMMA LoadFaithful ==
  ASSUME FaithInv, NEW j \in jobs, PhotoLoaded(j) \/ PhotoNotLoaded(j)
  PROVE  Faithful'
<1> SUFFICES ASSUME Undisturbed', editor' # "gone" PROVE Faithful'
  BY DEF Faithful
<1>1. /\ j.op = "load" /\ jobs' = jobs \ {j}
      /\ \A k \in Kinds : photos'[k] = photos[k] \/ k = "images"
      /\ \/ UNCHANGED <<photos, late>>
         \/ late' = (late \/ Uploading("images"))
      /\ UNCHANGED <<urls, editor, storage, media, index, chosen, presses, hasty, failed>>
  BY DEF PhotoLoaded, PhotoNotLoaded, past, FaithInv, IInv, TypeOK, Kinds
<1>2. Undisturbed
  BY <1>1 DEF Undisturbed, FaithInv, IInv, TypeOK
<1>3. Ups' = Ups
  BY <1>1 DEF Ups
<1>4. SaveUnderWay' <=> SaveUnderWay
  BY <1>1 DEF SaveUnderWay
<1>5. CASE ~SaveUnderWay
  <2>1. Listed
    BY <1>1, <1>2, <1>5 DEF FaithInv, Faithful
  <2>2. Listed'
    BY <1>1, <2>1 DEF Listed
  <2> QED
    BY <1>4, <1>5, <2>2 DEF Faithful
<1>6. CASE SaveUnderWay /\ Covering
  <2>1. Covering'
    BY <1>1, <1>3, <1>6 DEF Covering
  <2> QED
    BY <1>4, <1>6, <2>1 DEF Faithful
<1>7. CASE SaveUnderWay /\ SavingHere
  <2>1. PICK s \in Presses : Saving(editor, s)
    BY <1>7 DEF SavingHere
  <2>2. editor \in Kinds /\ Ups # {}
    BY <1>7 DEF SavingHere
  <2> PICK k \in Kinds : k = editor
    BY <2>2
  <2>3. photos'[editor] = photos[editor]
    <3>1. CASE UNCHANGED photos
      BY <3>1
    <3>2. CASE late' = (late \/ Uploading("images"))
      <4>1. ~Uploading("images")
        BY <3>2 DEF Undisturbed
      <4>2. editor # "images"
        <5> SUFFICES ASSUME editor = "images" PROVE FALSE
          OBVIOUS
        <5>1. PICK m \in Ups : TRUE
          BY <2>2
        <5>2. \E i \in 1..Len(photos["images"]) : m.file = FileName("images", i)
          BY <2>1, <5>1 DEF Saving
        <5>3. m \in jobs /\ m.op \in {"put", "url"} /\ m.file[1] = "images"
          BY <5>1, <5>2 DEF Ups, FileName
        <5> QED
          BY <4>1, <5>3 DEF Uploading
      <4> QED
        BY <1>1, <2>2, <4>2
    <3> QED
      BY <1>1, <3>1, <3>2
  <2>4. Saving(k, s)'
    <3>1. photos'[k] = photos[k] /\ UNCHANGED <<urls, storage, Ups, index, chosen>>
      BY <1>1, <1>3, <2>3
    <3>2. /\ chosen = ToSet(photos[k]) /\ index[s] = Len(urls[k])
          /\ IsFiniteSet(Ups) /\ index[s] + Cardinality(Ups) = Len(photos[k])
          /\ \A a, b \in 1..Len(urls[k]) : urls[k][a] = urls[k][b] => a = b
      BY <2>1 DEF Saving
    <3>3. \A a \in 1..Len(urls[k]) : \E i \in 1..Len(photos'[k]) :
             urls[k][a] = FileName(k, i) /\ storage[urls[k][a]] = photos'[k][i]
      BY <2>1, <3>1 DEF Saving
    <3>4. \A m \in Ups :
             /\ m \in Upload /\ m.press = s
             /\ \A a \in 1..Len(urls[k]) : urls[k][a] # m.file
             /\ \E i \in 1..Len(photos'[k]) : m.file = FileName(k, i) /\ m.pic = photos'[k][i]
             /\ m.op = "url" => storage[m.file] = m.pic
             /\ \A o \in Ups : o.file = m.file => o = m
      BY <2>1, <3>1 DEF Saving
    <3>5. \A i \in 1..Len(photos'[k]) :
             \/ \E a \in 1..Len(urls[k]) : urls[k][a] = FileName(k, i)
             \/ \E m \in Ups : m.file = FileName(k, i)
      BY <2>1, <3>1 DEF Saving
    <3>6. /\ chosen' = ToSet(photos'[k]) /\ index'[s] = Len(urls'[k])
          /\ IsFiniteSet(Ups') /\ index'[s] + Cardinality(Ups') = Len(photos'[k])
          /\ \A a, b \in 1..Len(urls'[k]) : urls'[k][a] = urls'[k][b] => a = b
      BY <3>1, <3>2
    <3>7. \A a \in 1..Len(urls'[k]) : \E i \in 1..Len(photos'[k]) :
             urls'[k][a] = FileName(k, i) /\ storage'[urls'[k][a]] = photos'[k][i]
      BY <3>1, <3>3
    <3>8. \A m \in Ups' :
             /\ m \in Upload /\ m.press = s
             /\ \A a \in 1..Len(urls'[k]) : urls'[k][a] # m.file
             /\ \E i \in 1..Len(photos'[k]) : m.file = FileName(k, i) /\ m.pic = photos'[k][i]
             /\ m.op = "url" => storage'[m.file] = m.pic
             /\ \A o \in Ups' : o.file = m.file => o = m
      BY <3>1, <3>4
    <3>9. \A i \in 1..Len(photos'[k]) :
             \/ \E a \in 1..Len(urls'[k]) : urls'[k][a] = FileName(k, i)
             \/ \E m \in Ups' : m.file = FileName(k, i)
      BY <3>1, <3>5
    <3> QED
      BY <3>6, <3>7, <3>8, <3>9 DEF Saving
  <2>5. SavingHere'
    BY <1>1, <1>3, <1>7, <2>4 DEF SavingHere
  <2> QED
    BY <1>4, <1>7, <2>5 DEF Faithful
<1> QED
  BY <1>1, <1>2, <1>5, <1>6, <1>7 DEF FaithInv, Faithful

\* A stored photo goes on to its url: the save is as far as it was.
LEMMA PutFaithful ==
  ASSUME FaithInv, NEW j \in jobs, PhotoPut(j)
  PROVE  Faithful'
<1> SUFFICES ASSUME Undisturbed', editor' # "gone" PROVE Faithful'
  BY DEF Faithful
<1> DEFINE g == [j EXCEPT !.op = "url"]
<1>a. /\ j.op = "put" /\ jobs' = (jobs \ {j}) \cup {g}
      /\ storage' = [storage EXCEPT ![j.file] = j.pic]
      /\ UNCHANGED <<photos, urls, editor, media, index, chosen, presses, hasty, late, failed>>
  BY DEF PhotoPut, past
<1>b. j \in Ups /\ SaveUnderWay
  BY <1>a DEF Ups, SaveUnderWay
<1>2. SavingHere
  BY <1>a, <1>b DEF FaithInv, Faithful, Undisturbed, Covering
<1> PICK k \in Kinds : k = editor
  BY <1>2 DEF SavingHere
<1> PICK s \in Presses : Saving(k, s)
  BY <1>2 DEF SavingHere
<1>3. /\ j \in Upload /\ g \in Upload /\ g.op = "url" /\ g.press = j.press
      /\ g.file = j.file /\ g.pic = j.pic
  BY <1>a, Jobs, UploadContinues DEF FaithInv, IInv
<1> HIDE DEF g
<1>1. /\ j.op = "put" /\ Ups' = (Ups \ {j}) \cup {g} /\ j \in Ups
      /\ storage' = [storage EXCEPT ![j.file] = j.pic]
      /\ UNCHANGED <<photos, urls, editor, media, index, chosen, presses, hasty, late, failed>>
  BY <1>a, <1>b, <1>3 DEF Ups
<1>4. j.file \in Files /\ storage'[j.file] = j.pic
      /\ \A f \in Files \ {j.file} : storage'[f] = storage[f]
  BY <1>1, <1>3 DEF Upload, FaithInv, IInv, TypeOK
<1>5. /\ urls[k] \in Seq(Files) /\ \A a \in 1..Len(urls[k]) : urls[k][a] \in Files
  BY SavingParts DEF FaithInv
<1>6. \A m \in Ups \ {j} : m.file # j.file /\ m.file \in Files
  BY <1>b DEF Saving, Upload
<1>7. /\ j.press = s /\ \A a \in 1..Len(urls[k]) : urls[k][a] # j.file
      /\ \E i \in 1..Len(photos[k]) : j.file = FileName(k, i) /\ j.pic = photos[k][i]
  BY <1>b DEF Saving
<1>8. IsFiniteSet(Ups') /\ Cardinality(Ups') = Cardinality(Ups)
  <2>1. IsFiniteSet(Ups)
    BY DEF Saving
  <2>2. IsFiniteSet(Ups \ {j}) /\ Cardinality(Ups \ {j}) = Cardinality(Ups) - 1
    BY <1>b, <2>1, FS_RemoveElement
  <2>3. g \notin Ups \ {j}
    BY <1>3, <1>6
  <2>4. IsFiniteSet(Ups') /\ Cardinality(Ups') = Cardinality(Ups \ {j}) + 1
    BY <1>1, <2>2, <2>3, FS_AddElement
  <2>5. Cardinality(Ups) \in Nat
    BY <2>1, FS_CardinalityType
  <2> QED
    BY <2>2, <2>4, <2>5
<1>9. ASSUME NEW m \in Ups'
      PROVE  /\ m \in Upload /\ m.press = s
             /\ \A a \in 1..Len(urls[k]) : urls[k][a] # m.file
             /\ \E i \in 1..Len(photos[k]) : m.file = FileName(k, i) /\ m.pic = photos[k][i]
             /\ m.op = "url" => storage'[m.file] = m.pic
             /\ \A o \in Ups' : o.file = m.file => o = m
  <2>1. CASE m = g
    <3>1. \A o \in Ups' : o.file = m.file => o = m
      BY <1>1, <1>3, <1>6, <2>1
    <3> QED
      BY <1>3, <1>4, <1>7, <2>1, <3>1
  <2>2. CASE m \in Ups \ {j}
    <3>1. /\ m \in Upload /\ m.press = s
          /\ \A a \in 1..Len(urls[k]) : urls[k][a] # m.file
          /\ \E i \in 1..Len(photos[k]) : m.file = FileName(k, i) /\ m.pic = photos[k][i]
          /\ m.op = "url" => storage[m.file] = m.pic
          /\ \A o \in Ups : o.file = m.file => o = m
      BY <2>2 DEF Saving
    <3>2. storage'[m.file] = storage[m.file]
      BY <1>4, <1>6, <2>2
    <3>3. \A o \in Ups' : o.file = m.file => o = m
      BY <1>1, <1>3, <1>6, <2>2, <3>1
    <3> QED
      BY <3>1, <3>2, <3>3
  <2> QED
    BY <1>1, <2>1, <2>2
<1>10. \A a \in 1..Len(urls[k]) : \E i \in 1..Len(photos[k]) :
          urls[k][a] = FileName(k, i) /\ storage'[urls[k][a]] = photos[k][i]
  <2>1. \A a \in 1..Len(urls[k]) : \E i \in 1..Len(photos[k]) :
           urls[k][a] = FileName(k, i) /\ storage[urls[k][a]] = photos[k][i]
    BY DEF Saving
  <2>2. \A a \in 1..Len(urls[k]) : storage'[urls[k][a]] = storage[urls[k][a]]
    BY <1>4, <1>5, <1>7
  <2>3. ASSUME NEW a \in 1..Len(urls[k])
        PROVE  \E i \in 1..Len(photos[k]) :
                  urls[k][a] = FileName(k, i) /\ storage'[urls[k][a]] = photos[k][i]
    <3>1. PICK i \in 1..Len(photos[k]) :
             urls[k][a] = FileName(k, i) /\ storage[urls[k][a]] = photos[k][i]
      BY <2>1, Zenon
    <3>2. storage'[urls[k][a]] = photos[k][i]
      BY <2>2, <3>1, Zenon
    <3> QED
      BY <3>1, <3>2, Zenon
  <2> QED
    BY <2>3, Zenon
<1>11. \A i \in 1..Len(photos[k]) :
          \/ \E a \in 1..Len(urls[k]) : urls[k][a] = FileName(k, i)
          \/ \E m \in Ups' : m.file = FileName(k, i)
  <2>1. \A m \in Ups : \E o \in Ups' : o.file = m.file
    BY <1>1, <1>3
  <2>2. ASSUME NEW i \in 1..Len(photos[k])
        PROVE  \/ \E a \in 1..Len(urls[k]) : urls[k][a] = FileName(k, i)
               \/ \E m \in Ups : m.file = FileName(k, i)
    BY DEF Saving
  <2> QED
    BY <2>1, <2>2
<1>12. Saving(k, s)'
  <2>1. photos' = photos /\ urls' = urls /\ index' = index /\ chosen' = chosen
    BY <1>1
  <2>2. /\ chosen' = ToSet(photos'[k]) /\ index'[s] = Len(urls'[k])
        /\ index'[s] + Cardinality(Ups') = Len(photos'[k])
        /\ \A a, b \in 1..Len(urls'[k]) : urls'[k][a] = urls'[k][b] => a = b
    BY <1>8, <2>1 DEF Saving
  <2>3. \A m \in Ups' :
           /\ m \in Upload /\ m.press = s
           /\ \A a \in 1..Len(urls'[k]) : urls'[k][a] # m.file
           /\ \E i \in 1..Len(photos'[k]) : m.file = FileName(k, i) /\ m.pic = photos'[k][i]
           /\ m.op = "url" => storage'[m.file] = m.pic
           /\ \A o \in Ups' : o.file = m.file => o = m
    BY <1>9, <2>1
  <2>4. \A a \in 1..Len(urls'[k]) : \E i \in 1..Len(photos'[k]) :
           urls'[k][a] = FileName(k, i) /\ storage'[urls'[k][a]] = photos'[k][i]
    BY <1>10, <2>1
  <2>5. \A i \in 1..Len(photos'[k]) :
           \/ \E a \in 1..Len(urls'[k]) : urls'[k][a] = FileName(k, i)
           \/ \E m \in Ups' : m.file = FileName(k, i)
    BY <1>11, <2>1
  <2> QED
    BY <1>8, <2>2, <2>3, <2>4, <2>5 DEF Saving
<1> QED
  <2>1. Ups' # {} /\ \A m \in jobs' : m \in Ups' \/ m.op = "load"
    BY <1>1, <1>2, <1>a DEF SavingHere
  <2>2. SavingHere' /\ SaveUnderWay'
    BY <1>1, <1>2, <1>3, <1>12, <1>a, <2>1 DEF SavingHere, SaveUnderWay
  <2> QED
    BY <2>2 DEF Faithful

\* A url joins the list; the last one makes the list the document.
LEMMA UrlFaithful ==
  ASSUME FaithInv, NEW j \in jobs, UrlFetched(j)
  PROVE  Faithful'
<1> SUFFICES ASSUME Undisturbed', editor' # "gone" PROVE Faithful'
  BY DEF Faithful
<1> DEFINE c == j.file[1]
<1> DEFINE n == index[j.press] + 1
<1>1. /\ j.op = "url"
      /\ urls' = [urls EXCEPT ![c] = Append(urls[c], j.file)]
      /\ index' = [index EXCEPT ![j.press] = n]
      /\ IF AllThere(n, c) THEN media' = urls'[c] /\ editor' \in AfterWrite
                           ELSE UNCHANGED <<media, editor>>
      /\ jobs' = jobs \ {j} /\ Ups' = Ups \ {j} /\ j \in Ups
      /\ UNCHANGED <<photos, storage, chosen, presses, hasty, late, failed>>
  BY DEF UrlFetched, past, Ups
<1>2. SavingHere
  <2>1. editor # "gone"
    BY <1>1 DEF AfterWrite, Kinds
  <2> QED
    BY <1>1, <2>1 DEF FaithInv, Faithful, Undisturbed, Covering, SaveUnderWay
<1> PICK k \in Kinds : k = editor
  BY <1>2 DEF SavingHere
<1> PICK s \in Presses : Saving(k, s)
  BY <1>2 DEF SavingHere
<1>3. /\ j \in Upload /\ j.press = s
      /\ \A a \in 1..Len(urls[k]) : urls[k][a] # j.file
      /\ storage[j.file] = j.pic
      /\ \A m \in Ups : m.file = j.file => m = j
  BY <1>1 DEF Saving
<1>4. PICK p \in 1..Len(photos[k]) : j.file = FileName(k, p) /\ j.pic = photos[k][p]
  BY <1>1 DEF Saving
<1>5. c = k
  BY <1>4 DEF FileName
<1>6. j.file \in Files
  BY <1>3 DEF Upload
<1>7. /\ urls[k] \in Seq(Files) /\ Len(urls[k]) \in Nat /\ Len(photos[k]) \in Nat
      /\ DOMAIN photos[k] = 1..Len(photos[k])
  BY SavingParts DEF FaithInv
<1> DEFINE list == Append(urls[k], j.file)
<1>8. /\ list \in Seq(Files) /\ Len(list) = Len(urls[k]) + 1 /\ DOMAIN list = 1..Len(list)
      /\ \A a \in 1..Len(urls[k]) : list[a] = urls[k][a]
      /\ list[Len(list)] = j.file
      /\ \A a \in 1..Len(list) : a \in 1..Len(urls[k]) \/ a = Len(list)
  BY <1>6, <1>7
<1>9. urls'[k] = list /\ index'[s] = Len(list) /\ n = Len(list)
  <2>1. index[s] = Len(urls[k])
    BY DEF Saving
  <2> QED
    BY <1>1, <1>3, <1>5, <1>8, <2>1 DEF FaithInv, IInv, TypeOK
<1> HIDE DEF list, c, n
<1>10. /\ IsFiniteSet(Ups') /\ Cardinality(Ups') \in Nat
       /\ Len(list) + Cardinality(Ups') = Len(photos[k])
  <2>1. IsFiniteSet(Ups) /\ index[s] + Cardinality(Ups) = Len(photos[k])
        /\ index[s] = Len(urls[k])
    BY DEF Saving
  <2>2. IsFiniteSet(Ups \ {j}) /\ Cardinality(Ups \ {j}) = Cardinality(Ups) - 1
    BY <1>1, <2>1, FS_RemoveElement
  <2>3. Cardinality(Ups) \in Nat /\ Cardinality(Ups \ {j}) \in Nat
    BY <2>1, <2>2, FS_CardinalityType
  <2> QED
    BY <1>1, <1>7, <1>8, <2>1, <2>2, <2>3
<1>11. \A a, b \in 1..Len(list) : list[a] = list[b] => a = b
  BY <1>3, <1>8 DEF Saving
<1>12. \A a \in 1..Len(list) : \E i \in 1..Len(photos[k]) :
          list[a] = FileName(k, i) /\ storage[list[a]] = photos[k][i]
  <2>1. \A a \in 1..Len(urls[k]) : \E i \in 1..Len(photos[k]) :
           urls[k][a] = FileName(k, i) /\ storage[urls[k][a]] = photos[k][i]
    BY DEF Saving
  <2> SUFFICES ASSUME NEW a \in 1..Len(list)
               PROVE  \E i \in 1..Len(photos[k]) :
                         list[a] = FileName(k, i) /\ storage[list[a]] = photos[k][i]
    OBVIOUS
  <2>2. CASE a \in 1..Len(urls[k])
    <3>1. list[a] = urls[k][a]
      BY <1>8, <2>2
    <3>2. PICK i \in 1..Len(photos[k]) :
             urls[k][a] = FileName(k, i) /\ storage[urls[k][a]] = photos[k][i]
      BY <2>1, <2>2, Zenon
    <3> QED
      BY <3>1, <3>2, Zenon
  <2>3. CASE a = Len(list)
    BY <1>3, <1>4, <1>8, <2>3
  <2> QED
    BY <1>8, <2>2, <2>3
<1>13. \A i \in 1..Len(photos[k]) :
          \/ \E a \in 1..Len(list) : list[a] = FileName(k, i)
          \/ \E m \in Ups' : m.file = FileName(k, i)
  <2>1. ASSUME NEW i \in 1..Len(photos[k]), NEW m \in Ups, m.file = FileName(k, i)
        PROVE  \/ \E a \in 1..Len(list) : list[a] = FileName(k, i)
               \/ \E o \in Ups' : o.file = FileName(k, i)
    <3>1. Len(list) \in 1..Len(list)
      BY <1>7, <1>8
    <3> QED
      BY <1>1, <1>8, <2>1, <3>1
  <2>2. \A a \in 1..Len(urls[k]) : a \in 1..Len(list) /\ list[a] = urls[k][a]
    BY <1>7, <1>8
  <2>3. ASSUME NEW i \in 1..Len(photos[k])
        PROVE  \/ \E a \in 1..Len(urls[k]) : urls[k][a] = FileName(k, i)
               \/ \E m \in Ups : m.file = FileName(k, i)
    BY DEF Saving
  <2> QED
    BY <2>1, <2>2, <2>3
<1>14. CASE Ups' # {}
  <2>1. n # Len(photos[k])
    <3>1. Cardinality(Ups') # 0
      BY <1>10, <1>14, FS_EmptySet
    <3> QED
      BY <1>7, <1>8, <1>9, <1>10, <3>1
  <2>2. UNCHANGED <<media, editor>>
    BY <1>1, <1>5, <2>1 DEF AllThere
  <2>3. ASSUME NEW m \in Ups'
        PROVE  /\ m \in Upload /\ m.press = s
               /\ \A a \in 1..Len(list) : list[a] # m.file
               /\ \E i \in 1..Len(photos[k]) : m.file = FileName(k, i) /\ m.pic = photos[k][i]
               /\ m.op = "url" => storage[m.file] = m.pic
               /\ \A o \in Ups' : o.file = m.file => o = m
    <3>1. m \in Ups /\ m # j /\ m.file # j.file
      BY <1>1, <1>3
    <3>2. \A a \in 1..Len(urls[k]) : urls[k][a] # m.file
      BY <3>1 DEF Saving
    <3>3. \A a \in 1..Len(list) : list[a] # m.file
      BY <1>8, <3>1, <3>2
    <3> QED
      BY <1>1, <3>1, <3>3 DEF Saving
  <2>4. chosen' = ToSet(photos'[k])
    BY <1>1 DEF Saving
  <2>5. index'[s] = Len(urls'[k]) /\ index'[s] + Cardinality(Ups') = Len(photos'[k])
    BY <1>1, <1>9, <1>10
  <2>6. /\ \A a, b \in 1..Len(urls'[k]) : urls'[k][a] = urls'[k][b] => a = b
        /\ \A a \in 1..Len(urls'[k]) : \E i \in 1..Len(photos'[k]) :
              urls'[k][a] = FileName(k, i) /\ storage'[urls'[k][a]] = photos'[k][i]
        /\ \A i \in 1..Len(photos'[k]) :
              \/ \E a \in 1..Len(urls'[k]) : urls'[k][a] = FileName(k, i)
              \/ \E m \in Ups' : m.file = FileName(k, i)
    <3>1. UNCHANGED <<photos, storage>>
      BY <1>1
    <3>2. \A a \in 1..Len(urls'[k]) : \E i \in 1..Len(photos'[k]) :
              urls'[k][a] = FileName(k, i) /\ storage'[urls'[k][a]] = photos'[k][i]
      BY <1>9, <1>12, <3>1
    <3>3. \A i \in 1..Len(photos'[k]) :
              \/ \E a \in 1..Len(urls'[k]) : urls'[k][a] = FileName(k, i)
              \/ \E m \in Ups' : m.file = FileName(k, i)
      BY <1>9, <1>13, <3>1
    <3>4. \A a, b \in 1..Len(urls'[k]) : urls'[k][a] = urls'[k][b] => a = b
      BY <1>9, <1>11, Zenon
    <3> QED
      BY <3>2, <3>3, <3>4, Zenon
  <2>7. \A m \in Ups' :
           /\ m \in Upload /\ m.press = s
           /\ \A a \in 1..Len(urls'[k]) : urls'[k][a] # m.file
           /\ \E i \in 1..Len(photos'[k]) : m.file = FileName(k, i) /\ m.pic = photos'[k][i]
           /\ m.op = "url" => storage'[m.file] = m.pic
           /\ \A o \in Ups' : o.file = m.file => o = m
    <3>1. UNCHANGED <<photos, storage>>
      BY <1>1
    <3> QED
      BY <1>9, <2>3, <3>1
  <2>8. Saving(k, s)'
    BY <1>10, <2>4, <2>5, <2>6, <2>7 DEF Saving
  <2> QED
    <3>1. SavingHere'
      BY <1>1, <1>2, <1>14, <2>2, <2>8 DEF SavingHere
    <3>2. SaveUnderWay'
      BY <1>14 DEF SaveUnderWay, Ups
    <3> QED
      BY <3>1, <3>2 DEF Faithful
<1>15. CASE Ups' = {}
  <2>1. n = Len(photos[k])
    <3>1. Cardinality(Ups') = 0
      BY <1>15, FS_EmptySet
    <3> QED
      BY <1>7, <1>8, <1>9, <1>10, <3>1
  <2>2. media' = list /\ editor' \in AfterWrite
    BY <1>1, <1>5, <1>9, <2>1 DEF AllThere
  <2>3. IsInjective(list)
    BY <1>8, <1>11 DEF IsInjective
  <2>4. {storage[f] : f \in ToSet(list)} = ToSet(photos[k])
    <3>1. \A f \in ToSet(list) : \E i \in 1..Len(photos[k]) : storage[f] = photos[k][i]
      BY <1>8, <1>12 DEF ToSet
    <3>2. ASSUME NEW i \in 1..Len(photos[k])
          PROVE  \E f \in ToSet(list) : storage[f] = photos[k][i]
      <4>1. PICK a \in 1..Len(list) : list[a] = FileName(k, i)
        BY <1>13, <1>15
      <4>2. PICK m \in 1..Len(photos[k]) : list[a] = FileName(k, m) /\ storage[list[a]] = photos[k][m]
        BY <1>12
      <4>3. m = i
        BY <1>7, <4>1, <4>2 DEF FileName
      <4> QED
        BY <1>8, <4>2, <4>3 DEF ToSet
    <3>3. ToSet(photos[k]) = {photos[k][i] : i \in 1..Len(photos[k])}
      BY <1>7 DEF ToSet
    <3>4. {storage[f] : f \in ToSet(list)} \subseteq ToSet(photos[k])
      BY <3>1, <3>3
    <3>5. ToSet(photos[k]) \subseteq {storage[f] : f \in ToSet(list)}
      BY <3>2, <3>3
    <3> QED
      BY <3>4, <3>5
  <2>5. Listed'
    BY <1>1, <2>2, <2>3, <2>4 DEF Listed, Saving
  <2>6. ~SaveUnderWay'
    <3>1. \A m \in jobs' : m \in Ups' \/ m.op = "load"
      BY <1>1, <1>2 DEF SavingHere
    <3> QED
      BY <1>15, <3>1 DEF SaveUnderWay
  <2> QED
    BY <2>5, <2>6 DEF Faithful
<1> QED
  BY <1>14, <1>15

LEMMA NextFaithful == FaithInv /\ [Next]_vars => FaithInv'
<1> SUFFICES ASSUME FaithInv, [Next]_vars PROVE Faithful'
  BY NextKeeps DEF FaithInv
<1>1. CASE Save
  BY <1>1, SaveFaithful
<1>2. CASE deleteEntry
  <2>1. editor' = "gone"
    BY <1>2 DEF deleteEntry
  <2> QED
    BY <2>1 DEF Faithful
<1>3. CASE Killed
  BY <1>3 DEF Killed, Faithful, Undisturbed
<1>4. CASE OpenEditor \/ loadImagesFromEntryInfo \/ (\E album \in Albums : EditPhotos(album))
  BY <1>4, PageFaithful
<1>5. CASE saveButton \/ \E j \in jobs : CoverUploaded(j)
  BY <1>5, CoverFaithful
<1>6. ASSUME NEW j \in jobs, PhotoPut(j) \/ UrlFetched(j) \/ PhotoLoaded(j) \/ PhotoNotLoaded(j)
      PROVE  Faithful'
  BY <1>6, PutFaithful, UrlFaithful, LoadFaithful
<1>7. ASSUME NEW j \in jobs, FileDeleted(j)
      PROVE  Faithful'
  <2>1. editor = "gone"
    BY <1>7 DEF FileDeleted, FaithInv, IInv, Kept
  <2> QED
    BY <1>7, <2>1 DEF FileDeleted, Faithful
<1>8. ASSUME NEW j \in jobs, PutFailed(j) \/ UrlMissing(j) \/ CoverFailed(j) \/ DocumentRefused(j)
      PROVE  Faithful'
  BY <1>8 DEF PutFailed, UrlMissing, CoverFailed, DocumentRefused, Faithful, Undisturbed
<1>9. CASE UNCHANGED vars
  <2>1. UNCHANGED <<photos, urls, editor, storage, media, jobs, index, chosen,
                    presses, hasty, late, failed>>
    BY <1>9 DEF vars, past
  <2>2. Ups' = Ups
    BY <2>1 DEF Ups
  <2>3. ASSUME NEW k \in Kinds, NEW s \in Presses, Saving(k, s)
        PROVE  Saving(k, s)'
    <3>1. UNCHANGED <<photos, urls, storage, Ups, index, chosen>>
      BY <2>1, <2>2
    <3> QED
      BY <2>3, <3>1, ZenonT(60) DEF Saving
  <2>4. (SavingHere => SavingHere') /\ (Covering => Covering')
    BY <2>1, <2>2, <2>3 DEF SavingHere, Covering
  <2>5. /\ Undisturbed' => Undisturbed
        /\ Listed => Listed'
        /\ SaveUnderWay' <=> SaveUnderWay
    BY <2>1 DEF Undisturbed, Listed, SaveUnderWay
  <2> QED
    BY <2>1, <2>4, <2>5 DEF FaithInv, Faithful
<1> QED
  BY <1>1, <1>2, <1>3, <1>4, <1>5, <1>6, <1>7, <1>8, <1>9 DEF Next, Callback, Failure

\* When every callback of saves that did not overlap ran, none failed and no photo came
\* during the uploads, the document lists each photo of the last save once (the didSet of
\* addEntryToFirestore and of updateEntry), for any number of photos, whichever page
\* saved before and whichever photos of the page did not load.
THEOREM DocumentsListWhatWasChosen == Spec => []MediaFaithful
<1>1. Init => FaithInv
  BY InitFaithful
<1>2. FaithInv /\ [Next]_vars => FaithInv'
  BY NextFaithful
<1>3. FaithInv => MediaFaithful
  BY DEF FaithInv, Faithful, Listed, MediaFaithful
<1> QED
  BY <1>1, <1>2, <1>3, PTL DEF Spec

-----------------------------------------------------------------------------
(***************************************************************************)
(* Cover photos, the other photos of an entry (module EntryCovers).        *)
(***************************************************************************)

CoverOp == {"put", "url", "locate", "update"}
CoverJob == [op : CoverOp, n : 0..MaxSaves, entry : Entries, path : Paths, pic : Covers]

\* A job that goes on is the same save with another call outstanding.
LEMMA CoverContinues ==
  ASSUME NEW j \in CoverJob, NEW op \in CoverOp
  PROVE  LET k == [j EXCEPT !.op = op]
         IN  /\ k \in CoverJob
             /\ k.op = op /\ k.n = j.n /\ k.entry = j.entry /\ k.path = j.path /\ k.pic = j.pic
BY DEF CoverJob

-----------------------------------------------------------------------------
(* Types.                                                                  *)

LEMMA CoversTypeInit == CoversInit => CoversTypeOK
<1> SUFFICES ASSUME CoversInit PROVE CoversTypeOK
  OBVIOUS
<1>1. saves \in 0..MaxSaves
  BY CoversAssumption DEF CoversAssumption, CoversInit
<1>2. /\ coverFiles \in [Paths -> Covers \cup {NoCover}]
      /\ cover \in [Entries -> Paths \cup {NoCover}]
      /\ picked \in [Entries -> Covers \cup {NoCover}]
  BY DEF CoversInit
<1> QED
  BY <1>1, <1>2 DEF CoversInit, CoversTypeOK

LEMMA CoversTypeStep == CoversTypeOK /\ [CoversNext]_coversVars => CoversTypeOK'
<1> SUFFICES ASSUME CoversTypeOK, [CoversNext]_coversVars PROVE CoversTypeOK'
  OBVIOUS
<1> USE DEF coversPast
<1>0. coverJobs \subseteq CoverJob
  BY DEF CoversTypeOK, CoverJob, CoverOp
<1>1. ASSUME NEW e \in Entries, NEW pic \in Covers, NEW path \in Paths, UploadCover(e, path, pic)
      PROVE  CoversTypeOK'
  <2>1. saves \in 0..MaxSaves /\ saves' \in 0..MaxSaves
    BY <1>1, CoversAssumption DEF CoversAssumption, UploadCover, CoversTypeOK
  <2> QED
    BY <1>1, <2>1 DEF UploadCover, CoversTypeOK
<1>2. ASSUME NEW j \in coverJobs, CoverPut(j) PROVE CoversTypeOK'
  <2>1. coverJobs' \subseteq CoverJob
    BY <1>0, <1>2, CoverContinues, ZenonT(40) DEF CoverPut, Continue, CoverOp
  <2>2. coverFiles' \in [Paths -> Covers \cup {NoCover}]
    BY <1>0, <1>2 DEF CoverPut, StoredPhoto, CoversTypeOK, CoverJob
  <2> QED
    BY <1>2, <2>1, <2>2 DEF CoverPut, CoversTypeOK, CoverJob, CoverOp
<1>3. ASSUME NEW j \in coverJobs, CoverPutFailed(j) PROVE CoversTypeOK'
  <2>1. coverJobs' \subseteq CoverJob
    BY <1>0, <1>3, CoverContinues DEF CoverPutFailed, Continue, CoverOp
  <2> QED
    BY <1>3, <2>1 DEF CoverPutFailed, CoversTypeOK, CoverJob, CoverOp
<1>4. ASSUME NEW j \in coverJobs, CoverUrlFetched(j) PROVE CoversTypeOK'
  <2>1. coverJobs' \subseteq CoverJob
    BY <1>0, <1>4, CoverContinues, ZenonT(40) DEF CoverUrlFetched, Continue, CoverOp
  <2> QED
    BY <1>4, <2>1 DEF CoverUrlFetched, CoversTypeOK, CoverJob, CoverOp
<1>5. ASSUME NEW j \in coverJobs, LocationFound(j) \/ EntryUpdated(j) PROVE CoversTypeOK'
  BY <1>0, <1>5 DEF LocationFound, EntryUpdated, CoversTypeOK, CoverJob
<1>6. ASSUME NEW j \in coverJobs, SaveFailed(j) PROVE CoversTypeOK'
  BY <1>6 DEF SaveFailed, CoversTypeOK
<1>7. ASSUME SavesKilled PROVE CoversTypeOK'
  BY <1>7 DEF SavesKilled, CoversTypeOK
<1>8. CASE UNCHANGED coversVars
  BY <1>8 DEF coversVars, CoversTypeOK
<1>9. ASSUME NEW e \in Entries, TripSaved(e) PROVE CoversTypeOK'
  BY <1>9 DEF TripSaved, CoversTypeOK, Paths
<1>10. CASE EditorLeft
  BY <1>10 DEF EditorLeft, CoversTypeOK
<1> QED
  BY <1>1, <1>2, <1>3, <1>4, <1>5, <1>6, <1>7, <1>8, <1>9, <1>10
  DEF CoversNext, SaveFromTrip, SaveFromInfo, Paths

-----------------------------------------------------------------------------
(* No cover leads nowhere.                                                 *)

\* A save that is past the url has a file at its path, so it may set the cover, and so
\* has a pin that waits for its trip to be saved.
UrlsLead == /\ \A j \in coverJobs : j.op \in {"locate", "update"} => coverFiles[j.path] # NoCover
            /\ \A j \in coverJobs : j.op = "locate" => j.path = NoEntry
            /\ pins # {} => coverFiles[NoEntry] # NoCover

StoredInv == CoversTypeOK /\ CoverStored /\ UrlsLead

LEMMA StoredStep == StoredInv /\ [CoversNext]_coversVars => StoredInv'
<1> SUFFICES ASSUME StoredInv, [CoversNext]_coversVars PROVE StoredInv'
  OBVIOUS
<1>t. CoversTypeOK'
  BY CoversTypeStep DEF StoredInv
<1>0. coverJobs \subseteq CoverJob
  BY DEF StoredInv, CoversTypeOK, CoverJob, CoverOp
<1> USE DEF coversPast
<1>1. ASSUME NEW e \in Entries, NEW pic \in Covers, NEW path \in Paths, UploadCover(e, path, pic)
      PROVE  StoredInv'
  BY <1>t, <1>1 DEF UploadCover, StoredInv, CoverStored, UrlsLead
<1>2. ASSUME NEW j \in coverJobs, CoverPut(j) PROVE StoredInv'
  \* A put stores a photo: no path loses its file.
  <2>1. \A path \in Paths : coverFiles[path] # NoCover => coverFiles'[path] # NoCover
    BY <1>0, <1>2, CoversAssumption DEF CoversAssumption, CoverPut, StoredPhoto, StoredInv,
                                        CoversTypeOK, CoverJob
  <2>2. CoverStored'
    BY <1>2, <2>1 DEF CoverPut, StoredInv, CoverStored, CoversTypeOK
  <2>3. UrlsLead'
    BY <1>0, <1>2, <2>1, CoverContinues DEF CoverPut, Continue, StoredInv, UrlsLead, CoverJob,
                                            CoverOp
  <2> QED
    BY <1>t, <2>2, <2>3 DEF StoredInv
<1>3. ASSUME NEW j \in coverJobs, CoverPutFailed(j) PROVE StoredInv'
  <2>1. UrlsLead'
    BY <1>0, <1>3, CoverContinues DEF CoverPutFailed, Continue, StoredInv, UrlsLead, CoverOp
  <2> QED
    BY <1>t, <1>3, <2>1 DEF CoverPutFailed, StoredInv, CoverStored
<1>4. ASSUME NEW j \in coverJobs, CoverUrlFetched(j) PROVE StoredInv'
  <2>1. UrlsLead'
    <3> DEFINE k == [j EXCEPT !.op = IF j.path = NoEntry THEN "locate" ELSE "update"]
    <3>1. /\ k.path = j.path /\ coverFiles[j.path] # NoCover
          /\ k.op = "locate" => j.path = NoEntry
      BY <1>0, <1>4, CoverContinues DEF CoverUrlFetched, UrlGiven, CoverOp
    <3>2. coverJobs' = (coverJobs \ {j}) \cup {k} /\ UNCHANGED <<coverFiles, pins>>
      BY <1>4 DEF CoverUrlFetched, Continue
    <3> HIDE DEF k
    <3> QED
      BY <3>1, <3>2 DEF StoredInv, UrlsLead
  <2> QED
    BY <1>t, <1>4, <2>1 DEF CoverUrlFetched, StoredInv, CoverStored
<1>5. ASSUME NEW j \in coverJobs, EntryUpdated(j) PROVE StoredInv'
  <2>1. coverFiles[j.path] # NoCover
    BY <1>5 DEF EntryUpdated, StoredInv, UrlsLead
  <2>2. CoverStored'
    BY <1>5, <2>1 DEF EntryUpdated, StoredInv, CoverStored, CoversTypeOK
  <2> QED
    BY <1>t, <1>5, <2>2 DEF EntryUpdated, StoredInv, UrlsLead
<1>9. ASSUME NEW j \in coverJobs, LocationFound(j) PROVE StoredInv'
  <2>1. coverFiles[NoEntry] # NoCover
    BY <1>9 DEF LocationFound, StoredInv, UrlsLead
  <2>2. CoverStored'
    BY <1>9 DEF LocationFound, StoredInv, CoverStored
  <2> QED
    BY <1>t, <1>9, <2>1, <2>2 DEF LocationFound, StoredInv, UrlsLead
<1>10. ASSUME NEW e \in Entries, TripSaved(e) PROVE StoredInv'
  <2>1. coverFiles[NoEntry] # NoCover
    BY <1>10 DEF TripSaved, StoredInv, UrlsLead
  <2>2. CoverStored'
    BY <1>10, <2>1 DEF TripSaved, StoredInv, CoverStored, CoversTypeOK
  <2> QED
    BY <1>t, <1>10, <2>1, <2>2 DEF TripSaved, StoredInv, UrlsLead
<1>11. CASE EditorLeft
  BY <1>t, <1>11 DEF EditorLeft, StoredInv, CoverStored, UrlsLead
<1>6. ASSUME NEW j \in coverJobs, SaveFailed(j) PROVE StoredInv'
  BY <1>t, <1>6 DEF SaveFailed, StoredInv, CoverStored, UrlsLead
<1>7. ASSUME SavesKilled PROVE StoredInv'
  BY <1>t, <1>7 DEF SavesKilled, StoredInv, CoverStored, UrlsLead
<1>8. CASE UNCHANGED coversVars
  BY <1>t, <1>8 DEF coversVars, StoredInv, CoverStored, UrlsLead
<1> QED
  BY <1>1, <1>2, <1>3, <1>4, <1>5, <1>6, <1>7, <1>8, <1>9, <1>10, <1>11
  DEF CoversNext, SaveFromTrip, SaveFromInfo, Paths

\* However many saves overlap, fail half way or are cut off, every reachable state is
\* well typed and every cover an entry has leads to a stored photo
\* (uploadEntryCoverPhoto calls its completion only with a url).
THEOREM CoversAlwaysStored == CoversSpec => []CoversInv
<1>1. CoversInit => StoredInv
  BY CoversTypeInit DEF CoversInit, StoredInv, CoverStored, UrlsLead
<1>2. StoredInv => CoversInv
  BY DEF StoredInv, CoversInv
<1> QED
  BY <1>1, <1>2, StoredStep, PTL DEF CoversSpec

-----------------------------------------------------------------------------
(* The cover of an entry's page is the photo chosen there.                 *)

\* Every job saves to the shared path or to the path of its own entry.
OwnPath == \A j \in coverJobs : j.path \in Entries => j.entry = j.path

\* Only saves of a trip's editor wait for an address.
LocateShared == \A j \in coverJobs : j.op = "locate" => j.path = NoEntry

\* No two jobs save to one path.
OneJobPerPath == \A j, k \in coverJobs : j.path = k.path => j = k

\* What a job has put is at its path.
PutStays == \A j \in coverJobs : j.op # "put" => coverFiles[j.path] = j.pic

\* An entry whose cover is its own shows the photo chosen, or one that is being saved.
OwnCoverOrJob ==
  \A e \in Entries : cover[e] = e =>
    \/ coverFiles[e] = picked[e]
    \/ \E j \in coverJobs : j.path = e /\ j.op # "put"

OwnInv == /\ CoversTypeOK
          /\ OwnPath
          /\ ~saveFailed /\ ~clashed => OneJobPerPath /\ PutStays /\ OwnCoverOrJob

\* A job that goes on without touching files and covers keeps the invariant.
LEMMA ContinueOwn ==
  ASSUME OwnInv, CoversTypeOK', NEW j \in coverJobs, NEW op \in CoverOp,
         op # "put",
         Continue(j, op),
         UNCHANGED <<cover, picked, saveFailed, clashed>>,
         \A path \in Paths : path # j.path => coverFiles'[path] = coverFiles[path],
         ~saveFailed /\ ~clashed => coverFiles'[j.path] = j.pic
  PROVE  OwnInv'
<1>0. coverJobs \subseteq CoverJob
  BY DEF OwnInv, CoversTypeOK, CoverJob, CoverOp
<1> DEFINE k == [j EXCEPT !.op = op]
<1>1. k.path = j.path /\ k.entry = j.entry /\ k.pic = j.pic /\ k.op = op
  BY <1>0, CoverContinues
<1>2. coverJobs' = (coverJobs \ {j}) \cup {k}
  BY DEF Continue
<1> HIDE DEF k
<1>3. \A i \in coverJobs : i.path \in Paths
  BY <1>0 DEF CoverJob
<1>4. OwnPath'
  BY <1>1, <1>2 DEF OwnInv, OwnPath
<1>5. ASSUME ~saveFailed, ~clashed PROVE (OneJobPerPath /\ PutStays /\ OwnCoverOrJob)'
  <2>1. OneJobPerPath /\ PutStays /\ OwnCoverOrJob
    BY <1>5 DEF OwnInv
  <2>2. OneJobPerPath'
    BY <1>1, <1>2, <2>1 DEF OneJobPerPath
  <2>3. PutStays'
    BY <1>1, <1>2, <1>3, <1>5, <2>1 DEF OneJobPerPath, PutStays
  <2>4. OwnCoverOrJob'
    <3> SUFFICES ASSUME NEW e \in Entries, cover[e] = e
                 PROVE  \/ coverFiles'[e] = picked[e]
                        \/ \E i \in coverJobs' : i.path = e /\ i.op # "put"
      BY DEF OwnCoverOrJob
    <3>1. CASE j.path = e
      BY <1>1, <1>2, <3>1
    <3>2. CASE j.path # e
      <4>1. coverFiles'[e] = coverFiles[e]
        BY <3>2 DEF Paths
      <4> QED
        BY <1>2, <2>1, <3>2, <4>1 DEF OwnCoverOrJob
    <3> QED
      BY <3>1, <3>2
  <2> QED
    BY <2>2, <2>3, <2>4
<1> QED
  BY <1>4, <1>5 DEF OwnInv

LEMMA LocateStep == CoversTypeOK /\ LocateShared /\ [CoversNext]_coversVars => LocateShared'
<1> SUFFICES ASSUME CoversTypeOK, LocateShared, [CoversNext]_coversVars PROVE LocateShared'
  OBVIOUS
<1>0. coverJobs \subseteq CoverJob
  BY DEF CoversTypeOK, CoverJob, CoverOp
<1>1. ASSUME NEW j \in coverJobs, NEW op \in CoverOp, Continue(j, op),
             op = "locate" => j.path = NoEntry
      PROVE  LocateShared'
  <2> DEFINE k == [j EXCEPT !.op = op]
  <2>1. k.op = op /\ k.path = j.path /\ coverJobs' = (coverJobs \ {j}) \cup {k}
    BY <1>0, <1>1, CoverContinues DEF Continue
  <2> HIDE DEF k
  <2> QED
    BY <1>1, <2>1 DEF LocateShared
<1>2. ASSUME NEW j \in coverJobs, CoverPut(j) \/ CoverPutFailed(j) \/ CoverUrlFetched(j)
      PROVE  LocateShared'
  <2>1. Continue(j, "url") \/ Continue(j, IF j.path = NoEntry THEN "locate" ELSE "update")
    BY <1>2 DEF CoverPut, CoverPutFailed, CoverUrlFetched
  <2> QED
    BY <1>1, <2>1 DEF CoverOp
<1>3. ASSUME NEW j \in coverJobs, LocationFound(j) \/ EntryUpdated(j) \/ SaveFailed(j)
      PROVE  LocateShared'
  BY <1>3 DEF LocationFound, EntryUpdated, SaveFailed, LocateShared
<1>4. ASSUME NEW e, NEW path, NEW pic, UploadCover(e, path, pic)
      PROVE  LocateShared'
  BY <1>4 DEF UploadCover, LocateShared
<1>5. ASSUME NEW e \in Entries, TripSaved(e)
      PROVE  LocateShared'
  BY <1>5 DEF TripSaved, LocateShared
<1>6. CASE EditorLeft \/ SavesKilled \/ UNCHANGED coversVars
  BY <1>6 DEF EditorLeft, SavesKilled, coversVars, LocateShared
<1> QED
  BY <1>2, <1>3, <1>4, <1>5, <1>6 DEF CoversNext, SaveFromTrip, SaveFromInfo

LEMMA OwnStep == OwnInv /\ LocateShared /\ [CoversNext]_coversVars => OwnInv'
<1> SUFFICES ASSUME OwnInv, LocateShared, [CoversNext]_coversVars PROVE OwnInv'
  OBVIOUS
<1>t. CoversTypeOK'
  BY CoversTypeStep DEF OwnInv
<1>0. coverJobs \subseteq CoverJob
  BY DEF OwnInv, CoversTypeOK, CoverJob, CoverOp
<1> USE DEF coversPast
<1>1. ASSUME NEW e \in Entries, NEW pic \in Covers, NEW path \in {NoEntry, e},
             UploadCover(e, path, pic)
      PROVE  OwnInv'
  <2> DEFINE k == [op |-> "put", n |-> saves, entry |-> e, path |-> path, pic |-> pic]
  <2>1. k.op = "put" /\ k.entry = e /\ k.path = path
    OBVIOUS
  <2>2. coverJobs' = coverJobs \cup {k}
    BY <1>1 DEF UploadCover
  <2>3. ~clashed' => ~clashed /\ \A j \in coverJobs : j.path # path
    BY <1>1 DEF UploadCover
  <2> HIDE DEF k
  <2>4. UNCHANGED <<coverFiles, cover, picked, saveFailed>>
    BY <1>1 DEF UploadCover
  <2>5. OwnPath'
    BY <2>1, <2>2, CoversAssumption DEF CoversAssumption, OwnInv, OwnPath
  <2>6. ~saveFailed' /\ ~clashed' => (OneJobPerPath /\ PutStays /\ OwnCoverOrJob)'
    BY <2>1, <2>2, <2>3, <2>4 DEF OwnInv, OneJobPerPath, PutStays, OwnCoverOrJob
  <2> QED
    BY <1>t, <2>5, <2>6 DEF OwnInv
<1>2. ASSUME NEW j \in coverJobs, CoverPut(j) PROVE OwnInv'
  <2>1. /\ coverFiles'[j.path] = j.pic
        /\ \A path \in Paths : path # j.path => coverFiles'[path] = coverFiles[path]
    BY <1>0, <1>2 DEF CoverPut, StoredPhoto, OwnInv, CoversTypeOK, CoverJob
  <2> QED
    BY <1>t, <1>2, <2>1, ContinueOwn DEF CoverPut, CoverOp
<1>3. ASSUME NEW j \in coverJobs, CoverPutFailed(j) PROVE OwnInv'
  <2>1. saveFailed'
    BY <1>3 DEF CoverPutFailed
  <2> DEFINE k == [j EXCEPT !.op = "url"]
  <2>2. coverJobs' = (coverJobs \ {j}) \cup {k}
    BY <1>3 DEF CoverPutFailed, Continue
  <2>3. k.path = j.path /\ k.entry = j.entry
    BY <1>0, CoverContinues DEF CoverOp
  <2> HIDE DEF k
  <2>4. OwnPath'
    BY <2>2, <2>3 DEF OwnInv, OwnPath
  <2> QED
    BY <1>t, <2>1, <2>4 DEF OwnInv
<1>4. ASSUME NEW j \in coverJobs, CoverUrlFetched(j) PROVE OwnInv'
  <2>1. ~saveFailed /\ ~clashed => coverFiles[j.path] = j.pic
    BY <1>4 DEF CoverUrlFetched, OwnInv, PutStays
  <2>2. PICK op \in {"locate", "update"} : Continue(j, op)
    BY <1>4 DEF CoverUrlFetched
  <2>3. UNCHANGED <<coverFiles, cover, picked, saveFailed, clashed>>
    BY <1>4 DEF CoverUrlFetched
  <2> QED
    BY <1>t, <2>1, <2>2, <2>3, ContinueOwn DEF CoverOp
<1>9. ASSUME NEW j \in coverJobs, LocationFound(j) PROVE OwnInv'
  <2>1. coverJobs' = coverJobs \ {j} /\ UNCHANGED <<coverFiles, cover, picked, saveFailed, clashed>>
    BY <1>9 DEF LocationFound
  <2>2. j.op # "put" /\ OwnPath'
    BY <1>9, <2>1 DEF LocationFound, OwnInv, OwnPath
  <2>3. ASSUME ~saveFailed, ~clashed PROVE (OneJobPerPath /\ PutStays /\ OwnCoverOrJob)'
    <3>1. j.path = NoEntry
      BY <1>9 DEF LocationFound, LocateShared
    <3>2. \A e \in Entries : j.path # e
      BY <3>1, CoversAssumption
    <3> QED
      BY <2>1, <2>3, <3>2 DEF OwnInv, OneJobPerPath, PutStays, OwnCoverOrJob
  <2> QED
    BY <1>t, <2>1, <2>2, <2>3 DEF OwnInv
<1>10. ASSUME NEW e \in Entries, TripSaved(e) PROVE OwnInv'
  <2>1. /\ cover' = [cover EXCEPT ![e] = NoEntry]
        /\ UNCHANGED <<coverFiles, picked, coverJobs, saveFailed, clashed>>
    BY <1>10 DEF TripSaved
  <2>2. \A d \in Entries : cover'[d] = d => cover[d] = d
    BY <2>1, CoversAssumption DEF OwnInv, CoversTypeOK
  <2> QED
    BY <1>t, <2>1, <2>2 DEF OwnInv, OwnPath, OneJobPerPath, PutStays, OwnCoverOrJob
<1>11. CASE EditorLeft
  BY <1>t, <1>11 DEF EditorLeft, OwnInv, OwnPath, OneJobPerPath, PutStays, OwnCoverOrJob
<1>5. ASSUME NEW j \in coverJobs, EntryUpdated(j) PROVE OwnInv'
  <2>1. /\ cover' = [cover EXCEPT ![j.entry] = j.path]
        /\ picked' = [picked EXCEPT ![j.entry] = j.pic]
        /\ coverJobs' = coverJobs \ {j}
        /\ UNCHANGED <<coverFiles, saveFailed, clashed>>
    BY <1>5 DEF EntryUpdated
  <2>2. j.entry \in Entries /\ j.path \in Paths
    BY <1>0 DEF CoverJob
  <2>3. OwnPath'
    BY <2>1 DEF OwnInv, OwnPath
  <2>4. ASSUME ~saveFailed, ~clashed PROVE (OneJobPerPath /\ PutStays /\ OwnCoverOrJob)'
    <3>1. OneJobPerPath /\ PutStays /\ OwnCoverOrJob
      BY <2>4 DEF OwnInv
    <3>2. OneJobPerPath' /\ PutStays'
      BY <2>1, <3>1 DEF OneJobPerPath, PutStays
    <3>3. ASSUME NEW e \in Entries, cover'[e] = e
          PROVE  \/ coverFiles'[e] = picked'[e]
                 \/ \E i \in coverJobs' : i.path = e /\ i.op # "put"
      <4>1. CASE e = j.entry
        \* The cover is its own, so the job saved to the path of the entry.
        <5>1. j.path = e /\ picked'[e] = j.pic
          BY <2>1, <2>2, <3>3, <4>1 DEF OwnInv, CoversTypeOK
        <5>2. coverFiles'[e] = j.pic
          BY <1>5, <2>1, <3>1, <5>1 DEF EntryUpdated, PutStays
        <5> QED
          BY <5>1, <5>2
      <4>2. CASE e # j.entry
        <5>1. cover[e] = e /\ picked'[e] = picked[e] /\ coverFiles'[e] = coverFiles[e]
          BY <2>1, <2>2, <3>3, <4>2 DEF OwnInv, CoversTypeOK
        <5>2. j.path # e
          BY <4>2 DEF OwnInv, OwnPath
        <5> QED
          BY <2>1, <3>1, <5>1, <5>2 DEF OwnCoverOrJob
      <4> QED
        BY <4>1, <4>2
    <3> QED
      BY <3>2, <3>3 DEF OwnCoverOrJob
  <2> QED
    BY <1>t, <2>1, <2>3, <2>4 DEF OwnInv
<1>6. ASSUME NEW j \in coverJobs, SaveFailed(j) PROVE OwnInv'
  BY <1>t, <1>6 DEF SaveFailed, OwnInv, OwnPath
<1>7. ASSUME SavesKilled PROVE OwnInv'
  BY <1>t, <1>7 DEF SavesKilled, OwnInv, OwnPath
<1>8. CASE UNCHANGED coversVars
  BY <1>t, <1>8 DEF coversVars, OwnInv, OwnPath, OneJobPerPath, PutStays, OwnCoverOrJob
<1> QED
  BY <1>1, <1>2, <1>3, <1>4, <1>5, <1>6, <1>7, <1>8, <1>9, <1>10, <1>11
  DEF CoversNext, SaveFromTrip, SaveFromInfo

\* The cover an entry's page has saved is the photo last chosen there, however saves of
\* other entries and of the trip's editor overlap with it (saveButton, updateEntry).
THEOREM OwnCoverAlwaysChosen == CoversSpec => []OwnCoverIsChosen
<1>1. CoversInit => OwnInv
  <2>1. CoversInit => OwnPath /\ OneJobPerPath /\ PutStays
    BY DEF CoversInit, OwnPath, OneJobPerPath, PutStays
  <2>2. CoversInit => OwnCoverOrJob
    BY DEF CoversInit, OwnCoverOrJob, Paths
  <2> QED
    BY <2>1, <2>2, CoversTypeInit DEF OwnInv
<1>2. CoversInit => LocateShared
  BY DEF CoversInit, LocateShared
<1>3. OwnInv /\ LocateShared /\ [CoversNext]_coversVars => (OwnInv /\ LocateShared)'
  BY OwnStep, LocateStep DEF OwnInv
<1>4. OwnInv => OwnCoverIsChosen
  BY DEF OwnInv, OwnCoverOrJob, OwnCoverIsChosen, SavesUndisturbed
<1> QED
  BY <1>1, <1>2, <1>3, <1>4, PTL DEF CoversSpec
=============================================================================

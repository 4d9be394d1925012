---------------------------- MODULE MCEntryPhotos ---------------------------
EXTENDS EntryPhotos
CONSTANTS p, q
=============================================================================

---------------------------- MODULE MCEntryCovers ---------------------------
EXTENDS EntryCovers
CONSTANTS e1, e2, p, q
=============================================================================

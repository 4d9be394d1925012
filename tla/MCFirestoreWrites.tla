-------------------------- MODULE MCFirestoreWrites --------------------------
EXTENDS FirestoreWrites
CONSTANTS ann, nobody
=============================================================================

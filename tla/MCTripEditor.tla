---------------------------- MODULE MCTripEditor ----------------------------
EXTENDS TripEditor
CONSTANTS e1, e2, e3, t1, t2
=============================================================================

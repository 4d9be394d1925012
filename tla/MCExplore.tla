----------------------------- MODULE MCExplore ------------------------------
EXTENDS Explore, TLC
CONSTANTS a, b

\* The row's text a stands for a place whose title is b.
MCPlaceTitle == (a :> b) @@ (b :> b)
=============================================================================

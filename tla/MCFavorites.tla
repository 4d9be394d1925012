----------------------------- MODULE MCFavorites ----------------------------
EXTENDS Favorites
CONSTANTS t1, t2, t3
=============================================================================

----------------------------- MODULE MCNewsFeed -----------------------------
EXTENDS NewsFeed
CONSTANTS p1, p2, p3

\* p1 and p3 were saved in one second
MCTime == (p1 :> 3) @@ (p2 :> 7) @@ (p3 :> 3)
\* a and b are pictures of p1, c is of p2; p3 is an entry saved without photos
MCPics == (p1 :> {"a", "b"}) @@ (p2 :> {"c"}) @@ (p3 :> {})
=============================================================================

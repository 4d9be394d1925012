-------------------------- MODULE FollowRefinement --------------------------
(***************************************************************************)
(* FollowGraph implements FollowSpec when users take turns: a press is one *)
(* abstract step although its two list writes reach the server one by one. *)
(***************************************************************************)
EXTENDS FollowGraph

\* A stored list as it will be when the queued writes have landed.
Landed(field, u, stored) ==
  LET ahead == {c \in Users : LocalField(c, field, u, stored) # stored}
  IN  IF ahead = {} THEN stored
      ELSE LocalField(CHOOSE c \in ahead : TRUE, field, u, stored)

FollowsNow == {p \in Users \X Users : p[1] \in Landed("followers", p[2], followers[p[2]])}
WaitingNow == {p \in Users \X Users : p[1] \in Landed("requests", p[2], requests[p[2]])}
OpenNow    == {u \in Users : Landed("public", u, public[u])}

Abs == INSTANCE FollowSpec WITH follows <- FollowsNow, waiting <- WaitingNow, open <- OpenNow

\* Pressed one at a time, the buttons of ProfilePageViewController,
\* FollowersListViewController, FollowingListViewController and the privacy
\* switch do exactly what FollowSpec says, each at one instant.
ImplementsFollowSpec == Abs!Spec
=============================================================================

--------------------------- MODULE MCFollowGraph ---------------------------
EXTENDS FollowRefinement
CONSTANTS u1, u2, u3, e1, e2

MCOwner == [e \in Entries |-> u1]
MCSymmetry == Permutations(Users)

\* The author's account starts private (and may be made public): with an account that
\* was public at the start, consent to its feed asks for nothing.
PrivateAuthorInit == Init /\ ~public[u1]
PrivateAuthorSpec == PrivateAuthorInit /\ [][Next]_vars
=============================================================================

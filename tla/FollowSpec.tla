----------------------------- MODULE FollowSpec -----------------------------
(***************************************************************************)
(* What the follow buttons of the app promise, with every press atomic:    *)
(* one relation "f follows u", the requests waiting for an answer and the  *)
(* accounts that are public.  FollowGraph is the protocol that keeps the   *)
(* relation in two Firestore documents.                                    *)
(***************************************************************************)
CONSTANT Users

VARIABLES follows,     \* <<f, u>> : f follows u
          waiting,     \* <<f, u>> : f asked private u and has no answer
          open         \* the public accounts

vars == <<follows, waiting, open>>

Pairs == {p \in Users \X Users : p[1] # p[2]}

Init == /\ follows = {}
        /\ waiting = {}
        /\ open \in SUBSET Users

Follow(f, u) == /\ <<f, u>> \in Pairs \ follows
                /\ u \in open
                /\ follows' = follows \cup {<<f, u>>}
                /\ UNCHANGED <<waiting, open>>

Request(f, u) == /\ <<f, u>> \in Pairs \ (follows \cup waiting)
                 /\ u \notin open
                 /\ waiting' = waiting \cup {<<f, u>>}
                 /\ UNCHANGED <<follows, open>>

\* u may go public between a request and its answer: accepting needs only the request.
Accept(f, u) == /\ <<f, u>> \in waiting
                /\ waiting' = waiting \ {<<f, u>>}
                /\ follows' = follows \cup {<<f, u>>}
                /\ UNCHANGED open

Deny(f, u) == /\ <<f, u>> \in waiting
              /\ waiting' = waiting \ {<<f, u>>}
              /\ UNCHANGED <<follows, open>>

Unfollow(f, u) == /\ <<f, u>> \in follows
                  /\ follows' = follows \ {<<f, u>>}
                  /\ UNCHANGED <<waiting, open>>

SetPrivacy(u) == /\ open' \in {open \cup {u}, open \ {u}}
                 /\ UNCHANGED <<follows, waiting>>

Next == \/ \E f, u \in Users : \/ Follow(f, u)
                               \/ Request(f, u)
                               \/ Accept(f, u)
                               \/ Deny(f, u)
                               \/ Unfollow(f, u)
        \/ \E u \in Users : SetPrivacy(u)

Spec == Init /\ [][Next]_vars
=============================================================================

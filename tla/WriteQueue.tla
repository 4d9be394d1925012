----------------------------- MODULE WriteQueue -----------------------------
(***************************************************************************)
(* What the Firestore client promises about writes, and all that the app's *)
(* own code may rely on: the writes of an account wait in one queue that   *)
(* outlives the app, are resolved from its front, one at a time and only   *)
(* after the server has seen them, and reach the server in queue order.    *)
(* It does not promise that the server sees a write once: after a lost     *)
(* connection the server is taken through the queue again from its front.  *)
(* Nor does it promise that a write taken off after a refusal is the one   *)
(* that was refused.                                                       *)
(***************************************************************************)
EXTENDS Naturals, Sequences

CONSTANTS Users,   \* accounts of one device, the signed-out account included
          Writes   \* the writes the app makes

VARIABLES pending,   \* per account, its unresolved writes, oldest first
          active,    \* the account whose writes are being sent
          passed,    \* how many of them the server has committed, from the front
          refusing,  \* the server refused the one after those and listens no more
          doc        \* the write the server's document shows, 0 before any

vars == <<pending, active, passed, refusing, doc>>

Init == /\ pending = [u \in Users |-> <<>>]
        /\ active \in Users
        /\ passed = 0
        /\ refusing = FALSE
        /\ doc = 0

\* The app writes; the account that is signed in owns the write.
Issue(w) == /\ \A u \in Users : \A i \in DOMAIN pending[u] : pending[u][i] # w
            /\ pending' = [pending EXCEPT ![active] = Append(@, w)]
            /\ UNCHANGED <<active, passed, refusing, doc>>

\* The server commits the next write.
Commit == /\ ~refusing
          /\ passed < Len(pending[active])
          /\ doc' = pending[active][passed + 1]
          /\ passed' = passed + 1
          /\ UNCHANGED <<pending, active, refusing>>

\* The server refuses the next write.
Refuse == /\ ~refusing
          /\ passed < Len(pending[active])
          /\ refusing' = TRUE
          /\ UNCHANGED <<pending, active, passed, doc>>

\* The client learns that the oldest write is committed.
Confirm == /\ passed > 0
           /\ pending' = [pending EXCEPT ![active] = Tail(@)]
           /\ passed' = passed - 1
           /\ UNCHANGED <<active, refusing, doc>>

\* The client learns of the refusal and starts over behind the oldest write.  When
\* answers were lost on the way this is not the write that was refused.
Drop == /\ refusing
        /\ pending' = [pending EXCEPT ![active] = Tail(@)]
        /\ passed' = 0
        /\ refusing' = FALSE
        /\ UNCHANGED <<active, doc>>

\* The connection is lost, another account is active or the app starts again.
Restart(u) == /\ passed' = 0
              /\ refusing' = FALSE
              /\ active' = u
              /\ UNCHANGED <<pending, doc>>

Next == \/ \E w \in Writes : Issue(w)
        \/ Commit
        \/ Refuse
        \/ Confirm
        \/ Drop
        \/ \E u \in Users : Restart(u)

Spec == Init /\ [][Next]_vars
=============================================================================

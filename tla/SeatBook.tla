------------------------------ MODULE SeatBook ------------------------------
(***************************************************************************)
(* What the server promises its users about seats however their requests   *)
(* overlap, with no requests, locks, scans or failures: one row per        *)
(* posting and helper, and a limit per posting.  A seat is granted only    *)
(* while fewer than the limit are; whoever was granted one may lose it to  *)
(* a late answer and get it back from a late report, but nobody else ever  *)
(* gets one that way; and a row, once there, never goes away.              *)
(***************************************************************************)
EXTENDS Naturals, FiniteSets

CONSTANTS Users, Tasks

VARIABLES
    row,    \* row[t][u]: where helper u stands on posting t
    left,   \* the <<t, u>> that lost a seat and were granted none since
    limit   \* limit[t]: the most seats posting t has offered

Seats == {"ACCEPTED", "IN_PROGRESS", "PENDING_CONFIRMATION", "COMPLETED"}

\* The helpers who sit on t by a claim, not because a seat was given back.
Granted(t) == {u \in Users : row[t][u] \in Seats /\ <<t, u>> \notin left}

Put(t, u, to) ==
    /\ row' = [row EXCEPT ![t][u] = to]
    /\ UNCHANGED limit

Enter(t, u) ==
    /\ row[t][u] = "NONE"
    /\ Put(t, u, "APPLIED")
    /\ UNCHANGED left

\* A free seat is granted, first come or by the poster's choice.
Claim(t, u) ==
    /\ Cardinality(Granted(t) \ {u}) < limit[t]
    /\ Put(t, u, "ACCEPTED")
    /\ left' = left \ {<<t, u>>}

\* An application, an answer or a withdrawal, over whatever the row is by now.
Unseat(t, u, to) ==
    /\ row[t][u] # "NONE"
    /\ Put(t, u, to)
    /\ left' = IF row[t][u] \in Seats THEN left \union {<<t, u>>} ELSE left

\* Work is reported or confirmed: by whom a seat was granted, kept or lost.
Hold(t, u, to) ==
    /\ row[t][u] \in Seats \/ <<t, u>> \in left
    /\ Put(t, u, to)
    /\ UNCHANGED left

Raise(t) ==
    /\ limit'[t] > limit[t]
    /\ limit' = [limit EXCEPT ![t] = limit'[t]]
    /\ UNCHANGED <<row, left>>

Init ==
    /\ row = [t \in Tasks |-> [u \in Users |-> "NONE"]]
    /\ left = {}
    /\ limit = [t \in Tasks |-> 0]

Next ==
    \/ \E t \in Tasks, u \in Users :
        \/ Enter(t, u)
        \/ Claim(t, u)
        \/ \E to \in {"APPLIED", "REJECTED", "WITHDRAWN"} : Unseat(t, u, to)
        \/ \E to \in {"PENDING_CONFIRMATION", "COMPLETED"} : Hold(t, u, to)
    \/ \E t \in Tasks : Raise(t)

Spec == Init /\ [][Next]_<<row, left, limit>>

=============================================================================

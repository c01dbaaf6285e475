----------------------------- MODULE WalkRefines -----------------------------
(***************************************************************************)
(* The walk of module Walk as an implementation of WalkContract: the       *)
(* result is the caller's from the moment walk() returns it.               *)
(***************************************************************************)
EXTENDS Walk

\* The result as the caller reads it.  A walk that lost a worker is not held to
\* its `complete`: see the README on threads that die.
Answer ==
    [counted   |-> [e \in Entries |-> res[<<"counted", e>>]],
     accounted |-> [e \in Entries |-> Accounts(res, e)],
     finished  |-> published,
     partial   |-> partial,
     complete  |-> Complete /\ stranded = {}]

Contract ==
    INSTANCE WalkContract
        WITH asked <- stop, result <- IF main = "published" THEN {Answer} ELSE {}

\* Every behaviour of the threads is one that the contract allows: one result,
\* exact where it says so, never changed by a thread that comes late
\* (walk.py:1893-1942).
KeepsContract == Contract!Spec
=============================================================================

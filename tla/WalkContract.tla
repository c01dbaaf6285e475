---------------------------- MODULE WalkContract ----------------------------
(***************************************************************************)
(* What walk() promises its caller, whatever its threads do: one result,   *)
(* which does not change once it is there, in which nothing is charged     *)
(* twice, whose finished rows are exact and which is the whole tree when   *)
(* it says so.  (walk.py, `WalkResult` and the docstring of `walk`.)       *)
(***************************************************************************)
EXTENDS Naturals

CONSTANTS
    Entries, Root,     \* the tree
    Parent, Top        \* the directory an entry is in; its depth-1 ancestor

VARIABLES
    asked,             \* the caller has asked the walk to stop
    result             \* the set of its results: none or one

vars == <<asked, result>>

\* counted: the entries whose own inode is in the total; accounted: those of
\* which the result says what became of them; finished: the depth-1 rows that
\* are ranked although the walk was cut short.
Results ==
    [counted : [Entries -> 0..1], accounted : [Entries -> 0..1],
     finished : SUBSET (Entries \ {Root}), partial : BOOLEAN, complete : BOOLEAN]

\* An entry is accounted for just if its directory was read.
Whole(r, e) == e # Root => r.accounted[e] = r.counted[Parent[e]]

Exact(r, t) ==
    r.counted[t] = 1 /\ \A e \in Entries : Top[e] = t => Whole(r, e)

Sound(r) ==
    /\ r.counted[Root] = 1
    /\ \A t \in r.finished : Exact(r, t)
    /\ r.complete => \A e \in Entries : Whole(r, e)

Init == asked = FALSE /\ result = {}

Ask ==
    /\ ~asked /\ asked' = TRUE
    /\ UNCHANGED result

\* A result is cut short only if the caller asked for it.
Return ==
    /\ result = {} /\ result' # {}
    /\ \A r, s \in result' : r = s
    /\ \A r \in result' : r \in Results /\ Sound(r) /\ (r.partial => asked)
    /\ UNCHANGED asked

Next == Ask \/ Return

Spec == Init /\ [][Next]_vars
=============================================================================

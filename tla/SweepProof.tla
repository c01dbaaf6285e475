---------------------------- MODULE SweepProof ----------------------------
(***************************************************************************)
(* The safety properties of module Sweep, for any processes, descriptors   *)
(* and inodes, and whatever exits, is unlinked, fails or is given up.      *)
(*                                                                         *)
(* The parts of the invariant are proved one after the other, each from    *)
(* those before: types and places, how many processes were counted, that   *)
(* an inode is listed once, that what is listed was proven, and, for the   *)
(* promise of `complete`, where each descriptor that leads to a deleted    *)
(* file still is on its way into the list.                                 *)
(***************************************************************************)
EXTENDS Sweep, FiniteSetTheorems, TLAPS

Types ==
    /\ alive \subseteq Procs /\ unlinked \subseteq Inodes
    /\ pc \in {"unborn", "list", "visit", "look", "stat", "comm", "ended", "died"}
    /\ todo \subseteq Procs /\ fds \subseteq Fds /\ at \subseteq Fds
    /\ branch \in {"files", "silly"}
    /\ found \in Counts /\ silly \in Counts
    /\ holders \in [Inodes -> SUBSET Procs]
    /\ scanned \in Nat /\ unreadable \in Nat /\ done \in BOOLEAN
    /\ main \in {"begin", "wait", "scanned", "unreadable", "files", "silly", "returned"}
    /\ res \in [available : BOOLEAN, namespaced : BOOLEAN, timedOut : BOOLEAN,
                scanned : Nat, unreadable : Nat, files : Counts, silly : Counts]

\* What the thread has in hand at each of its places, and when it has begun.
Places ==
    /\ at = {} \/ \E x \in Fds : at = {x}
    /\ pc \notin {"stat", "comm"} => at = {}
    /\ pc \in {"unborn", "list", "visit", "ended", "died"} => fds = {}
    /\ pc \in {"unborn", "list"} => todo = {} /\ scanned = 0 /\ unreadable = 0
    /\ pc = "ended" => todo = {}
    /\ done <=> pc = "ended"
    /\ main = "begin" => pc = "unborn"
    /\ ~res.available => main = "returned" /\ pc = "unborn"
    /\ pc = "unborn" => main = "begin" \/ ~res.available

\* Each process is counted once, and only after it has left `todo`.
Tallied == scanned + unreadable + Cardinality(todo) <= Cardinality(Procs)

Once ==
    \A i \in Inodes : /\ found[i] <= 1 /\ silly[i] <= 1
                       /\ res.files[i] <= 1 /\ res.silly[i] <= 1

\* What is listed, and what is looked at for either list.
Listed ==
    /\ DeletedBefore \subseteq unlinked
    /\ \A i \in Inodes :
          /\ found[i] > 0 \/ res.files[i] > 0 => i \in unlinked \ (Objects \cup Outside)
          /\ silly[i] > 0 \/ res.silly[i] > 0 => i \in Silly \ Outside
    /\ \A x \in at :
          pc = "stat" => /\ Inode[x] \notin Outside
                         /\ branch = "silly" => Inode[x] \in Silly

\* The inodes that a complete scan owes to its caller if they are held.
Due == DeletedBefore \ (Objects \cup Outside \cup Unstatable)

\* A descriptor of such an inode is before the thread, in its hands, or done,
\* unless its process has exited or the scan is not complete.
OnTheWay ==
    /\ \A x \in at : Inode[x] \in Due => branch = "files"
    /\ \A x \in at : pc = "comm" /\ branch = "files" => found[Inode[x]] > 0
    /\ pc \notin {"unborn", "list", "died"} /\ ~res.namespaced /\ unreadable = 0 =>
          \A x \in Fds : Owner[x] \in alive /\ Inode[x] \in Due =>
              Owner[x] \in todo \/ x \in fds \/ x \in at \/ found[Inode[x]] > 0

\* A caller that was not timed out copies what the thread has left for good.
Copied ==
    res.available /\ ~res.timedOut =>
        /\ main \in {"scanned", "unreadable", "files", "silly", "returned"} => done
        /\ main \in {"files", "silly", "returned"} => res.unreadable = unreadable
        /\ main \in {"silly", "returned"} => res.files = found

Inductive == Types /\ Places /\ Tallied /\ Once /\ Listed /\ OnTheWay /\ Copied

-----------------------------------------------------------------------------
\* The program's initial state satisfies every part.
LEMMA InitInductive == Init => Inductive
<1> SUFFICES ASSUME Init PROVE Inductive
  OBVIOUS
<1> USE WorldAssumption DEF Init, NoRecords
<1>1. Types
  BY DEF Types, Counts
<1>2. Places /\ Once /\ Listed /\ OnTheWay /\ Copied
  BY DEF Places, Once, Listed, OnTheWay, Copied
<1>3. Tallied
  BY FS_EmptySet, FS_CardinalityType DEF Tallied
<1> QED
  BY <1>1, <1>2, <1>3 DEF Inductive

\* Every variable keeps its type.
LEMMA TypesKept ==
    ASSUME Types, [Next]_vars
    PROVE  Types'
<1> USE WorldAssumption DEF worldVars, placeVars, workVars, Types, Counts
<1>1. CASE \E p \in Procs : Exit(p)
  BY <1>1 DEF Exit
<1>2. CASE \E i \in Inodes : Unlink(i)
  BY <1>2 DEF Unlink
<1>3. CASE ListProc
  BY <1>3 DEF ListProc
<1>4. CASE ListRaises
  BY <1>4 DEF ListRaises
<1>5. CASE \E p \in Procs : VisitGone(p)
  BY <1>5 DEF VisitGone
<1>6. CASE \E p \in Procs : VisitDenied(p)
  BY <1>6 DEF VisitDenied, ScannedIfDenied
<1>7. CASE \E p \in Procs : Visit(p)
  BY <1>7 DEF Visit
<1>8. CASE \E x \in Fds : PassOver(x)
  BY <1>8 DEF PassOver, LooksDeleted, LooksSilly
<1>9. CASE \E x \in Fds : Look(x)
  BY <1>9 DEF Look, LooksDeleted, LooksSilly
<1>10. CASE StatRejects
  BY <1>10 DEF StatRejects, Proven
<1>11. CASE StatProves
  BY <1>11 DEF StatProves, Proven, Known
<1>12. CASE AddHolder
  BY <1>12 DEF AddHolder
<1>13. CASE NextProcess
  BY <1>13 DEF NextProcess
<1>14. CASE Finish
  BY <1>14 DEF Finish, Ends
<1>15. CASE NoProc
  BY <1>15 DEF NoProc
<1>16. CASE Start
  BY <1>16 DEF Start
<1>17. CASE Awake
  BY <1>17 DEF Awake, TimeoutMayPass
<1>18. CASE CopyScanned
  BY <1>18 DEF CopyScanned
<1>19. CASE CopyUnreadable
  BY <1>19 DEF CopyUnreadable
<1>20. CASE CopyFiles
  BY <1>20 DEF CopyFiles
<1>21. CASE CopySilly
  BY <1>21 DEF CopySilly
<1>22. CASE Over \/ UNCHANGED vars
  BY <1>22 DEF Over, vars
<1> QED
  BY <1>1, <1>2, <1>3, <1>4, <1>5, <1>6, <1>7, <1>8, <1>9, <1>10, <1>11, <1>12,
     <1>13, <1>14, <1>15, <1>16, <1>17, <1>18, <1>19, <1>20, <1>21, <1>22 DEF
     Next, World, Sweeper, Caller

\* The thread's hands are empty where they should be, and it begins once.
LEMMA PlacesKept ==
    ASSUME Types, Places, [Next]_vars
    PROVE  Places'
<1> USE DEF worldVars, placeVars, workVars, Types, Places
<1>1. CASE \E p \in Procs : Exit(p)
  BY <1>1 DEF Exit
<1>2. CASE \E i \in Inodes : Unlink(i)
  BY <1>2 DEF Unlink
<1>3. CASE ListProc
  BY <1>3 DEF ListProc
<1>4. CASE ListRaises
  BY <1>4 DEF ListRaises
<1>5. CASE \E p \in Procs : VisitGone(p)
  BY <1>5 DEF VisitGone
<1>6. CASE \E p \in Procs : VisitDenied(p)
  BY <1>6 DEF VisitDenied, ScannedIfDenied
<1>7. CASE \E p \in Procs : Visit(p)
  BY <1>7 DEF Visit
<1>8. CASE \E x \in Fds : PassOver(x)
  BY <1>8 DEF PassOver, LooksDeleted, LooksSilly
<1>9. CASE \E x \in Fds : Look(x)
  BY <1>9 DEF Look, LooksDeleted, LooksSilly
<1>10. CASE StatRejects
  BY <1>10 DEF StatRejects, Proven
<1>11. CASE StatProves
  BY <1>11 DEF StatProves, Proven, Known
<1>12. CASE AddHolder
  BY <1>12 DEF AddHolder
<1>13. CASE NextProcess
  BY <1>13 DEF NextProcess
<1>14. CASE Finish
  BY <1>14 DEF Finish, Ends
<1>15. CASE NoProc
  BY <1>15 DEF NoProc
<1>16. CASE Start
  BY <1>16 DEF Start
<1>17. CASE Awake
  BY <1>17 DEF Awake, TimeoutMayPass
<1>18. CASE CopyScanned
  BY <1>18 DEF CopyScanned
<1>19. CASE CopyUnreadable
  BY <1>19 DEF CopyUnreadable
<1>20. CASE CopyFiles
  BY <1>20 DEF CopyFiles
<1>21. CASE CopySilly
  BY <1>21 DEF CopySilly
<1>22. CASE Over \/ UNCHANGED vars
  BY <1>22 DEF Over, vars
<1> QED
  BY <1>1, <1>2, <1>3, <1>4, <1>5, <1>6, <1>7, <1>8, <1>9, <1>10, <1>11, <1>12,
     <1>13, <1>14, <1>15, <1>16, <1>17, <1>18, <1>19, <1>20, <1>21, <1>22 DEF
     Next, World, Sweeper, Caller

\* No process is counted twice.
LEMMA TalliedKept ==
    ASSUME Types, Places, Tallied, [Next]_vars
    PROVE  Tallied'
<1> USE DEF worldVars, placeVars, workVars, Types, Tallied
<1>0. /\ IsFiniteSet(todo) /\ Cardinality(todo) \in Nat /\ Cardinality(Procs) \in Nat
      /\ scanned \in Nat /\ unreadable \in Nat
  BY WorldAssumption, FS_Subset, FS_CardinalityType DEF Types
<1>1. CASE \E p \in Procs : Exit(p)
  BY <1>1, <1>0 DEF Exit
<1>2. CASE \E i \in Inodes : Unlink(i)
  BY <1>2, <1>0 DEF Unlink
<1>3. CASE ListProc
  <2>1. todo' \subseteq Procs /\ scanned' = 0 /\ unreadable' = 0
    BY <1>3 DEF ListProc, workVars, Types, Places
  <2> QED
    BY <2>1, WorldAssumption, FS_Subset, FS_CardinalityType DEF Tallied
<1>4. CASE ListRaises
  BY <1>4, <1>0 DEF ListRaises
<1>5. CASE \E p \in Procs : VisitGone(p)
  <2>1. PICK p \in Procs : VisitGone(p)
    BY <1>5
  <2>2. Cardinality(todo \ {p}) = Cardinality(todo) - 1 /\ todo' = todo \ {p}
    BY <2>1, <1>0, FS_RemoveElement DEF VisitGone
  <2> QED
    BY <2>1, <2>2, <1>0 DEF VisitGone
<1>6. CASE \E p \in Procs : VisitDenied(p)
  <2>1. PICK p \in Procs : VisitDenied(p)
    BY <1>6
  <2>2. Cardinality(todo \ {p}) = Cardinality(todo) - 1 /\ todo' = todo \ {p}
    BY <2>1, <1>0, FS_RemoveElement DEF VisitDenied
  <2> QED
    BY <2>1, <2>2, <1>0 DEF VisitDenied, ScannedIfDenied
<1>7. CASE \E p \in Procs : Visit(p)
  <2>1. PICK p \in Procs : Visit(p)
    BY <1>7
  <2>2. Cardinality(todo \ {p}) = Cardinality(todo) - 1 /\ todo' = todo \ {p}
    BY <2>1, <1>0, FS_RemoveElement DEF Visit
  <2> QED
    BY <2>1, <2>2, <1>0 DEF Visit
<1>8. CASE \E x \in Fds : PassOver(x)
  BY <1>8, <1>0 DEF PassOver, LooksDeleted, LooksSilly
<1>9. CASE \E x \in Fds : Look(x)
  BY <1>9, <1>0 DEF Look, LooksDeleted, LooksSilly
<1>10. CASE StatRejects
  BY <1>10, <1>0 DEF StatRejects, Proven
<1>11. CASE StatProves
  BY <1>11, <1>0 DEF StatProves, Proven, Known
<1>12. CASE AddHolder
  BY <1>12, <1>0 DEF AddHolder
<1>13. CASE NextProcess
  BY <1>13, <1>0 DEF NextProcess
<1>14. CASE Finish
  BY <1>14, <1>0 DEF Finish, Ends
<1>15. CASE NoProc
  BY <1>15, <1>0 DEF NoProc
<1>16. CASE Start
  BY <1>16, <1>0 DEF Start
<1>17. CASE Awake
  BY <1>17, <1>0 DEF Awake, TimeoutMayPass
<1>18. CASE CopyScanned
  BY <1>18, <1>0 DEF CopyScanned
<1>19. CASE CopyUnreadable
  BY <1>19, <1>0 DEF CopyUnreadable
<1>20. CASE CopyFiles
  BY <1>20, <1>0 DEF CopyFiles
<1>21. CASE CopySilly
  BY <1>21, <1>0 DEF CopySilly
<1>22. CASE Over \/ UNCHANGED vars
  BY <1>22, <1>0 DEF Over, vars
<1> QED
  BY <1>1, <1>2, <1>3, <1>4, <1>5, <1>6, <1>7, <1>8, <1>9, <1>10, <1>11, <1>12,
     <1>13, <1>14, <1>15, <1>16, <1>17, <1>18, <1>19, <1>20, <1>21, <1>22 DEF
     Next, World, Sweeper, Caller

\* An inode that is listed is known, and not listed again.
LEMMA OnceKept ==
    ASSUME Types, Places, Once, [Next]_vars
    PROVE  Once'
<1> USE WorldAssumption DEF worldVars, placeVars, workVars, Types, Counts,
   Places, Once
<1>1. CASE \E p \in Procs : Exit(p)
  BY <1>1 DEF Exit
<1>2. CASE \E i \in Inodes : Unlink(i)
  BY <1>2 DEF Unlink
<1>3. CASE ListProc
  BY <1>3 DEF ListProc
<1>4. CASE ListRaises
  BY <1>4 DEF ListRaises
<1>5. CASE \E p \in Procs : VisitGone(p)
  BY <1>5 DEF VisitGone
<1>6. CASE \E p \in Procs : VisitDenied(p)
  BY <1>6 DEF VisitDenied, ScannedIfDenied
<1>7. CASE \E p \in Procs : Visit(p)
  BY <1>7 DEF Visit
<1>8. CASE \E x \in Fds : PassOver(x)
  BY <1>8 DEF PassOver, LooksDeleted, LooksSilly
<1>9. CASE \E x \in Fds : Look(x)
  BY <1>9 DEF Look, LooksDeleted, LooksSilly
<1>10. CASE StatRejects
  BY <1>10 DEF StatRejects, Proven
<1>11. CASE StatProves
  BY <1>11 DEF StatProves, Proven, Known
<1>12. CASE AddHolder
  BY <1>12 DEF AddHolder
<1>13. CASE NextProcess
  BY <1>13 DEF NextProcess
<1>14. CASE Finish
  BY <1>14 DEF Finish, Ends
<1>15. CASE NoProc
  BY <1>15 DEF NoProc
<1>16. CASE Start
  BY <1>16 DEF Start
<1>17. CASE Awake
  BY <1>17 DEF Awake, TimeoutMayPass
<1>18. CASE CopyScanned
  BY <1>18 DEF CopyScanned
<1>19. CASE CopyUnreadable
  BY <1>19 DEF CopyUnreadable
<1>20. CASE CopyFiles
  BY <1>20 DEF CopyFiles
<1>21. CASE CopySilly
  BY <1>21 DEF CopySilly
<1>22. CASE Over \/ UNCHANGED vars
  BY <1>22 DEF Over, vars
<1> QED
  BY <1>1, <1>2, <1>3, <1>4, <1>5, <1>6, <1>7, <1>8, <1>9, <1>10, <1>11, <1>12,
     <1>13, <1>14, <1>15, <1>16, <1>17, <1>18, <1>19, <1>20, <1>21, <1>22 DEF
     Next, World, Sweeper, Caller

\* What is listed has been proven.
LEMMA ListedKept ==
    ASSUME Types, Places, Listed, [Next]_vars
    PROVE  Listed'
<1> USE WorldAssumption DEF worldVars, placeVars, workVars, Types, Counts,
   Places, Listed
<1>1. CASE \E p \in Procs : Exit(p)
  BY <1>1 DEF Exit
<1>2. CASE \E i \in Inodes : Unlink(i)
  BY <1>2 DEF Unlink
<1>3. CASE ListProc
  BY <1>3 DEF ListProc
<1>4. CASE ListRaises
  BY <1>4 DEF ListRaises
<1>5. CASE \E p \in Procs : VisitGone(p)
  BY <1>5 DEF VisitGone
<1>6. CASE \E p \in Procs : VisitDenied(p)
  BY <1>6 DEF VisitDenied, ScannedIfDenied
<1>7. CASE \E p \in Procs : Visit(p)
  BY <1>7 DEF Visit
<1>8. CASE \E x \in Fds : PassOver(x)
  BY <1>8 DEF PassOver, LooksDeleted, LooksSilly
<1>9. CASE \E x \in Fds : Look(x)
  BY <1>9 DEF Look, LooksDeleted, LooksSilly
<1>10. CASE StatRejects
  BY <1>10 DEF StatRejects, Proven
<1>11. CASE StatProves
  BY <1>11 DEF StatProves, Proven, Known
<1>12. CASE AddHolder
  BY <1>12 DEF AddHolder
<1>13. CASE NextProcess
  BY <1>13 DEF NextProcess
<1>14. CASE Finish
  BY <1>14 DEF Finish, Ends
<1>15. CASE NoProc
  BY <1>15 DEF NoProc
<1>16. CASE Start
  BY <1>16 DEF Start
<1>17. CASE Awake
  BY <1>17 DEF Awake, TimeoutMayPass
<1>18. CASE CopyScanned
  BY <1>18 DEF CopyScanned
<1>19. CASE CopyUnreadable
  BY <1>19 DEF CopyUnreadable
<1>20. CASE CopyFiles
  BY <1>20 DEF CopyFiles
<1>21. CASE CopySilly
  BY <1>21 DEF CopySilly
<1>22. CASE Over \/ UNCHANGED vars
  BY <1>22 DEF Over, vars
<1> QED
  BY <1>1, <1>2, <1>3, <1>4, <1>5, <1>6, <1>7, <1>8, <1>9, <1>10, <1>11, <1>12,
     <1>13, <1>14, <1>15, <1>16, <1>17, <1>18, <1>19, <1>20, <1>21, <1>22 DEF
     Next, World, Sweeper, Caller

\* No descriptor that is due is lost.
LEMMA OnTheWayKept ==
    ASSUME Types, Places, Listed, OnTheWay, [Next]_vars
    PROVE  OnTheWay'
<1> USE WorldAssumption DEF worldVars, placeVars, workVars, Types, Counts,
   Places, Listed, OnTheWay, Due
<1>1. CASE \E p \in Procs : Exit(p)
  BY <1>1 DEF Exit
<1>2. CASE \E i \in Inodes : Unlink(i)
  BY <1>2 DEF Unlink
<1>3. CASE ListProc
  BY <1>3 DEF ListProc
<1>4. CASE ListRaises
  BY <1>4 DEF ListRaises
<1>5. CASE \E p \in Procs : VisitGone(p)
  BY <1>5 DEF VisitGone
<1>6. CASE \E p \in Procs : VisitDenied(p)
  BY <1>6 DEF VisitDenied, ScannedIfDenied
<1>7. CASE \E p \in Procs : Visit(p)
  BY <1>7 DEF Visit
<1>8. CASE \E x \in Fds : PassOver(x)
  BY <1>8 DEF PassOver, LooksDeleted, LooksSilly
<1>9. CASE \E x \in Fds : Look(x)
  BY <1>9 DEF Look, LooksDeleted, LooksSilly
<1>10. CASE StatRejects
  BY <1>10 DEF StatRejects, Proven
<1>11. CASE StatProves
  BY <1>11 DEF StatProves, Proven, Known
<1>12. CASE AddHolder
  BY <1>12 DEF AddHolder
<1>13. CASE NextProcess
  BY <1>13 DEF NextProcess
<1>14. CASE Finish
  BY <1>14 DEF Finish, Ends
<1>15. CASE NoProc
  BY <1>15 DEF NoProc
<1>16. CASE Start
  BY <1>16 DEF Start
<1>17. CASE Awake
  BY <1>17 DEF Awake, TimeoutMayPass
<1>18. CASE CopyScanned
  BY <1>18 DEF CopyScanned
<1>19. CASE CopyUnreadable
  BY <1>19 DEF CopyUnreadable
<1>20. CASE CopyFiles
  BY <1>20 DEF CopyFiles
<1>21. CASE CopySilly
  BY <1>21 DEF CopySilly
<1>22. CASE Over \/ UNCHANGED vars
  BY <1>22 DEF Over, vars
<1> QED
  BY <1>1, <1>2, <1>3, <1>4, <1>5, <1>6, <1>7, <1>8, <1>9, <1>10, <1>11, <1>12,
     <1>13, <1>14, <1>15, <1>16, <1>17, <1>18, <1>19, <1>20, <1>21, <1>22 DEF
     Next, World, Sweeper, Caller

\* Nothing that was copied in time changes behind the caller.
LEMMA CopiedKept ==
    ASSUME Types, Places, Copied, [Next]_vars
    PROVE  Copied'
<1> USE DEF worldVars, placeVars, workVars, Types, Places, Copied
<1>1. CASE \E p \in Procs : Exit(p)
  BY <1>1 DEF Exit
<1>2. CASE \E i \in Inodes : Unlink(i)
  BY <1>2 DEF Unlink
<1>3. CASE ListProc
  BY <1>3 DEF ListProc
<1>4. CASE ListRaises
  BY <1>4 DEF ListRaises
<1>5. CASE \E p \in Procs : VisitGone(p)
  BY <1>5 DEF VisitGone
<1>6. CASE \E p \in Procs : VisitDenied(p)
  BY <1>6 DEF VisitDenied, ScannedIfDenied
<1>7. CASE \E p \in Procs : Visit(p)
  BY <1>7 DEF Visit
<1>8. CASE \E x \in Fds : PassOver(x)
  BY <1>8 DEF PassOver, LooksDeleted, LooksSilly
<1>9. CASE \E x \in Fds : Look(x)
  BY <1>9 DEF Look, LooksDeleted, LooksSilly
<1>10. CASE StatRejects
  BY <1>10 DEF StatRejects, Proven
<1>11. CASE StatProves
  BY <1>11 DEF StatProves, Proven, Known
<1>12. CASE AddHolder
  BY <1>12 DEF AddHolder
<1>13. CASE NextProcess
  BY <1>13 DEF NextProcess
<1>14. CASE Finish
  BY <1>14 DEF Finish, Ends
<1>15. CASE NoProc
  BY <1>15 DEF NoProc
<1>16. CASE Start
  BY <1>16 DEF Start
<1>17. CASE Awake
  BY <1>17 DEF Awake, TimeoutMayPass
<1>18. CASE CopyScanned
  BY <1>18 DEF CopyScanned
<1>19. CASE CopyUnreadable
  BY <1>19 DEF CopyUnreadable
<1>20. CASE CopyFiles
  BY <1>20 DEF CopyFiles
<1>21. CASE CopySilly
  BY <1>21 DEF CopySilly
<1>22. CASE Over \/ UNCHANGED vars
  BY <1>22 DEF Over, vars
<1> QED
  BY <1>1, <1>2, <1>3, <1>4, <1>5, <1>6, <1>7, <1>8, <1>9, <1>10, <1>11, <1>12,
     <1>13, <1>14, <1>15, <1>16, <1>17, <1>18, <1>19, <1>20, <1>21, <1>22 DEF
     Next, World, Sweeper, Caller

\* The invariant is inductive.
LEMMA Invariant == Spec => []Inductive
<1>1. Inductive /\ [Next]_vars => Inductive'
  BY TypesKept, PlacesKept, TalliedKept, OnceKept, ListedKept, OnTheWayKept, CopiedKept
     DEF Inductive
<1> QED
  BY InitInductive, <1>1, PTL DEF Spec

-----------------------------------------------------------------------------
\* Every variable keeps its type, and no more processes are counted than there
\* were (deleted.py, `_sweep`).
THEOREM SweepTypeCorrect == Spec => []TypeOK
<1>1. Inductive => TypeOK
  <2> SUFFICES ASSUME Inductive PROVE TypeOK
    OBVIOUS
  <2>1. Cardinality(at) <= 1
    <3>1. at = {} \/ \E x \in Fds : at = {x}
      BY DEF Inductive, Places
    <3>2. CASE at = {}
      <4>1. Cardinality(at) = 0
        BY <3>2, FS_EmptySet
      <4> QED
        BY <4>1
    <3>3. ASSUME NEW x \in Fds, at = {x} PROVE Cardinality(at) <= 1
      <4>1. Cardinality({x}) = 1
        BY FS_Singleton
      <4> QED
        BY <4>1, <3>3
    <3> QED
      BY <3>1, <3>2, <3>3
  <2>2. Cardinality(todo) \in Nat /\ Cardinality(Procs) \in Nat
    BY WorldAssumption, FS_Subset, FS_CardinalityType DEF Inductive, Types
  <2>3. scanned + unreadable <= Cardinality(Procs)
    BY <2>2 DEF Inductive, Types, Tallied
  <2> QED
    BY <2>1, <2>3 DEF Inductive, Types, TypeOK
<1> QED
  BY Invariant, <1>1, PTL

\* An inode is in each list once, whoever holds it (deleted.py, `by_inode`).
THEOREM EachInodeOnceCorrect == Spec => []EachInodeOnce
<1>1. Inductive => EachInodeOnce
  BY DEF Inductive, Once, EachInodeOnce
<1> QED
  BY Invariant, <1>1, PTL

\* Nothing is listed that stat has not borne out (deleted.py, `_sweep`).
THEOREM FindingsAreProvenCorrect == Spec => []FindingsAreProven
<1>1. Inductive => FindingsAreProven
  BY DEF Inductive, Listed, FindingsAreProven
<1> QED
  BY Invariant, <1>1, PTL

\* A scan that calls itself complete has every inode it owes its caller
\* (deleted.py, `DeletedScan.complete`).
THEOREM CompleteFindsAllCorrect == Spec => []CompleteFindsAll
<1>1. Inductive => CompleteFindsAll
  <2> SUFFICES ASSUME Inductive, main = "returned", Complete,
                      NEW p \in alive, NEW x \in Fds, Owner[x] = p, Inode[x] \in Due
               PROVE  res.files[Inode[x]] = 1
    BY DEF CompleteFindsAll, Held, Due
  <2>1. done /\ unreadable = 0 /\ res.files = found /\ ~res.namespaced
    BY DEF Inductive, Copied, Complete
  <2>2. pc = "ended" /\ todo = {} /\ fds = {} /\ at = {}
    BY <2>1 DEF Inductive, Places
  <2>3. found[Inode[x]] > 0
    BY <2>1, <2>2 DEF Inductive, OnTheWay
  <2>4. Inode[x] \in Inodes /\ found[Inode[x]] \in Nat /\ res.files[Inode[x]] <= 1
    BY WorldAssumption DEF Inductive, Types, Counts, Once
  <2> QED
    BY <2>1, <2>3, <2>4
<1> QED
  BY Invariant, <1>1, PTL
=============================================================================

------------------------------- MODULE Sweep -------------------------------
(***************************************************************************)
(* The sweep of /proc for files deleted but still open (deleted.py,        *)
(* `scan` and `_sweep`).                                                   *)
(*                                                                         *)
(* One thread visits the processes and looks at what each holds open; the  *)
(* caller waits for it up to a timeout, then copies out what there is and  *)
(* returns.  The thread is not stopped: it writes on.  Around them         *)
(* processes exit and files are unlinked.                                  *)
(*                                                                         *)
(* A path is abstracted to what the sweep tells from it: whether it is     *)
(* outside the prefix, has a silly-rename name, or only looks deleted.     *)
(* A process keeps its descriptors until it exits, and they stay readable  *)
(* once they have been listed.                                             *)
(*                                                                         *)
(* A definition named Mut... is a plausible mistake in the definition that *)
(* follows it: putting it there breaks the property PROJECT.json names.    *)
(***************************************************************************)
EXTENDS Naturals, FiniteSets

CONSTANTS
    Procs,             \* the processes there are when the sweep starts
    Fds,               \* what they hold open
    Inodes,
    Owner,             \* the process of a descriptor
    Inode,             \* the (st_dev, st_ino) it leads to
    Foreign,           \* processes whose fd directory may be denied
    Hidden,            \* processes that a PID namespace does not show
    Outside,           \* inodes whose path is not under the prefix
    Silly,             \* inodes whose one link is an NFS silly-rename name; what
                       \* has such a name and a second link stays out
    Lookalikes,        \* linked inodes whose own name ends in " (deleted)"
    Objects,           \* memfd and the like: unlinked, and never files
    DeletedBefore,     \* inodes unlinked before the sweep
    Unstatable,        \* inodes whose stat may fail
    ListMayRaise       \* whether listing /proc itself may fail

ASSUME WorldAssumption ==
    /\ IsFiniteSet(Procs)
    /\ Owner \in [Fds -> Procs] /\ Inode \in [Fds -> Inodes]
    /\ {Outside, Silly, Lookalikes, Objects, DeletedBefore} \subseteq SUBSET Inodes
    /\ Objects \subseteq DeletedBefore
    /\ Silly \cap DeletedBefore = {}
    /\ ListMayRaise \in BOOLEAN

VARIABLES
    alive, unlinked,   \* the world: live processes, inodes without a name
    pc,                \* where the sweeping thread is
    todo,              \* the processes it has still to visit
    fds, at, branch,   \* what it has still to look at, looks at, and for what
    found, silly,      \* how many records of an inode each list has
    holders,           \* DeletedFile.holders: shared with whoever has a record
    scanned, unreadable, done,
    main,              \* where the caller of scan() is
    res                \* what it returns

worldVars == <<alive, unlinked>>
placeVars == <<pc, todo, fds, at, branch>>
workVars == <<found, silly, holders, scanned, unreadable, done>>
vars == <<worldVars, placeVars, workVars, main, res>>

NoRecords == [i \in Inodes |-> 0]

Init ==
    /\ alive = Procs
    /\ unlinked = DeletedBefore
    /\ pc = "unborn"
    /\ todo = {} /\ fds = {} /\ at = {} /\ branch = "files"
    /\ found = NoRecords /\ silly = NoRecords
    /\ holders = [i \in Inodes |-> {}]
    /\ scanned = 0 /\ unreadable = 0
    /\ done = FALSE
    /\ main = "begin"
    /\ res = [available |-> TRUE, namespaced |-> FALSE, timedOut |-> FALSE,
              scanned |-> 0, unreadable |-> 0,
              files |-> NoRecords, silly |-> NoRecords]

-----------------------------------------------------------------------------
(* The world.                                                              *)

Exit(p) ==
    /\ p \in alive
    /\ alive' = alive \ {p}
    /\ UNCHANGED <<unlinked, placeVars, workVars, main, res>>

Unlink(i) ==
    /\ i \notin unlinked
    /\ unlinked' = unlinked \cup {i}
    /\ UNCHANGED <<alive, placeVars, workVars, main, res>>

World == (\E p \in Procs : Exit(p)) \/ (\E i \in Inodes : Unlink(i))

-----------------------------------------------------------------------------
(* The sweeping thread.                                                    *)

ListProc ==
    /\ pc = "list"
    /\ todo' = alive \ (IF res.namespaced THEN Hidden ELSE {})
    /\ pc' = "visit"
    /\ UNCHANGED <<worldVars, fds, at, branch, workVars, main, res>>

\* listdir of /proc is in no try block: the thread dies, `done` stays unset.
ListRaises ==
    /\ ListMayRaise
    /\ pc = "list"
    /\ pc' = "died"
    /\ UNCHANGED <<worldVars, todo, fds, at, branch, workVars, main, res>>

\* A process that has exited is passed over without a count.
VisitGone(p) ==
    /\ pc = "visit"
    /\ p \in todo \ alive
    /\ todo' = todo \ {p}
    /\ UNCHANGED <<worldVars, pc, fds, at, branch, workVars, main, res>>

\* The process is counted before its descriptors could be listed.
MutScannedIfDenied == scanned + 1

\* One that cannot be read is not among those scanned.
ScannedIfDenied == scanned

VisitDenied(p) ==
    /\ pc = "visit"
    /\ p \in todo \cap alive \cap Foreign
    /\ todo' = todo \ {p}
    /\ unreadable' = unreadable + 1
    /\ scanned' = ScannedIfDenied
    /\ UNCHANGED <<worldVars, pc, fds, at, branch, found, silly, holders, done, main,
                   res>>

Visit(p) ==
    /\ pc = "visit"
    /\ p \in todo \cap alive
    /\ todo' = todo \ {p}
    /\ scanned' = scanned + 1
    /\ fds' = {x \in Fds : Owner[x] = p}
    /\ pc' = "look"
    /\ UNCHANGED <<worldVars, at, branch, found, silly, holders, unreadable, done,
                   main, res>>

\* What the target's text gives reason to stat, and for which list.
LooksDeleted(i) == i \in (unlinked \cup Lookalikes) \ Outside
LooksSilly(i) == i \in (Silly \ unlinked) \ Outside

\* readlink, and the tests on its text; a dead process has no link to read.
PassOver(x) ==
    /\ pc = "look"
    /\ x \in fds
    /\ \/ Owner[x] \notin alive
       \/ ~LooksDeleted(Inode[x]) /\ ~LooksSilly(Inode[x])
    /\ fds' = fds \ {x}
    /\ UNCHANGED <<worldVars, pc, todo, at, branch, workVars, main, res>>

Look(x) ==
    /\ pc = "look"
    /\ x \in fds
    /\ Owner[x] \in alive
    /\ LooksDeleted(Inode[x]) \/ LooksSilly(Inode[x])
    /\ branch' = IF LooksDeleted(Inode[x]) THEN "files" ELSE "silly"
    /\ fds' = fds \ {x}
    /\ at' = {x}
    /\ pc' = "stat"
    /\ UNCHANGED <<worldVars, todo, workVars, main, res>>

\* The text is taken at its word.
MutProven(i) == TRUE

\* What stat must say for a record: no link left, and not a kernel object; or,
\* for a silly name, that it is the only link.
Proven(i) ==
    IF branch = "files" THEN i \in unlinked \ Objects ELSE i \notin unlinked

\* Every descriptor makes a record of its own.
MutKnown(i) == FALSE

\* by_inode has the inode already.
Known(i) == IF branch = "files" THEN found[i] > 0 ELSE silly[i] > 0

\* stat fails, or does not bear the text out.
StatRejects ==
    /\ pc = "stat"
    /\ \E x \in at :
          \/ Owner[x] \notin alive
          \/ Inode[x] \in Unstatable
          \/ ~Proven(Inode[x])
    /\ at' = {}
    /\ pc' = "look"
    /\ UNCHANGED <<worldVars, todo, fds, branch, workVars, main, res>>

\* The record is made and listed ...
StatProves ==
    /\ pc = "stat"
    /\ \E x \in at :
          /\ Owner[x] \in alive
          /\ Proven(Inode[x])
          /\ LET new == IF Known(Inode[x]) THEN 0 ELSE 1 IN
             IF branch = "files"
               THEN /\ found' = [found EXCEPT ![Inode[x]] = @ + new]
                    /\ UNCHANGED silly
               ELSE /\ silly' = [silly EXCEPT ![Inode[x]] = @ + new]
                    /\ UNCHANGED found
    /\ pc' = "comm"
    /\ UNCHANGED <<worldVars, todo, fds, at, branch, holders, scanned, unreadable,
                   done, main, res>>

\* ... and the holder added once the process's name has been read.
AddHolder ==
    /\ pc = "comm"
    /\ \E x \in at : holders' = [holders EXCEPT ![Inode[x]] = @ \cup {Owner[x]}]
    /\ at' = {}
    /\ pc' = "look"
    /\ UNCHANGED <<worldVars, todo, fds, branch, found, silly, scanned, unreadable,
                   done, main, res>>

NextProcess ==
    /\ pc = "look"
    /\ fds = {}
    /\ pc' = "visit"
    /\ UNCHANGED <<worldVars, todo, fds, at, branch, workVars, main, res>>

\* `done` is set however the thread ends.
MutEnds == pc = "died" \/ (pc = "visit" /\ todo = {})
Ends == pc = "visit" /\ todo = {}

Finish ==
    /\ Ends
    /\ pc' = "ended"
    /\ done' = TRUE
    /\ UNCHANGED <<worldVars, todo, fds, at, branch, found, silly, holders, scanned,
                   unreadable, main, res>>

Sweeper ==
    \/ ListProc \/ ListRaises
    \/ \E p \in Procs : VisitGone(p) \/ VisitDenied(p) \/ Visit(p)
    \/ \E x \in Fds : PassOver(x) \/ Look(x)
    \/ StatRejects \/ StatProves \/ AddHolder \/ NextProcess \/ Finish

-----------------------------------------------------------------------------
(* The caller.                                                             *)

NoProc ==
    /\ main = "begin"
    /\ main' = "returned"
    /\ res' = [res EXCEPT !.available = FALSE]
    /\ UNCHANGED <<worldVars, placeVars, workVars>>

Start ==
    /\ main = "begin"
    /\ main' = "wait"
    /\ \E n \in BOOLEAN : res' = [res EXCEPT !.namespaced = n]
    /\ pc' = "list"
    /\ UNCHANGED <<worldVars, todo, fds, at, branch, workVars>>

\* The wait has no bound.
MutTimeoutMayPass == FALSE

\* done.wait(timeout) returns once `done` is set, or at the timeout.
TimeoutMayPass == TRUE

Awake ==
    /\ main = "wait"
    /\ done \/ TimeoutMayPass
    /\ main' = "scanned"
    /\ res' = [res EXCEPT !.timedOut = ~done]
    /\ UNCHANGED <<worldVars, placeVars, workVars>>

CopyScanned ==
    /\ main = "scanned"
    /\ main' = "unreadable"
    /\ res' = [res EXCEPT !.scanned = scanned]
    /\ UNCHANGED <<worldVars, placeVars, workVars>>

CopyUnreadable ==
    /\ main = "unreadable"
    /\ main' = "files"
    /\ res' = [res EXCEPT !.unreadable = unreadable]
    /\ UNCHANGED <<worldVars, placeVars, workVars>>

CopyFiles ==
    /\ main = "files"
    /\ main' = "silly"
    /\ res' = [res EXCEPT !.files = found]
    /\ UNCHANGED <<worldVars, placeVars, workVars>>

CopySilly ==
    /\ main = "silly"
    /\ main' = "returned"
    /\ res' = [res EXCEPT !.silly = silly]
    /\ UNCHANGED <<worldVars, placeVars, workVars>>

Caller ==
    \/ NoProc \/ Start \/ Awake \/ CopyScanned \/ CopyUnreadable \/ CopyFiles
    \/ CopySilly

\* The thread is gone; whether its caller returns is ScanReturns' question.
Over ==
    /\ pc \in {"ended", "died"} \/ main = "returned"
    /\ UNCHANGED vars

Next == World \/ Sweeper \/ Caller \/ Over

Spec == Init /\ [][Next]_vars

\* The wait is bounded and nothing else the caller does blocks; the thread may
\* stay in a system call for ever, so nothing is assumed of it.
FairSpec == Spec /\ WF_vars(Caller)

\* DeletedScan.complete
Complete ==
    res.available /\ res.unreadable = 0 /\ ~res.namespaced /\ ~res.timedOut

-----------------------------------------------------------------------------
(* Properties.                                                             *)

Counts == [Inodes -> Nat]

\* Every variable keeps its type: scan()'s locals, the thread's and the result.
TypeOK ==
    /\ alive \subseteq Procs /\ unlinked \subseteq Inodes
    /\ pc \in {"unborn", "list", "visit", "look", "stat", "comm", "ended", "died"}
    /\ todo \subseteq Procs
    /\ fds \subseteq Fds /\ at \subseteq Fds /\ Cardinality(at) <= 1
    /\ branch \in {"files", "silly"}
    /\ found \in Counts /\ silly \in Counts
    /\ holders \in [Inodes -> SUBSET Procs]
    /\ scanned \in Nat /\ unreadable \in Nat
    /\ scanned + unreadable <= Cardinality(Procs)
    /\ done \in BOOLEAN
    /\ main \in {"begin", "wait", "scanned", "unreadable", "files", "silly", "returned"}
    /\ res \in [available : BOOLEAN, namespaced : BOOLEAN, timedOut : BOOLEAN,
                scanned : Nat, unreadable : Nat, files : Counts, silly : Counts]

\* What p holds open.
Held(p) == {Inode[x] : x \in {y \in Fds : Owner[y] = p}}

\* A scan that calls itself complete has whatever was deleted before it began
\* and is still held open when it returns: the ways to miss it all show in
\* `complete`, but for a stat that failed.
CompleteFindsAll ==
    main = "returned" /\ Complete =>
       \A p \in alive : \A i \in Held(p) \cap DeletedBefore :
          i \in Objects \cup Outside \cup Unstatable \/ res.files[i] = 1

\* An inode is in each list once, whichever descriptors of whichever processes
\* hold it: its blocks are allocated once.
EachInodeOnce == \A i \in Inodes : res.files[i] <= 1 /\ res.silly[i] <= 1

\* No finding is fabricated from a name: what is listed as unlinked is, and is
\* a file; what is listed as silly-renamed has such a name.
FindingsAreProven ==
    \A i \in Inodes :
       /\ res.files[i] > 0 => i \in unlinked \ (Objects \cup Outside)
       /\ res.silly[i] > 0 => i \in Silly \ Outside

\* The sweep is bounded: scan() returns, wherever its thread is blocked.
ScanReturns == <>(main = "returned")
=============================================================================

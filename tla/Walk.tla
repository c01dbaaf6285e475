-------------------------------- MODULE Walk --------------------------------
(***************************************************************************)
(* The threaded directory walk of rapidu (walk.py, `walk`).                *)
(*                                                                         *)
(* Workers share a queue of directories under a condition variable, tally  *)
(* what they read into thread locals, and merge once, at exit.  The main   *)
(* thread joins them, for ever until the walk is stopped and for           *)
(* STOP_GRACE_S after, then shuts the merge door and decides which depth-1 *)
(* subtrees it may publish as finished.                                    *)
(*                                                                         *)
(* The tree does not change during a walk here, but any stat in Unstatable *)
(* and any scan in Unopenable may fail or succeed each time.  A record     *)
(* <<outcome, entry>> stands for everything a worker charges for an entry; *)
(* the queue is a set, since nothing depends on the order it is served in; *)
(* the wake-ups of the condition variable are left out, since every wait   *)
(* on it is polled (cv.wait(0.5)).                                         *)
(*                                                                         *)
(* A definition named Mut... is a plausible mistake in the definition that *)
(* follows it: putting it there breaks the property PROJECT.json names.    *)
(***************************************************************************)
EXTENDS Naturals, FiniteSets

CONSTANTS
    Dirs, Files,       \* the entries of the tree; Dirs includes Root
    Root,
    Parent,            \* the directory an entry is listed in
    Top,               \* the depth-1 ancestor-or-self of an entry
    Inode,             \* the (st_dev, st_ino) of a file
    Linked,            \* the files whose st_nlink exceeds 1
    Foreign,           \* the entries on another filesystem than Root
    Unstatable,        \* the entries whose stat may fail
    Unopenable,        \* the directories whose scan may raise
    Hanging,           \* the directories whose scan may block for ever
    Workers,
    CountOnly,         \* count_only
    OneFileSystem,     \* one_file_system
    RateLimited,       \* max_dirs_per_sec > 0
    SetupMayRaise      \* an exception is possible before a scan's own guards

Entries == Dirs \cup Files
Tops == {e \in Entries \ {Root} : Parent[e] = Root}

ASSUME TreeAssumption ==
    /\ IsFiniteSet(Dirs)
    /\ Root \in Dirs
    /\ Dirs \cap Files = {}
    /\ Parent \in [Entries \ {Root} -> Dirs]
    /\ DOMAIN Top = Entries
    /\ Top[Root] = Root
    /\ \A e \in Entries \ {Root} :
          /\ Top[e] \in Tops
          /\ Top[e] = IF Parent[e] = Root THEN e ELSE Top[Parent[e]]

ASSUME LinkAssumption ==
    /\ DOMAIN Inode = Files
    /\ \A f, g \in Files : f # g /\ Inode[f] = Inode[g] => f \in Linked

ASSUME ModeAssumption ==
    {CountOnly, OneFileSystem, RateLimited, SetupMayRaise} \subseteq BOOLEAN

ASSUME WorkersAssumption == Workers # {}

VARIABLES
    stop,              \* stop_ev
    queue, pending,    \* queue, pending_box
    outstanding,       \* outstanding, an absent key being 0
    finishedTops, abandonedTops,
    inflight,          \* inflight; Root itself stands for _ROOT_SCAN
    seenLinks,         \* keys of seen_links
    pc,                \* where each worker is
    held,              \* the directory a worker has taken, if any
    unread,            \* what its scandir has still to yield
    children, truncated,
    tally,             \* the worker's l_* locals
    res, merged, doorClosed,
    main, deadline,    \* where the main thread is; whether it set a deadline
    partial, stranded, \* res.partial; the workers that missed the door
    published          \* res.finished_tops

cvVars == <<queue, pending, outstanding, finishedTops, abandonedTops, inflight>>
scanVars == <<held, unread, children, truncated>>
doorVars == <<res, merged, doorClosed>>
mainVars == <<main, deadline, partial, stranded, published>>
vars == <<stop, cvVars, seenLinks, pc, scanVars, tally, doorVars, mainVars>>

-----------------------------------------------------------------------------
(* What is charged for an entry, and where.                                *)

\* counted: its blocks and inode; extra: one more name of a counted inode;
\* unstat: its stat failed; crossed: left out by --one-file-system.
Dispositions == {"counted", "extra", "unstat", "crossed"}
Records == (Dispositions \cup {"unreadable"}) \X Entries
Tallies == [Records -> Nat]

NoTally == [r \in Records |-> 0]
Charge(t, outcome, e) == [t EXCEPT ![<<outcome, e>>] = @ + 1]
Plus(s, t) == [r \in Records |-> s[r] + t[r]]

\* account_root: the root's own inode is charged before any worker starts.
RootCharged == Charge(NoTally, "counted", Root)

\* How many times a tally accounts for an entry, whatever the outcome.
Accounts(t, e) == t[<<"counted", e>>] + t[<<"extra", e>>]
                    + t[<<"unstat", e>>] + t[<<"crossed", e>>]

Children(d) == {e \in Entries \ {Root} : Parent[e] = d}

\* -x compares st_dev; a count-only walk stats only directories for it.
Skipped(e) == OneFileSystem /\ e \in Foreign /\ (CountOnly => e \in Dirs)

\* Directories queued or in a worker's hands, and those below one top.
Open == queue \cup UNION {held[w] : w \in Workers}
OpenUnder(t) == {d \in Open : Top[d] = t}

-----------------------------------------------------------------------------
Init ==
    /\ stop = FALSE
    /\ queue = {Root}
    /\ pending = 1
    /\ outstanding = [t \in Tops |-> 0]
    /\ finishedTops = {}
    /\ abandonedTops = {}
    /\ inflight = [w \in Workers |-> {}]
    /\ seenLinks = {}
    /\ pc = [w \in Workers |-> "idle"]
    /\ held = [w \in Workers |-> {}]
    /\ unread = [w \in Workers |-> {}]
    /\ children = [w \in Workers |-> {}]
    /\ truncated = [w \in Workers |-> FALSE]
    /\ tally = [w \in Workers |-> NoTally]
    /\ res = RootCharged
    /\ merged = [w \in Workers |-> FALSE]
    /\ doorClosed = FALSE
    /\ main = "join"
    /\ deadline = FALSE
    /\ partial = FALSE
    /\ stranded = {}
    /\ published = {}

\* The caller sets `stop`, or ^C reaches the main thread inside join.
RequestStop ==
    /\ ~stop
    /\ stop' = TRUE
    /\ UNCHANGED <<cvVars, seenLinks, pc, scanVars, tally, doorVars, mainVars>>

-----------------------------------------------------------------------------
(* A worker, from its loop top to the scan.                                *)

CvFree == \A v \in Workers : pc[v] # "taking"

\* The stop is not tested before taking work.
MutMayTake == queue # {}
MayTake == ~stop /\ queue # {}

\* The loop's test, under cv: `stop_ev` is read here ...
DecideTake(w) ==
    /\ pc[w] = "idle"
    /\ CvFree
    /\ MayTake
    /\ pc' = [pc EXCEPT ![w] = "taking"]
    /\ UNCHANGED <<stop, cvVars, seenLinks, scanVars, tally, doorVars, mainVars>>

\* ... and the directory is popped after, still under cv, but `stop_ev` is
\* not guarded by cv and may be set in between.
Take(w) ==
    /\ pc[w] = "taking"
    /\ \E d \in queue :
          /\ queue' = queue \ {d}
          /\ inflight' = [inflight EXCEPT ![w] = @ \cup {Top[d]}]
          /\ held' = [held EXCEPT ![w] = {d}]
    /\ pc' = [pc EXCEPT ![w] = "setup"]
    /\ UNCHANGED <<stop, pending, outstanding, finishedTops, abandonedTops,
                   seenLinks, unread, children, truncated, tally, doorVars,
                   mainVars>>

\* An empty queue alone is taken for termination.
MutExhausted == queue = {}
Exhausted == queue = {} /\ pending = 0

\* The worker leaves its loop.
Quit(w) ==
    /\ pc[w] = "idle"
    /\ CvFree
    /\ stop \/ Exhausted
    /\ pc' = [pc EXCEPT ![w] = "merge"]
    /\ UNCHANGED <<stop, cvVars, seenLinks, scanVars, tally, doorVars, mainVars>>

\* The ancestors' slots are resolved outside every try block: an exception
\* there ends the thread.
SetupRaises(w) ==
    /\ SetupMayRaise
    /\ pc[w] = "setup"
    /\ pc' = [pc EXCEPT ![w] = "dead"]
    /\ UNCHANGED <<stop, cvVars, seenLinks, scanVars, tally, doorVars, mainVars>>

\* scandir(d), once the rate limiter, if any, has granted a token.
OpenDir(w) ==
    /\ pc[w] = "setup"
    /\ pc' = [pc EXCEPT ![w] = "scan"]
    /\ \E d \in held[w] : unread' = [unread EXCEPT ![w] = Children(d)]
    /\ UNCHANGED <<stop, cvVars, seenLinks, held, children, truncated, tally,
                   doorVars, mainVars>>

\* TokenBucket.take returned False: the directory is never opened.
StoppedAtLimiter(w) ==
    /\ RateLimited
    /\ stop
    /\ pc[w] = "setup"
    /\ pc' = [pc EXCEPT ![w] = "scan"]
    /\ truncated' = [truncated EXCEPT ![w] = TRUE]
    /\ UNCHANGED <<stop, cvVars, seenLinks, held, unread, children, tally,
                   doorVars, mainVars>>

-----------------------------------------------------------------------------
(* The scan of one directory, one entry at a time.                         *)

Account(w, e, outcome) ==
    /\ unread' = [unread EXCEPT ![w] = @ \ {e}]
    /\ tally' = [tally EXCEPT ![w] = Charge(@, outcome, e)]
    /\ UNCHANGED <<stop, cvVars, pc, held, truncated, doorVars, mainVars>>

CannotStat(w) ==
    /\ pc[w] = "scan"
    /\ \E e \in unread[w] \cap Unstatable : Account(w, e, "unstat")
    /\ UNCHANGED <<seenLinks, children>>

CrossesFs(w) ==
    /\ pc[w] = "scan"
    /\ \E e \in unread[w] : Skipped(e) /\ Account(w, e, "crossed")
    /\ UNCHANGED <<seenLinks, children>>

ReadDir(w) ==
    /\ pc[w] = "scan"
    /\ \E d \in unread[w] \cap Dirs :
          /\ ~Skipped(d)
          /\ Account(w, d, "counted")
          /\ children' = [children EXCEPT ![w] = @ \cup {d}]
    /\ UNCHANGED seenLinks

ReadFile(w) ==
    /\ pc[w] = "scan"
    /\ \E f \in unread[w] \cap Files :
          /\ ~Skipped(f)
          /\ CountOnly \/ f \notin Linked
          /\ Account(w, f, "counted")
    /\ UNCHANGED <<seenLinks, children>>

\* Each worker remembers only the links it has itself met.
MutLinkOutcome(w, f) ==
    IF \E g \in Files : Inode[g] = Inode[f] /\ tally[w][<<"counted", g>>] > 0
      THEN "extra" ELSE "counted"
LinkOutcome(w, f) == IF Inode[f] \in seenLinks THEN "extra" ELSE "counted"

\* The look-up and the insertion are one step: both are under links_lock.
ReadLink(w) ==
    /\ pc[w] = "scan"
    /\ ~CountOnly
    /\ \E f \in unread[w] \cap Files \cap Linked :
          /\ ~Skipped(f)
          /\ Account(w, f, LinkOutcome(w, f))
          /\ seenLinks' = seenLinks \cup {Inode[f]}
    /\ UNCHANGED children

\* The entry loop breaks on `stop_ev`, which it polls at some entries only.
ScanStops(w) ==
    /\ pc[w] = "scan"
    /\ stop
    /\ unread[w] # {}
    /\ unread' = [unread EXCEPT ![w] = {}]
    /\ truncated' = [truncated EXCEPT ![w] = TRUE]
    /\ UNCHANGED <<stop, cvVars, seenLinks, pc, held, children, tally, doorVars,
                   mainVars>>

\* scandir, or the iteration, raised; what was read so far stays read.
ScanRaises(w) ==
    /\ pc[w] = "scan"
    /\ ~truncated[w]
    /\ \E d \in held[w] \cap Unopenable :
          tally' = [tally EXCEPT ![w] = Charge(@, "unreadable", d)]
    /\ unread' = [unread EXCEPT ![w] = {}]
    /\ truncated' = [truncated EXCEPT ![w] = TRUE]
    /\ UNCHANGED <<stop, cvVars, seenLinks, pc, held, children, doorVars,
                   mainVars>>

-----------------------------------------------------------------------------
(* The bookkeeping after a scan, one critical section of cv.               *)

\* What is enqueued: nothing once the walk is stopped.
Enqueued(w) == IF stop THEN {} ELSE children[w]

\* Whether work of this directory is left undone.
CutShort(w) == truncated[w] \/ (stop /\ children[w] # {})

\* A directory with children is not released itself.
MutPendingAfter(new) == pending + Cardinality(new) - (IF new = {} THEN 1 ELSE 0)
PendingAfter(new) == pending + Cardinality(new) - 1

\* The children are not counted before the directory is released.
MutReleased(d, new) ==
    [t \in Tops |-> outstanding[t] - (IF Top[d] = t THEN 1 ELSE 0)]

\* One child per subtree is counted, however many were queued.
MutReleasedOnce(d, new) ==
    [t \in Tops |-> outstanding[t] + (IF \E c \in new : Top[c] = t THEN 1 ELSE 0)
                      - (IF Top[d] = t THEN 1 ELSE 0)]

\* `outstanding` after the children are added and this directory, d, released.
Released(d, new) ==
    [t \in Tops |-> outstanding[t] + Cardinality({c \in new : Top[c] = t})
                      - (IF Top[d] = t THEN 1 ELSE 0)]

\* A subtree with nothing queued is taken for finished.
MutFinishes(d, left) ==
    d # Root /\ (left[Top[d]] = 0 \/ \A q \in queue : Top[q] # Top[d])

\* d was the last directory of its subtree.
Finishes(d, left) == d # Root /\ left[Top[d]] = 0

Release(w) ==
    /\ pc[w] = "scan"
    /\ unread[w] = {}
    /\ CvFree
    /\ queue' = queue \cup Enqueued(w)
    /\ pending' = PendingAfter(Enqueued(w))
    /\ \E d \in held[w] :
          /\ outstanding' = Released(d, Enqueued(w))
          /\ abandonedTops' = abandonedTops \cup
                IF CutShort(w) /\ d # Root THEN {Top[d]} ELSE {}
          /\ finishedTops' = finishedTops \cup
                IF Finishes(d, outstanding') THEN {Top[d]} ELSE {}
    /\ held' = [held EXCEPT ![w] = {}]
    /\ children' = [children EXCEPT ![w] = {}]
    /\ truncated' = [truncated EXCEPT ![w] = FALSE]
    /\ pc' = [pc EXCEPT ![w] = "idle"]
    /\ UNCHANGED <<stop, inflight, seenLinks, unread, tally, doorVars, mainVars>>

\* The door is not looked at.
MutDoorOpen == TRUE
DoorOpen == ~doorClosed

\* The merge at a worker's exit, under merge_lock: not past a closed door.
Merge(w) ==
    /\ pc[w] = "merge"
    /\ pc' = [pc EXCEPT ![w] = "exited"]
    /\ IF DoorOpen
         THEN /\ res' = Plus(res, tally[w])
              /\ merged' = [merged EXCEPT ![w] = TRUE]
         ELSE UNCHANGED <<res, merged>>
    /\ UNCHANGED <<stop, cvVars, seenLinks, scanVars, tally, doorClosed, mainVars>>

Scan(w) ==
    \/ CannotStat(w) \/ CrossesFs(w) \/ ReadDir(w) \/ ReadFile(w)
    \/ ReadLink(w) \/ ScanStops(w) \/ ScanRaises(w)

Work(w) ==
    \/ DecideTake(w) \/ Take(w) \/ Quit(w) \/ SetupRaises(w)
    \/ OpenDir(w) \/ StoppedAtLimiter(w) \/ Scan(w) \/ Release(w) \/ Merge(w)

-----------------------------------------------------------------------------
(* The main thread.                                                        *)

Gone(w) == pc[w] \in {"exited", "dead"}

\* One deadline for the whole wait, set once the join loop sees the stop.
SetDeadline ==
    /\ main = "join"
    /\ stop
    /\ ~deadline
    /\ deadline' = TRUE
    /\ UNCHANGED <<stop, cvVars, seenLinks, pc, scanVars, tally, doorVars, main,
                   partial, stranded, published>>

\* The wait has no bound: a worker blocked in scandir is waited for.
MutGraceOver == FALSE

\* STOP_GRACE_S is five seconds: it outlasts any critical section of cv, none
\* of which makes a system call.
GraceOver == deadline /\ CvFree

WasStopped == stop

\* The join loop ends with every worker gone, or at the deadline.
LeaveJoin ==
    /\ main = "join"
    /\ (\A w \in Workers : Gone(w)) \/ GraceOver
    /\ main' = "door"
    /\ partial' = WasStopped
    /\ UNCHANGED <<stop, cvVars, seenLinks, pc, scanVars, tally, doorVars,
                   deadline, stranded, published>>

CloseDoor ==
    /\ main = "door"
    /\ main' = "abandon"
    /\ doorClosed' = TRUE
    /\ stranded' = {w \in Workers : ~merged[w]}
    /\ UNCHANGED <<stop, cvVars, seenLinks, pc, scanVars, tally, res, merged,
                   deadline, partial, published>>

\* Work taken from the root's own scan is not recorded.
MutLost(w) == inflight[w] \ {Root}

\* The depth-1 names a worker took work from, Root for the root's own scan.
Lost(w) == inflight[w]

\* What a stranded worker took work from is abandoned; Root among it is
\* root_stranded.  Read and written outside cv, while such workers still run.
Abandon ==
    /\ main = "abandon"
    /\ main' = "publish"
    /\ abandonedTops' = abandonedTops \cup UNION {Lost(w) : w \in stranded}
    /\ UNCHANGED <<stop, queue, pending, outstanding, finishedTops, inflight,
                   seenLinks, pc, scanVars, tally, doorVars, deadline, partial,
                   stranded, published>>

\* The depth-1 plain files that reached the result.
PlainFiles == {f \in Files \cap Tops : res[<<"counted", f>>] > 0}

Publish ==
    /\ main = "publish"
    /\ main' = "published"
    /\ published' = IF Root \in abandonedTops THEN {}
                      ELSE (finishedTops \ abandonedTops) \cup PlainFiles
    /\ UNCHANGED <<stop, cvVars, seenLinks, pc, scanVars, tally, doorVars,
                   deadline, partial, stranded>>

MainStep == SetDeadline \/ LeaveJoin \/ CloseDoor \/ Abandon \/ Publish

\* The result is out and every thread has ended.
Over ==
    /\ main = "published"
    /\ \A w \in Workers : Gone(w)
    /\ UNCHANGED vars

Next == RequestStop \/ MainStep \/ Over \/ \E w \in Workers : Work(w)

Spec == Init /\ [][Next]_vars

\* A worker inside a scan that may block for ever.
Blocked(w) == pc[w] \in {"setup", "scan"} /\ held[w] \cap Hanging # {}

\* Threads keep running, but for those in a system call that does not return.
\* A stop is never owed.
Fairness ==
    /\ WF_vars(MainStep)
    /\ \A w \in Workers : WF_vars(Work(w) /\ ~Blocked(w))

FairSpec == Spec /\ Fairness

\* A directory that could not be scanned does not count as skipped.
MutComplete == \A e \in Entries : res[<<"unstat", e>>] = 0 /\ ~partial

\* WalkResult.complete
Complete ==
    /\ \A e \in Entries : res[<<"unreadable", e>>] + res[<<"unstat", e>>] = 0
    /\ ~partial

-----------------------------------------------------------------------------
(* Properties.                                                             *)

\* Every variable keeps its type: the state of walk()'s locals and result.
TypeOK ==
    /\ {stop, doorClosed, deadline, partial} \subseteq BOOLEAN
    /\ queue \subseteq Dirs
    /\ pending \in Nat
    /\ outstanding \in [Tops -> Nat]
    /\ finishedTops \subseteq Tops
    /\ abandonedTops \subseteq Tops \cup {Root}
    /\ inflight \in [Workers -> SUBSET (Tops \cup {Root})]
    /\ seenLinks \subseteq {Inode[f] : f \in Files}
    /\ pc \in [Workers -> {"idle", "taking", "setup", "scan", "merge",
                           "exited", "dead"}]
    /\ held \in [Workers -> SUBSET Dirs]
    /\ unread \in [Workers -> SUBSET (Entries \ {Root})]
    /\ children \in [Workers -> SUBSET (Dirs \ {Root})]
    /\ truncated \in [Workers -> BOOLEAN]
    /\ tally \in [Workers -> Tallies]
    /\ res \in Tallies
    /\ merged \in [Workers -> BOOLEAN]
    /\ main \in {"join", "door", "abandon", "publish", "published"}
    /\ stranded \subseteq Workers
    /\ published \subseteq Tops

\* The counters of the termination test are exact: `pending_box` counts the
\* directories queued or in hand, `outstanding` those below each depth-1 name.
CountersExact ==
    /\ pending = Cardinality(Open)
    /\ \A t \in Tops : outstanding[t] = Cardinality(OpenUnder(t))

\* A depth-1 name enters `finished_tops` once nothing below it is queued or in
\* hand, and nothing is queued below it ever after.
FinishedStaysClosed == \A t \in finishedTops : OpenUnder(t) = {}

\* No worker leaves before the tree is exhausted, unless the walk was stopped:
\* an empty queue alone is not termination.
QuitsWhenExhausted ==
    ~stop => \A w \in Workers : pc[w] \in {"merge", "exited"} => Open = {}

\* Every entry is charged to the result at most once, and so is every inode
\* when stat is available, whichever threads met its names and merged.
CountedOnce ==
    /\ \A e \in Entries : Accounts(res, e) <= 1
    /\ ~CountOnly =>
          \A f, g \in Files :
             /\ f # g
             /\ Inode[f] = Inode[g]
             => res[<<"counted", f>>] + res[<<"counted", g>>] <= 1

\* No entry whose directory was counted is missing, none is there without it.
Whole(e) == e # Root => Accounts(res, e) = res[<<"counted", Parent[e]>>]

\* Whatever an interrupted walk publishes as finished is exact: the depth-1
\* entry's own inode is in the result, and so is every entry below it, but for
\* those the result itself reports as unstatable or crossed.
FinishedTopsExact ==
    \A t \in published :
       /\ res[<<"counted", t>>] = 1
       /\ \A e \in Entries : Top[e] = t => Whole(e)

\* A result that calls itself complete, of a walk that stranded no worker, has
\* the whole tree: every entry accounted for once, and every inode of which a
\* further name was met counted.
CompleteIsWhole ==
    main = "published" /\ Complete /\ stranded = {} =>
       /\ \A e \in Entries : Whole(e)
       /\ \A f \in Files : res[<<"extra", f>>] = 1 =>
             \E g \in Files : Inode[g] = Inode[f] /\ res[<<"counted", g>>] = 1

\* An interrupted walk publishes a snapshot: once the merge door is shut, no
\* worker, however late, changes a figure of the result.
SnapshotFrozen == [][doorClosed => UNCHANGED <<res, merged, stranded>>]_vars

\* The depth-1 names a stranded worker took work from are all known once the
\* main thread reads them: no thread takes more after it gave up waiting.
InflightFinalOnceRead == [][main # "join" => UNCHANGED inflight]_vars

\* A walk ends, by itself, with a result, unless a worker is blocked for ever.
EndsUnlessBlocked ==
    <>(main = "published") \/ <>[](\E w \in Workers : Blocked(w))

\* A stopped walk returns even when every worker is blocked in a system call.
StopReturns == stop ~> (main = "published")

\* test_audit_round_four: "Whatever is ranked must be exact".  Nothing below a
\* finished depth-1 directory is left out for a stat that failed.
RankedIsExact ==
    main = "published" /\ partial =>
       \A t \in published, e \in Entries :
          Top[e] = t => res[<<"unstat", e>>] = 0
=============================================================================

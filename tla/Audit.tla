------------------------------- MODULE Audit -------------------------------
(***************************************************************************)
(* One run of the program (cli.py): the arguments are resolved, the paths  *)
(* are visited in order, and an exit code sums up what was found.  The     *)
(* sweep, the quota read, the walk, the re-stat and the comparison are     *)
(* steps here that return any of their results (modules Sweep, QuotaRead,  *)
(* Walk, Settle and Reconcile).  Beside the walk a second thread draws a   *)
(* line on the terminal, which is to be erased before the report.          *)
(*                                                                         *)
(* A definition named Mut... is a plausible mistake in the definition that *)
(* follows it.                                                             *)
(***************************************************************************)
EXTENDS Integers, SequencesExt

CONSTANTS
    Paths,             \* the directories that may be measured
    ArgLists,          \* what the program may be given: paths, and Unset for
                       \* an argument that names no directory
    Here,              \* the current directory; Unset when it is gone
    BackendMaps,       \* of each quota backend: the paths it has a row for
    Options,           \* [quotaOnly, deletedOnly, count, bySize (--sort size or
                       \* density), full, noQuota, noDeleted, noSettle, json, tty
                       \* and sane: no number given is out of its range]
    Unset

ASSUME AuditAssumption ==
    /\ Unset \notin Paths
    /\ BackendMaps \in Seq(SUBSET Paths)
    /\ Unset \notin {0, 1, 2} \cup DOMAIN BackendMaps
    /\ ArgLists \subseteq Seq(Paths \cup {Unset}) /\ Here \in Paths \cup {Unset}
    /\ Options \subseteq [{"quotaOnly", "deletedOnly", "count", "bySize", "full", "noQuota",
                           "noDeleted", "noSettle", "json", "tty", "sane"} -> BOOLEAN]

VARIABLES
    opts, argv,        \* the command line
    world,             \* [down, atLimit, open]: the backends that do not answer,
                       \* the paths whose row is at its limit, and those with
                       \* files below that are open but unlinked
    pc,                \* what the main thread does next
    paths, refused,    \* the paths to visit, and how many arguments are none
    k,                 \* the place in `paths`
    snaps,             \* the memo of quota reads; a snapshot is the number of
                       \* the backend that answered, 0 when none did
    scan,              \* the paths with open files that the sweep found
    found,             \* of each visited place: what was found there
    rcode, unmeasured,
    exit,              \* the exit code; Unset until there is one
    cut,               \* the run was interrupted, or its output failed
    painter,           \* where the drawing thread is
    stopped,           \* the event that ends it
    line, painted,     \* the line has text; what the spinner believes
    overdue            \* a join with the painter has timed out

input   == <<opts, argv, world>>
asked   == <<snaps, scan>>
outcome == <<found, rcode, unmeasured, exit, cut>>
drawing == <<painter, stopped, line, painted, overdue>>
vars == <<input, pc, paths, refused, k, asked, outcome, drawing>>

EXIT_OK == 0
EXIT_ATTENTION == 1
EXIT_ERROR == 2

-----------------------------------------------------------------------------
(* The options.                                                            *)

\* Two reports at once, an empty one, or an order that -c cannot give.
Contradiction ==
    \/ opts.quotaOnly /\ (opts.deletedOnly \/ opts.noQuota)
    \/ opts.count /\ opts.bySize

Mode == CASE opts.quotaOnly -> "quota"
          [] opts.deletedOnly /\ ~opts.quotaOnly -> "deleted"
          [] OTHER -> "walk"
Full == opts.full \/ opts.json

\* A walk without a stat has nothing to look at again.
Settles == ~opts.noSettle /\ ~opts.count

-----------------------------------------------------------------------------
(* The quota of a path.                                                    *)

Up == DOMAIN BackendMaps \ world.down
Maps(snap) == IF snap = 0 THEN {} ELSE BackendMaps[snap]

\* The first backend that has a row for the path, else the first that has any.
ReadBest(p) ==
    LET own == {n \in Up : p \in BackendMaps[n]}
    IN  CASE own # {} -> Min(own) [] own = {} /\ Up # {} -> Min(Up) [] Up = {} -> 0

\* Without a row for the path, any row at its limit counts.
NeedsAttention(snap, p) ==
    IF p \in Maps(snap) THEN p \in world.atLimit ELSE Maps(snap) \cap world.atLimit # {}

ReadsQuota == Full /\ ~opts.noQuota
Sweeps == Full /\ ~opts.noDeleted

\* One answer serves all paths.
MutShares(snap, p) == TRUE

\* An answer with no row for its own path serves all paths.
Shares(snap, p) == p \notin Maps(snap)

\* The memo after path p was read: an entry that is there stays.
Remembered(snap, p) ==
    [q \in Paths |->
        CASE q = p -> snap
          [] q # p /\ snaps[q] = Unset /\ q \in ToSet(paths) /\ Shares(snap, p) -> snap
          [] OTHER -> snaps[q]]

-----------------------------------------------------------------------------
Init ==
    /\ opts \in Options /\ argv \in ArgLists
    /\ world \in [down : SUBSET DOMAIN BackendMaps,
                  atLimit : {{}} \cup {{p} : p \in Paths}, open : {{}} \cup {{p} : p \in Paths}]
    /\ pc = "parse" /\ paths = <<>> /\ refused = 0 /\ k = 1
    /\ snaps = [p \in Paths |-> Unset] /\ scan = {}
    /\ found = <<>> /\ rcode = EXIT_OK /\ unmeasured = 0
    /\ exit = Unset /\ cut = FALSE
    /\ painter = "none" /\ stopped = FALSE
    /\ line = FALSE /\ painted = FALSE /\ overdue = FALSE

\* An option that makes no sense ends the run before anything is measured.
Parse ==
    /\ pc = "parse"
    /\ IF Contradiction \/ ~opts.sane THEN exit' = EXIT_ERROR /\ pc' = "end"
       ELSE exit' = exit /\ pc' = "resolve"
    /\ UNCHANGED <<input, paths, refused, k, asked, found, rcode, unmeasured, cut, drawing>>

\* The paths among the arguments, the number of others, and what comes next.
Resolve ==
    LET all  == IF argv # <<>> THEN argv ELSE <<Here>>
        node == Mode = "deleted" /\ argv = <<>>
    IN  /\ pc = "resolve"
        /\ paths' = IF node THEN <<Unset>> ELSE SelectSeq(all, LAMBDA p : p # Unset)
        /\ refused' = IF node THEN 0 ELSE Len(all) - Len(paths')
        /\ IF paths' = <<>> THEN exit' = EXIT_ERROR /\ pc' = "end"
           ELSE /\ exit' = exit
                /\ pc' = CASE Mode # "walk"           -> Mode
                           [] Mode = "walk" /\ Sweeps -> "sweep"
                           [] OTHER                   -> "quota_for"
        /\ UNCHANGED <<input, k, asked, found, rcode, unmeasured, cut, drawing>>

\* The place is done: the code so far, and the next place or the last lines.
Visited(record, attention) ==
    /\ found' = Append(found, record)
    /\ rcode' = IF attention THEN EXIT_ATTENTION ELSE rcode
    /\ k' = k + 1
    /\ pc' = IF k < Len(paths)
               THEN IF Mode = "walk" THEN "quota_for" ELSE Mode
               ELSE "finish"

Found(p, snap, raised, bad, held) ==
    [path |-> p, snap |-> snap, raised |-> raised, bad |-> bad, held |-> held]

-----------------------------------------------------------------------------
(* --quota-only and --deleted-only.                                        *)

CmdQuota ==
    /\ pc = "quota"
    /\ LET p    == paths[k]
           snap == ReadBest(p)
       IN  Visited(Found(p, snap, FALSE, FALSE, FALSE), snap = 0 \/ NeedsAttention(snap, p))
    /\ UNCHANGED <<input, paths, refused, asked, unmeasured, exit, cut, drawing>>

\* Without a path the whole node is scanned.
HasOpen(p) == IF p = Unset THEN world.open # {} ELSE p \in world.open

CmdDeleted ==
    /\ pc = "deleted"
    /\ LET p == paths[k]
       IN  Visited(Found(p, Unset, FALSE, FALSE, HasOpen(p)), HasOpen(p))
    /\ UNCHANGED <<input, paths, refused, asked, unmeasured, exit, cut, drawing>>

-----------------------------------------------------------------------------
(* The walk of each path.                                                  *)

\* The sweep runs once, before every walk.
Scan ==
    /\ pc = "sweep"
    /\ scan' = world.open
    /\ pc' = "quota_for"
    /\ UNCHANGED <<input, paths, refused, k, snaps, outcome, drawing>>

QuotaFor ==
    /\ pc = "quota_for"
    /\ snaps' = IF ReadsQuota /\ snaps[paths[k]] = Unset
                  THEN Remembered(ReadBest(paths[k]), paths[k]) ELSE snaps
    /\ pc' = IF opts.tty THEN "start" ELSE "walk"
    /\ UNCHANGED <<input, paths, refused, k, scan, outcome, drawing>>

\* A painter that outlived its own walk stays with its own event and spinner:
\* only the last one is followed here.
StartPainter ==
    /\ pc = "start"
    /\ painter' = "delay" /\ stopped' = FALSE /\ painted' = FALSE
    /\ pc' = "walk"
    /\ UNCHANGED <<input, paths, refused, k, asked, outcome, line, overdue>>

\* The walk returns a result or raises, and in either case the drawing ends.
Walk ==
    /\ pc = "walk"
    /\ \E raised, incomplete \in BOOLEAN :
          found' = Append(found, Found(paths[k], snaps[paths[k]], raised,
                                       ~raised /\ incomplete, FALSE))
    /\ pc' = IF opts.tty THEN "join" ELSE "judge"
    /\ stopped' = TRUE
    /\ UNCHANGED <<input, paths, refused, k, asked, rcode, unmeasured, exit, cut,
                   painter, line, painted, overdue>>

\* The painter is not waited for.
MutJoined == TRUE

Joined == painter = "ended"

\* The painter ended, or the second that it has is over.
JoinPainter ==
    /\ pc = "join"
    /\ \/ Joined /\ overdue' = overdue
       \/ painter \in {"writing", "drawn"} /\ overdue' = TRUE
    /\ pc' = "clear"
    /\ UNCHANGED <<input, paths, refused, k, asked, outcome, painter, stopped,
                   line, painted>>

\* The spinner erases what it believes it has drawn.
Clear ==
    /\ pc = "clear"
    /\ line' = (line /\ ~painted) /\ painted' = FALSE
    /\ pc' = IF cut THEN "end" ELSE "judge"
    /\ UNCHANGED <<input, paths, refused, k, asked, outcome, painter, stopped, overdue>>

\* A walk that raised decides the exit code there and then.
MutRaised == /\ rcode' = EXIT_ERROR /\ unmeasured' = unmeasured

\* A walk that raised is counted, whatever the other paths come to.
Raised == /\ unmeasured' = unmeasured + 1 /\ rcode' = rcode

\* The re-stat, the comparisons of both kinds and the report.
Judge ==
    /\ pc = "judge"
    /\ LET p    == paths[k]
           snap == snaps[p]
           now  == found[k]
       IN  \/ /\ now.raised /\ Raised
              /\ found' = found
           \/ /\ ~now.raised
              /\ \E moved \in BOOLEAN, verdicts \in SUBSET {"gap", "inconclusive", "closes"} :
                    /\ moved => Settles
                    /\ verdicts # {} => snap \notin {Unset, 0}
                    /\ Cardinality(verdicts) <= 2
                    /\ found' = [found EXCEPT ![k] =
                          Found(p, snap, FALSE,
                                @.bad \/ moved \/ verdicts \cap {"gap", "inconclusive"} # {},
                                Sweeps /\ p \in scan)]
              /\ rcode' = IF \/ found'[k].bad \/ found'[k].held
                             \/ snap # Unset /\ NeedsAttention(snap, p)
                          THEN EXIT_ATTENTION ELSE rcode
              /\ unmeasured' = unmeasured
    /\ k' = k + 1
    /\ pc' = IF k < Len(paths) THEN "quota_for" ELSE "finish"
    /\ UNCHANGED <<input, paths, refused, asked, exit, cut, drawing>>

-----------------------------------------------------------------------------
(* The end of the run.                                                     *)

Finish ==
    /\ pc = "finish"
    /\ exit' = IF refused > 0 \/ unmeasured > 0 THEN EXIT_ERROR ELSE rcode
    /\ pc' = "end"
    /\ UNCHANGED <<input, paths, refused, k, asked, found, rcode, unmeasured, cut, drawing>>

Prints == pc = "finish" \/ (pc \in {"quota", "deleted", "judge"} /\ ~opts.json)

\* A thread that the system refuses raises what no one catches.
StartsThreads == pc \in {"sweep", "deleted", "start", "walk"}

\* A closed pipe is no failure; any other failure of a write is, and so is an
\* interrupt outside of the walk's own loop.  A traceback has the interpreter's
\* exit code, which is that of attention.  The drawing ends in any case.
BreakOff ==
    /\ exit = Unset /\ pc # "parse"
    /\ exit' \in {EXIT_ERROR} \cup (IF Prints THEN {EXIT_OK} ELSE {})
                 \cup (IF StartsThreads THEN {EXIT_ATTENTION} ELSE {})
    /\ cut' = TRUE
    /\ pc' = IF pc = "walk" /\ opts.tty THEN "join" ELSE "end"
    /\ stopped' = TRUE
    /\ UNCHANGED <<input, paths, refused, k, asked, found, rcode, unmeasured, painter,
                   line, painted, overdue>>

-----------------------------------------------------------------------------
(* The painter: it waits, and then draws until it sees the event.          *)

Awake ==
    /\ painter \in {"delay", "pause"}
    /\ painter' = IF stopped THEN "ended" ELSE "writing"
    /\ UNCHANGED <<input, pc, paths, refused, k, asked, outcome, stopped, line, painted,
                   overdue>>

\* The text is on the line before the spinner notes it.
Draw ==
    /\ painter = "writing"
    /\ line' = TRUE /\ painter' = "drawn"
    /\ UNCHANGED <<input, pc, paths, refused, k, asked, outcome, stopped, painted, overdue>>

Note ==
    /\ painter = "drawn"
    /\ painted' = TRUE /\ painter' = "pause"
    /\ UNCHANGED <<input, pc, paths, refused, k, asked, outcome, stopped, line, overdue>>

Paint == Awake \/ Draw \/ Note

Main ==
    \/ Parse \/ Resolve \/ CmdQuota \/ CmdDeleted \/ Scan \/ QuotaFor \/ StartPainter
    \/ Walk \/ JoinPainter \/ Clear \/ Judge \/ Finish \/ BreakOff

Next == Main \/ Paint

Spec == Init /\ [][Next]_vars

-----------------------------------------------------------------------------
(* Properties.                                                             *)

WantsAHuman(n) ==
    LET f == found[n]
    IN  f.bad \/ f.held \/ (f.snap # Unset /\ NeedsAttention(f.snap, f.path))
          \/ (Mode = "quota" /\ f.snap = 0)

\* The exit code of a run that was not cut short depends on what was named and
\* on what was found, and not on the order of either: an argument that could not
\* be measured outranks everything, and success means that every argument was
\* measured and that nothing wants a human
\* (cli.py:36-40, 342-353, 753-763, 824-863; tests/test_cli_contracts.py).
ExitSaysWhatWasFound ==
    exit # Unset /\ ~cut =>
        exit = CASE \/ paths = <<>> \/ refused > 0
                    \/ \E n \in DOMAIN found : found[n].raised -> EXIT_ERROR
                 [] OTHER ->
                    IF \E n \in DOMAIN found : WantsAHuman(n) THEN EXIT_ATTENTION
                    ELSE EXIT_OK

Reported(n) == found[n].snap # Unset
HasARow(p) == \E b \in Up : p \in BackendMaps[b]

\* A path that some backend has a row for is judged by that row, unless a path
\* that none had a row for was read before it (cli.py:715-736).
OwnRowUnlessShared ==
    \A n \in DOMAIN found :
        Reported(n) /\ HasARow(found[n].path) =>
            \/ found[n].path \in Maps(found[n].snap)
            \/ \E m \in 1..(n - 1) : ~HasARow(found[m].path)

\* A path that some backend has a row for is judged by that row, whatever was
\* named before it (cli.py:715-722).
OwnRow ==
    \A n \in DOMAIN found :
        Reported(n) /\ HasARow(found[n].path) => found[n].path \in Maps(found[n].snap)

\* Nothing of the progress line is left when the report is written, and nothing
\* is drawn over it, unless the painter was stuck for the whole second that it
\* is given (cli.py:657-693; ui.py:1270-1297).
LineIsClear ==
    pc \in {"judge", "finish"} /\ ~overdue =>
        ~line /\ (opts.tty /\ Mode = "walk" => painter = "ended")
=============================================================================

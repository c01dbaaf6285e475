# rapidu, modelled and proved

`rapidu` says where a directory's bytes and inodes went, compares that with the
quota of the filesystem, and looks for what the difference may be: files deleted
but still open, snapshots, paths outside the walk. It is one Python process. Its
core is a threaded directory walk that can be stopped at any moment and must
then say exactly what it knows; that core is modelled in full, checked with TLC
on a small tree and proved with TLAPS for every tree and every set of threads,
against an abstract contract of what a caller is promised. Around it are models
of what each entry is charged to, the re-stat of recent files, the report made
of both, the rate limiter, the sweep for deleted files, the quota backends, the
reconciliation of walk and quota, and a whole run of the program. Paths below
are relative to `src/src/rapidu/`.

## The system

| Part | State | Operations | Hard behaviour | What makes it correct |
|---|---|---|---|---|
| **Walk** (`walk.py`, `walk`) | queue of directories, `pending_box`, `outstanding`, `finished_tops`, `abandoned_tops`, `inflight`, `seen_links`, each worker's `l_*` locals, the result, the merge door | take a directory, scan it, account for an entry, release the directory, quit, merge; join, time out, shut the door, abandon, publish | up to dozens of threads, a stop between any two steps, scans and stats that fail or never return, workers stranded past the deadline | termination is exact; an entry and an inode are counted once; what an interrupted walk publishes as finished is exact; a published result never changes; a stopped walk returns |
| Walk, accounting of one entry (`walk.py`) | per-uid/gid/dev/age tables, ancestor slots, watched caches, padding | charge an entry to each table | caps on dictionaries that several threads fill separately | the tables sum to the totals; nothing over a cap is lost or summed twice |
| Rate limiter (`walk.py`, `TokenBucket`) | tokens, time of the last refill | take, refill, wait | rates below one, waiting with a stop | never more than rate·t + burst directories; a stop ends the wait |
| Settling re-check (`walk.py`, `SettleCheck`, `recheck_settling`) | a sample of files, the verdict | sample during the walk, stat again after | files removed or rewritten in between, samples cut at a cap | a null result comes from a measurement; a removed file is not the tree shrinking |
| Quota backends (`quota.py`) | the answers of `quota`, `mmlsquota`, `lfs quota`, a memo of probes | probe, run with a timeout, parse, choose | one deadline shared by several commands, fallbacks | the right row for the path; a failure is said to be one |
| Deleted-but-open sweep (`deleted.py`) | the records found, the counters | sweep `/proc` in a thread, give up on it, copy out | a stat that never returns, a thread that goes on after its caller left | an inode once; nothing invented; partial when it is partial |
| Reconciliation (`reconcile.py`) | the row, the blockers, the verdict | choose a row, compare within a tolerance, explain, refuse | inputs from four different moments of a tree that changes; rows that count users, groups or filesets | both sides count one population, and what is not of it is known; a gap is exact; an all-clear hides nothing of size |
| Session (`cli.py`) | the paths, the shared snapshots, the exit code, the painter thread | run each path, share the quota and sweep snapshots | a snapshot that ages during earlier walks, ^C at any point | verdicts on fresh data; the exit code reflects every path |
| Report (`report.py`) | none | rank, hide, group, judge | sums by subtraction, caches inside caches, one verdict worked out in four places | nothing counted twice, nothing hidden without a word, no view contradicts another |
| Drawing (`ui.py`, `fmt.py`) | the spinner's line | paint, clear | the painter thread against the report | the report starts on a clear line |

**Interactions.** `cli.py` runs one sweep for all paths; then, for each path, it
reads a quota snapshot, or takes one it has, calls `walk`, and hands all three to
`reconcile.py`; `report.py` prints. Inside `walk` the main thread and the
workers share the queue and its counters under a condition variable `cv`, the
links seen under `links_lock`, and the result under `merge_lock`. `stop_ev` is
an event no lock guards. The sweep has one worker thread and the painter is one
more; neither touches the walk's state.

## Modules

| Module | What it is |
|---|---|
| `Walk` | the walk: one action for each step of a worker and of the main thread, and the properties |
| `WalkContract` | what a caller is promised, with no thread in it: at most one result, sound, which never changes |
| `WalkRefines` | the refinement mapping from `Walk` to `WalkContract` |
| `MCWalk` | the tree TLC walks |
| `WalkInv` | the inductive invariant, in named parts |
| `WalkProof` | the safety proofs of `Walk`, in layers (see Proofs), and that it implements `WalkContract` |
| `Tally` | what an entry is charged to, the merge of the workers' tables, and what `WalkResult` derives |
| `Settle` | the re-stat after a walk; extends `Tally` |
| `Report` | what the report makes of both; extends `Settle` |
| `TallyProof` | the proofs of these three |
| `MCTally` | a tree for them |
| `Limiter`, `LimiterProof`, `MCLimiter` | the rate limiter; its proofs; an instance |
| `Sweep`, `SweepProof`, `MCSweep` | the sweep of `/proc` and its caller, while processes exit and files are unlinked; its proofs; a small node |
| `QuotaRead`, `QuotaProof`, `MCQuotaRead` | the three quota readers in turn, their commands and their one budget; its proofs; a login node with three GPFS devices |
| `Reconcile`, `ReconcileProof`, `MCReconcile` | one comparison, and the moments its inputs are from; its proofs; three files |
| `Audit`, `AuditProof`, `MCAudit` | one run of the program over several paths, and its painter; its proofs; two backends and three paths |
| `Sums`, `SetLemmas` | the sum of a column of figures, which `Tally`, `Report` and `Reconcile` are built with; lemmas about sums, extremes, folds and ranks |

They compose as the program does. `Tally`, `Settle` and `Report` are one state
machine: the report is worked out in every state the walk and the re-stat can
reach. `Reconcile` takes a sweep, a quota read and a walk of one tree as its
steps, each by what it returns. `Audit` takes all of them as steps that return
any of their results: a walk that raised, is incomplete or is fine, a snapshot
of any backend that answers. What the steps may return is what the modules below
them establish.

### How `Walk` corresponds to `walk.py`

| Code | Model |
|---|---|
| `queue`, `pending_box[0]`, `outstanding`, `finished_tops`, `abandoned_tops`, `inflight`, `seen_links` | variables of the same names; `_ROOT_SCAN` in `inflight` is `Root` |
| the loop's test of `stop_ev` and the queue, then the pop, one `with cv` block | `DecideTake` and `Take`: `cv` is held from one to the other (`CvFree`), but `stop_ev` is set outside it, so a stop may fall between |
| leaving the loop | `Quit` |
| the ancestor slots, resolved before any `try` | `SetupRaises`, where `SetupMayRaise` says an exception is possible there |
| the limiter and `os.scandir` | `OpenDir`, `StoppedAtLimiter` |
| one turn of the entry loop | `CannotStat`, `CrossesFs`, `ReadDir`, `ReadFile`, `ReadLink` |
| the loop's poll of `stop_ev`; its `except` clauses | `ScanStops`, `ScanRaises` |
| the bookkeeping block after the scan, under `cv` | `Release` |
| the merge at exit, under `merge_lock` | `Merge` |
| the join loop and its deadline; the door; the abandoned names; publication | `SetDeadline`, `LeaveJoin`, `CloseDoor`, `Abandon`, `Publish` |
| ^C in `join`, or the caller's `stop` | `RequestStop` |

A *tally* counts, for each entry, how often it was charged and with which
outcome: `counted` (its blocks and inode), `extra` (another name of an inode
that was counted), `unstat` (its stat failed), `crossed` (on another
filesystem), and, for a directory, `unreadable` (its scan raised). One record
stands for all a worker adds to its locals for an entry, and the result is the
sum of the tallies that were merged: that is what makes "every entry once" and
"nothing missing below a finished name" expressible.

**Abstractions.** The tree does not change during a walk; a stat or a scan the
constants say may fail fails or succeeds each time. The queue is a set: the code
pops its end, the model any member, so every order is covered. Sleeping on `cv`
is not modelled: every wait is `cv.wait(0.5)` and is polled, so a lost wake-up
costs time only. `STOP_GRACE_S` is five seconds and no critical section of `cv`
makes a system call, so the main thread's deadline cannot pass while a worker is
between `DecideTake` and `Take`: `GraceOver` demands `CvFree`, and that is the
one assumption about time. It is needed: without it a worker stopped between the
two lines for the whole of the grace period could add to `inflight` after the
main thread had read it.

### How `Sweep` corresponds to `deleted.py`

| Code | Model |
|---|---|
| `os.listdir("/proc")`, in no `try` | `ListProc`, `ListRaises` |
| `os.listdir(fd_dir)` and the two counters | `Visit`, `VisitDenied`, `VisitGone` |
| `os.readlink`, and the tests on the text | `PassOver`, `Look` (`LooksDeleted`, `LooksSilly`) |
| `os.stat` and the tests on its result | `StatProves`, `StatRejects` (`Proven`) |
| a record made and listed; its holder added after `_read_comm` | `StatProves`, then `AddHolder` |
| `done.set()` | `Finish`; a thread that died never gets there |
| `done.wait(timeout)` and the copies after it, one by one | `Awake`, `CopyScanned`, `CopyUnreadable`, `CopyFiles`, `CopySilly` |
| a process exits, a file is unlinked | `Exit`, `Unlink`, between any two steps |

The lists are copied, the records in them are not: `holders` is one variable,
shared by the thread and whoever has the result. Left out: a
silly-rename name with a second link (the gate `st_nlink == 1` is modelled for a
name that goes away), a process that closes a descriptor without exiting, one
that starts during the sweep.

### How `QuotaRead` corresponds to `quota.py`

| Code | Model |
|---|---|
| `read_best`'s loop, its early return, its end | `Choose`, `Conclude`, `GiveUp` |
| the commands a reader will run | `Plans`; for `mmlsquota` in `_device_order`, up to the cap |
| `_budget`, `_run` with nothing left | `Budget`, `NotRun`; `mmlsquota` asks first: `NoTimeForDevice` |
| a command that ends | `Rows`, `NoRows`, `ProjectId`, `Fails`, `Missing` (127) |
| `kill`, then `communicate` | `TimesOut`: up to `Linger` longer |
| `snap.reason` | `reason` has every failure, `Said` what the code makes of them |

A row is its mount point. What a command prints is any set of rows it could
name, so the parsers are behind `Rows` and `NoRows`. Time passes in commands
only.

### How `Tally`, `Settle` and `Report` correspond

| Code | Model |
|---|---|
| `size`, `files`, `by_uid`, `by_gid`, `by_dev`, `by_age`, `dir_agg`, `watched`, `watched_overflow` and the padding and recency counters, of the result and, as `l_*`, of a worker | the slots of one table, by key; `Keys` lists them |
| one entry of a scan, in a walk and in the count-only loop | `Read`, with `FileKeys`, `DirKeys`, `DuplicateKeys`, `AllocKeys`, `RecencyKeys` |
| the ancestors resolved before a scan; `_seed_watch` | `ReportedAncestors`, `WatchedAncestors`; `Seeded` |
| the scan of a directory | `Scan`: any order of its names, any set of failing entries, an exception after any of them |
| the merge and its caps | `Merge` (`MergeWatched`, `MergeSamples`), in any order of the workers |
| `choose_threads` | `ChooseThreads`; the probe of the filesystem is either outcome |
| `recheck_settling`; the tree meanwhile | `StartRecheck`, `Restat`; `Reallocate`, `Unlink` between any two stats |
| `top_dirs`, `_entry_rows`, `_top_hidden`, `_density_floor_note` | `TopDirs`, `EntryRows`, `TopHidden`, `DensityNote` |
| `reclaimable_groups`, `render_reclaimable` | `ReclaimableGroups`, `Reclaimable` |
| `_headline_is_provisional`, `_provisional_note`, `render_settle`, `settled` of the JSON document | `HeadlineIsProvisional`, `ProvisionalNote`, `RenderSettle`, `Settled` |

One step is a whole scan, which is sound here because a scan writes only its own
worker's locals and the table of links, and `Walk` has the interleaving inside
it. The walk is not stopped: the ranking of an interrupted one is `Walk`'s
`finished_tops`. An overflow is one slot in the code; the model keeps one per
directory, so that a property can say whose bytes are in it. Bytes are units of
allocation, ages two buckets, and a file was written long ago, recently, in the
future, or had only its inode touched.

### How `Limiter` corresponds to `TokenBucket`

`take` is `Grant`, `Wait` and `Refuse`. The code's floats are whole numbers of
parts of a token and of ticks; `Deficit` rounds up, where the code's sleep may
end a hair early and asks again. `Mark` is an observer's action, from which
`WindowBounded` counts.

### How `Reconcile` corresponds to `reconcile.py`

| Code | Model |
|---|---|
| `_pick_row`, `_fileset_hint`, `read_path_fileset` | `PickRow`, `FilesetHint`, `world.measured` |
| the two sides of the comparison | `WalkValue`, `Mine`: by user, by group, or all |
| `_effective_tolerance` | `EffectiveTolerance` |
| the blockers, one `if` each | `Blockers` |
| the verdict and the early returns before it | `Reconciliation`, `CannotAnswer`, `Compared`, `Verdict` |
| `_candidates` | `Candidates`, by kind of explanation |

The order of events is `cmd_walk`'s: `Sweep`, `Read`, `Walk`, `Compare`. The
quota manager computes its figure (`ComputeFigure`) at any moment before the
read, and a file is unlinked, closed or written anew (`Change`) between any two
events. `odd` has the circumstances under which an input tells less than it
seems to: a refused directory, another filesystem, a sweep that was given up.

A filesystem may be cut into parts, GPFS filesets or Lustre projects, that share
one mount point. What a row counts (`Counts`) is its scope *and* its part: a
user's row of a fileset is charged with what the user has in that fileset. The
row's name may be that of its part, of the whole filesystem's device, or of a
group, so `part`, `fileset` (the name) and `gid` (what the name resolves to) are
separate fields, and nothing is assumed of the parts the tree lies in. The code
narrows what it found by owner or group only. So beside `Seen`, which is what it
found of the row's, there is `Foreign`: what passes that test and is not the
row's, because it is in another fileset of a shared mount, of any group when the
row's did not resolve, on a filesystem that the walk crossed into, or open on one
that `-x` left out (`under` looks at the path only). The properties count it
instead of excepting it. One case is excepted, `Misnamed`: a group's row that is
named after a fileset, when a group other than the one it charges has that name.

### How `Audit` corresponds to `cli.py`

| Code | Model |
|---|---|
| the checks of `main`, `parser.error` | `Parse` |
| `_resolve_paths`, `_default_path` | `Resolve` |
| `cmd_quota`, `cmd_deleted` | `CmdQuota`, `CmdDeleted`, once per path |
| `cmd_walk` | `Scan`, then `QuotaFor`, `Walk`, `Judge` per path, then `Finish` |
| `_walk_with_progress`, its `finally` | `StartPainter`, `Walk`, `JoinPainter`, `Clear` |
| `paint`, `Spinner.paint` | `Awake`, `Draw`, `Note`: the text is out before the spinner notes it |
| an interrupt, a closed pipe, a full disk; a thread that cannot be started, which nothing catches | `BreakOff`, with the exit code of `main` or of the interpreter |

`--version` and `--help`, which print and leave, are left out.

## Runs

The tree of `MCWalk` has ten entries: a depth-1 directory with two directories
below it, one of which may fail to be statted or scanned, or hang; two names of
one inode under different depth-1 directories; a directory on another
filesystem, with a file; a plain file at depth 1. That is the smallest tree on
which each rule of the walk decides something: a subtree two workers can be
inside at once, a link two threads race for, a subtree that is finished while
another is abandoned, a depth-1 name that is not a directory.

| Run | Instance | Question |
|---|---|---|
| `walk_safety` | 3 workers, `-x`, workers may die in their setup | every safety property under every stop and failure, and the contract |
| `walk_live` | 2 workers, count only, `-x`, rate limited, a scan that may hang | a walk ends unless a worker is blocked; a stopped one always returns |
| `walk_ranked` | 2 workers | *violated*: an interrupted walk ranks a subtree below which a stat failed |
| `tally` | 7 directories, 6 names of 5 inodes, caps of two paths, two samples and one listed directory | tables agree, nothing is lost to a cap, the views agree |
| `tally_reclaim` | the same | *violated*: the reclaimable total counts a nested cache twice |
| `limiter` | 2 workers, a rate below one | the rate is kept in every window; nobody oversleeps |
| `sweep` | 3 processes, 7 inodes of every kind, 8 descriptors | the sweep returns, fabricates nothing, and is complete only with all there was |
| `quota` | 4 mounts, 3 devices of which 2 may be asked, 3 ticks and 2 to die | the row for the path wins; nothing is skipped without a reason; the overrun does not add up |
| `reconcile` | 10 row lists, a tree in two filesets, 21 sets of circumstances, one change | all of the row's population is compared, and what else is; a gap is exact; an all-clear is sound |
| `reconcile_sweep` | the same | *violated*: the sweep is not the last of the inputs |
| `audit` | 10 argument lists, 9 option sets, 2 backends | the exit code, whose row judges a path, the cleared line |
| `audit_shared` | without the drawing | *violated*: a path named first hides another's row |

In the walk there are no bounds on counters: the tree is finite and each
directory is taken once, so the state space is. Two workers are enough for every
race between workers the code has, since each lock protects a pair of steps; the
third is there so that one can be stranded, one dead and one still merge. The
safety runs use symmetry over the workers, which nothing tells apart; the run
with liveness does not. `MCSweep` has one inode for each way through the tests
of the sweep, one held by two processes, and a process that is both unreadable
and hidden. `MCQuotaRead` has a home that does not contain the path, two mounts
of which one contains it more closely, a row without a mount, and the closest
device last by name and beyond the cap; three ticks let each of the readers be
the one that runs out of time. `Timeout`, `Linger` and `MaxDevices` are the
bounds.

`MCTally` has three watched directories, one inside another, under caps of two
paths, so that a path is given up by a worker, by the merge, and by neither; a
directory that is gone when it is opened; a link whose two names are under
different rows; a filesystem within. Its modes are a walk and a count, with and
without `-x`, at depths of one and two. `MaxChanges` bounds how often the tree
changes during the re-stat, and the caps (`WatchedCap`, `SampleCap`,
`UnreadableCap`, the thresholds of the report) are scaled down with the tree. In
`MCLimiter` `MaxTime` bounds the clock. `MCReconcile` has one change per
behaviour: two could only undo each other or repeat the first, since each
property is about the inputs on either side of a change. Sizes are chosen so
that no two sets of files have one size, and the tolerance is a fraction of
them. One of the files is in another fileset than the rest, and the row lists
have every scope, of the whole filesystem, of the fileset of the user's files
and of the other, alone and tied, at the mount and above it, and a group whose
name resolves, does not, and resolves to another. `MCAudit` has a path for each
backend and one for none, which is every relation between a memo of snapshots
and the paths that share it.

**What the properties say.** `CountersExact`: the two counters of the
termination tests equal what they stand for. `QuitsWhenExhausted`: an empty
queue is not taken for the end. `FinishedStaysClosed`: `finished_tops` is never
early. `CountedOnce`: an entry and an inode are charged at most once across
threads. `FinishedTopsExact`: the core promise of an interrupted walk.
`CompleteIsWhole`: the core promise of one that was not. `SnapshotFrozen` and
`InflightFinalOnceRead`: the two facts that let the main thread walk away from
running threads. `KeepsContract`: all that a caller sees is a behaviour of
`WalkContract`. `EndsUnlessBlocked`, `StopReturns`: it does walk away. Of the
tables, `TablesAgree`, `RowsPartition`, `WatchedSummedOnce`,
`CountsSurviveCaps`, `OffRootIsLeftOut`: relations between figures that are
charged by different lines, by different workers, under different caps, and on
which the report's subtractions rely. `DriftIsMovement`, `NullIsMeasured`: the
re-stat calls nothing movement, and nothing settled, that it did not measure.
`RestIsWhatIsHidden`, `NothingHiddenUnsaid`, `MatchesCountOnce`,
`VerdictsAgree`: the report and the JSON document agree with each other and with
the tables. `WindowBounded`, `NobodyOversleeps`: the limiter is neither lax nor
slow. Of the sweep, `CompleteFindsAll`: `complete` is true only of a scan that
has every inode deleted before it and still held, with the one exception the
code has no counter for, a stat that failed; `EachInodeOnce`,
`FindingsAreProven`: blocks are not counted twice nor invented; `ScanReturns`: a
blocked stat cannot hold the caller. Of the quotas, `AnswerForPathWins`: a
result without a row that governs the path comes only after every backend had
its turn or the time was up, and none had such a row; `NothingSkippedSilently`:
a result without rows accounts for each filesystem and backend that was not
asked; `PathDeviceAsked`: the cap on devices does not cost the answer;
`OverrunIsOneKill`: the budget is overrun by one dying command at most. Of the
comparison, `PopulationsMatch`: what is accounted for is all that the walk and
the sweep found of what the row counts, and what is foreign to it and was let
in; `GapIsExact`: a gap is exactly what nobody could see, less what is
foreign, unless the tree changed within the age the caller accepts;
`CloseIsSound`: what an all-clear hides, and what is foreign, are no more than a
tenth apart. Of the run, `ExitSaysWhatWasFound`: the exit code is a function of
what was named and found, whatever the order; `OwnRowUnlessShared`,
`LineIsClear`.

**Fairness.** Weak fairness of the main thread's steps, and of each worker's
steps while it is not inside a scan the constants say may hang. Python threads
are scheduled by the OS and the interpreter hands its lock round, so a thread
that can go on does; a system call on a dead mount is the one thing that does
not return. A stop is never owed: no property relies on the user. In `Sweep`
only the caller is fair, whose one wait has a timeout; nothing is assumed of the
thread, which may stay in a system call for ever.

### What the violated runs show

- `walk_ranked`. A stat that fails inside a subtree is counted (`unstatable`)
  and the entry skipped, with all below it, but the scan is not marked truncated,
  so the subtree may be published as finished. A scan that raises is marked; the
  comment there explains why it has to be. `FinishedTopsExact` is stated with
  this exception, `RankedIsExact` without it.
- `tally_reclaim`. A match inside another match is not listed, because its bytes
  are in the other's total. The bytes whose path was given up for the cap are
  added to that total all the same, and they may lie inside a listed match too:
  the total can exceed the tree.
- `reconcile_sweep`. A comment in `reconcile` has the sweep after the walk; it
  runs before the quota is read. A file that the sweep saw, and that is released
  before the figure is computed, is added to the walk's side of the comparison
  and makes a gap (of the other sign) without a blocker. `GapIsExact` and
  `CloseIsSound` except the changes between sweep and figure (`SweepOutrun`).
- `audit_shared`. A snapshot without a row for its own path is put in the memo
  for every other path, as a site-wide answer. It may be the fallback of a path
  that no backend knows, and a later path that another backend has a row for is
  then never asked about. `OwnRowUnlessShared` is stated with this exception.

### Other differences from what is said

These came up on the way and have no run.

- README.md of rapidu says each row matches `du -s`. Which row has the blocks of
  an inode with names under two rows depends on which thread came first.
- Between taking a directory and the scan's `try` lie the lines that resolve its
  ancestors' slots. Should one raise, the directory stays counted as pending, and
  a single-worker walk returns a result that calls itself complete;
  `CompleteIsWhole` and the contract therefore demand that no worker is stranded.
- A comment says that no worker reaches the pop after `stop_ev` is set; one can.
  What the code needs of it is `InflightFinalOnceRead`, which holds because of
  the grace period.
- `_run` kills a command at its deadline and then waits for it without one.
  `OverrunIsOneKill` bounds the damage.
- Where a mount is shared by filesets and the mount itself is walked, rows of
  several filesets tie. One is picked, by the fileset the mount's own directory
  is in or by scope, and its figure is compared with everything that was walked,
  or with everything of the user's in it. The choice is noted, but there is no
  blocker, so what the other filesets hold makes a gap that the report calls a
  finding, although "every input that could invalidate the comparison downgrades
  the verdict" (`reconcile.py:15-16`). An invariant that no file of another part
  is among what made a gap fails on `MCReconcile` at the first comparison. The
  properties count such files (`Foreign`), so that `GapIsExact` says by how much
  a gap of this kind is off.
- `_sweep` goes on adding holders to records it shares with a scan that has been
  returned. Their number and sizes are not affected.
- A group row whose name is not resolved is compared with the whole tree, which
  the code notes; with `-x` an open file on the filesystem that was left out is
  added to the walk's side, since `under` looks at its path only. Neither is a
  blocker, and both are in `Foreign`. With `-c` a group row of inodes finds its
  own group only for the root, since a count reads no owner; that is always
  inconclusive.

## Proofs

Every property of `walk_safety` is a theorem of `Spec`, for every finite set of
directories and any files, links and workers that satisfy the assumptions of
`Walk`: the tree assumptions (a finite set of directories, `Parent` and `Top` as
in a tree), that two names of one inode are both known to be linked
(`st_nlink`), and that there is a worker. The theorems hold in every mode, a
count-only and a rate-limited walk too, of which TLC checks the liveness only.
None of the properties is inductive. The invariant is built in layers, each
proved from those before:

1. `Placement`. A directory in the queue, in some worker's hands
   or among its children is in one place only and has been charged for; each
   entry is noted by at most one worker, and only once its directory has been
   opened. The types and the counters are in this layer because the counters'
   decrements need it: that `pending` stays a natural number follows from its
   being a cardinality. Gives `TypeCorrect`, `CountersCorrect`.
2. `ResultInv`, `LinksInv`. The result is `account_root`'s
   charge plus the notes of the merged workers, who have left for good;
   `seenLinks` is the set of inodes charged under some linked name, each under
   one. Gives `CountedOnceCorrect`.
3. `MainInv`. Past its wait, the main thread has either no
   worker left or a set stop and `cv` free, so nobody can take any more. Gives
   `SnapshotFrozenCorrect`, `InflightFinalCorrect`.
4. `Subtrees`. A worker's `inflight` has the depth-1 name of
   all it noted and all it holds; a depth-1 directory waits before anything
   below it is taken. Gives `FinishedStaysClosedCorrect`.
5. `Cover`, `UnstoppedInv`. A directory that was found is in
   hand, or was read to the end, or its subtree is abandoned, or it is a depth-1
   directory nobody took; in a walk that was not stopped, it is in hand, was
   read, or its scan failed on record. Gives `QuitsWhenExhaustedCorrect`.
6. Publication. At that moment every worker with a name
   that is not abandoned in its `inflight` has merged; so what layer 5 says was
   read is, by layer 2, in the result. Gives `FinishedTopsExactCorrect` and
   `CompleteIsWholeCorrect`.
7. The contract. Every step of `Walk` is, under the
   mapping of `WalkRefines`, a step of `WalkContract` or a stutter: the one step
   that publishes returns a sound result, by 6, of the right type, by 1 and 2; a
   stop is the caller's; after it nothing moves, by 3. Gives
   `WalkKeepsContract`, an implementation theorem between two specifications.

`Inductive` in `WalkInv` is the conjunction of the layers 1 to 5. It was checked
with TLC as an invariant before it was proved.

`TallyProof` proves what the tables hold, and what the re-stat and the report
conclude from them, for any tree, modes, caps and requests for threads. Seven of
the eleven properties are about published tables, in which the work of several
threads has been joined; none of them is true of one worker's table, which has
the entries of a directory without the directory. Three ideas make an invariant
of them:

- `Grand` is the table all workers and the result hold together, with what each
  watched directory has in the overflow put back in its slot (`Joined`). Where
  an amount is, and which cap moved it there, is gone from it; a merge and a cap
  leave it as it was, whatever they do to the tables it is made of.
- Seen on `Grand`, the forty charges of a scan are two: it `Gains` an entry
  everywhere at once, or stays the `Same`. Everything is proved of those.
- `Ledger` is what holds of `Grand`: the tables by owner, filesystem and age add
  up to the same inodes and bytes (`OwnedOnce`), each row is its inode and its
  children's rows (`RowsAdd`), each watched directory has the figures of its row
  (`WatchedAsRows`), watched directories apart from one another are worth no more
  than the tree (`PackedOnce`), and `seen` counts those that have figures
  (`SeenOnce`). `RowsAdd` is not inductive: a row whose directory had not been
  counted would be a child short. So `Frontier` says that nothing has been
  counted below a directory that waits, nor at an entry the scan has not come
  to, and that everything above has.

`TallyInv` is the ledger of `Grand` in the state, with what each worker has by
itself: its paths are kept once (`KeptOnce`), its sample is short only when
full, and otherwise is all that was recent (`SampleWhole`). Inside a scan the
same is carried through the two folds, over the names and over the ancestors.
That each table of a published result *is* the joined one follows from all
workers having merged. This gives `TablesHoldTogether`, `TablesAlwaysAgree`,
`RowsAlwaysPartition`, `WatchedAlwaysOnce` and `CountsAlwaysSurvive`; from the
partition, `RestAlwaysWhatIsHidden`, a subtraction that would be wrong for rows
that overlap, and, with what a ranking of n keeps, `NothingEverHiddenUnsaid`;
from `PackedOnce`, `MatchesAlwaysCountOnce`, since of two matches one inside the
other only the outer is listed.

`SettleInv` adds the re-stat: it has a place in the sample, what it measured and
what it found gone are together what the walk charged for the sample up to there
(`Accounted`), an inode that did not move is as it was charged, and the totals
differ only if one in the sample moved. Gives `DriftIsAlwaysMovement`; with
`SampleWhole`, `NullIsAlwaysMeasured` and `VerdictsAlwaysAgree`.

What is off the root's filesystem is a number of inodes, which no equation
between tables gives: two workers may each find a name of one file there, and
which of them is charged with it is a race. So `OffInv` says what that figure is
in the midst of the walk. `Unread` is what is below a queued directory, or at or
below an entry the scan has not come to, and `ReadOf` the rest of the tree.
`OffAgrees` says, unless a stat or a listing has failed, that the `dev` slots of
`Grand` other than the root's count each inode of another device in `ReadOf`
once, and that `seen_links` has the inodes of exactly the linked files in it.
The two need each other: that the next name's inode is new is read from
`seen_links`. `UnreadNext` and `UnreadTaken` say that reading one entry adds
that entry to `ReadOf`, and that taking a directory from the queue adds none;
`OffRead`, `OffReads` and `OffScan` carry `OffAgrees` through one entry, the
names of a directory and a whole scan; a merge leaves `Grand` as it is and comes
when nothing is queued, so a published walk has read the tree. `OffInv` was
checked with TLC on `MCTally` before it was proved. Gives `OffRootIsCounted` and
`OffRootAlwaysLeftOut`.

What these assume: `TreeAssumption`, a finite tree (no set of entries has all its
parents in it); `FiguresAssumption`, sizes, blocks, links, caps and thread counts
are natural numbers, depth is at least 1 (the parser demands it), the kinds of
files and of times are those modelled; `SettleAssumption`, `st_blocks` belongs to
the inode, so its names agree, and the least conclusive gap is not zero;
`ReportAssumption`, paths differ, so sorting by them decides every tie, and the
patterns of the report are of directories the walk watches. The two theorems on
what is off the root's filesystem have hypotheses of their own, which TLC
evaluates on the tree of `MCTally`. `HardLinksOnly`: names of one inode are hard
links, on one filesystem and with a link count above one, as POSIX has it. A link
count that said one would have the file counted once for each name.
`NothingMountedBack`, for the second theorem only: below another filesystem there
is nothing of the root's. A bind mount can undo it and no line of the code looks
for one; `-x` would leave such a directory out with the one it is in, and
`other_fs_size` has not counted it, so "exactly what `--one-file-system` would
have left out" (`walk.py:728`) is true under this hypothesis only.

`ReconcileProof` proves the three properties of `reconcile`, for any inodes, row
lists, ages and tolerances within `ReconcileAssumption` (figures are natural
numbers, the tolerance and `Share` are fractions). Nothing is assumed of
filesets: which part a row is of, what it is called, and where the inodes are is
arbitrary. The invariant says which moment each input is from: the figure, the
sweep and the walk are those of the tree now, unless it changed since
(`FigureIsOf`, `SweepIsOf`, `WalkIsOf`), and nothing compared changes after the
comparison (`RecIsOf`). What is left is arithmetic of one state: what was found
and let in splits into what the row counts and what is foreign (`FoundIsSplit`),
and unless the group is misnamed none of the row's is lost by it; these are
disjoint unions, so their sums add up; what the row is charged with is what was
seen of it and what nobody saw; a tolerance is at most a tenth. Where nothing
foreign was found the two theorems on verdicts say that a gap is exactly what
nobody saw, and that an all-clear hides at most the tenth.

`LimiterProof` proves, for every rate, capacity and number of workers, that the
bucket stays between nothing and its capacity (`LimiterTypeCorrect`) and
`WindowBounded` (`RateIsBounded`). The invariant: what was granted since the mark
and what is in the bucket are together bounded by a full bucket and what has
accrued up to the last refill; before the first refill after the mark nothing
was granted. `NobodyEverOversleeps` adds that every sleep ends by the moment the
next token is due, which a refill does not move (`Deficit` rounds up, and the
accrual of two spans is that of their sum), and that no token is granted while
somebody sleeps.

`SweepProof` proves the four safety properties of `Sweep` for any processes,
descriptors and inodes, whatever exits, is unlinked, fails or is given up, under
`WorldAssumption` (finitely many processes, an owner and an inode for each
descriptor, kernel objects that never had a name). The
invariant is proved in parts, each from those before: `Types`; `Places`, what the
thread has in hand at each of its places; `Tallied`, a process is counted once;
`Once`, each list has an inode at most once; `Listed`, what is in a list was
proven unlinked, or silly-renamed; and two for `complete`. `OnTheWay` says that a
descriptor that leads to a deleted file and whose process lives is still before
the thread, in its hands, or listed, unless the scan has counted a process it
could not read; `Copied`, that a caller that was not timed out copies what the
thread has left for good. Together they give `CompleteFindsAll`, the one property
that relates what the thread did to what its caller says of it.

`QuotaProof` proves the four properties of `QuotaRead`, for any mounts, devices,
cap, budget and linger (`SiteAssumption`: finitely many mounts, the devices
listed by name, and none of them called like one of the model's other commands).
The first two are that the clock never passes the budget by more than one
killed command lingers (`OverrunIsBounded`), and that the row for the path wins
(`AnswerForPathCorrect`). The invariant: `Timely` bounds the clock; `Turns`, each
reader had its turn once and in order, and until `read_best` returns no snapshot
had a row for the path; `Settled`, what was returned is a row for the path or
all there was. The other two are about commands that were not run, long before
the result is put together, so the invariant has what is still owed at each
place: `AtWork` says of the reader at work that what it has to see to was asked,
is still to be asked, or was said to have failed; `Reported`, what each snapshot
made so far accounts for; `NoDeviceYet`, that no device is asked before
`mmlsquota` has its turn. From these `GiveUp` finds a reason for every skipped
filesystem and backend in what it merges (`NothingIsSkippedSilently`). That the
first device asked contains the path most closely (`PathDeviceIsAsked`) is a fact
of the order the code sorts the devices in, which is a ranking, and of the cap,
which is at least one; `SortExists` and `SortIsOnto` say that there is such a
sequence and that it has every device.

`AuditProof` proves the three properties of `audit`, for any paths, arguments,
options and backends that satisfy `AuditAssumption`. The exit code is settled
long after what it depends on, so the invariant carries the sum of the places
done so far (`Summed`: the code so far is attention when a place that was walked
wants a human, and a walk that raised is counted); whose answer each path is
remembered with (`Remembrance`: its own row, or that of a path before it that
had none), which outlives the visit it was made in; where a run without an exit
code is (`Progress`) and what one with an exit code may still do (`Ended`); and
`Lines`, what is on the terminal is known to the spinner or about to be, at
every place of either thread. Beside them, `InOrder` ties what was found to the
path it was found of. That the backend with the least number has the row it was
chosen for rests on the well-foundedness of finite sets.

*Induction over data.* The library's induction theorems take an operator as a
parameter, which the provers cannot instantiate, but a least counterexample
needs none: of a set of subsets of a finite set, one that is minimal exists
(`LeastSubset`, from the well-foundedness of strict inclusion), and if every
minimal one can be made smaller the set is empty. `SetLemmas` proves in this way
what `SumOver` adds up to, over a disjoint union, a sum of columns, a part; that
`FoldLeft` is the run of its step and keeps what the step keeps (`FoldKeeps`);
that the first n of a finite ranking are n, or all there are (`RankCount`); and
that a finite ranking can be written down as a sequence (`SortExists`).
`PathDef` is the same argument on the tree.

**Model-checked only.** Liveness (`EndsUnlessBlocked`, `StopReturns`,
`ScanReturns`), which is out of the prover's reach. And the violated claims, of
which a counterexample needs no proof. Every invariant and every action property
of a passing run is a theorem.

## Not modelled

- *A tree that changes during the walk.* A directory entered twice, or a file
  that moves ahead of the walk, is a wrong figure `du` has as well; the settling
  re-check is the code's answer to it, and `Settle` has it.
- *`Thread.start` failing, ^C outside `join`.* Both leave `walk` by an exception
  and no result is published; `Audit` has the exit codes of both.
- *An interrupted walk in `Report`.* Its rows are those of `finished_tops`
  (`Walk`), without a remainder row.
- *The memo of fileset probes* (`quota.py`). `Reconcile` takes either outcome of
  a probe, so its verdicts do not depend on what the memo keeps.
- *The parsers of `quota.py`*, the mount table, `/proc/mounts`: text formats,
  best served by the tests they have.
- *The tables of owners, ages and padding, the quota panel, the wording of
  every line* (`report.py`), *colours, boxes and number formatting* (`ui.py`,
  `fmt.py`): functions of one figure each, with no state and no sum to be wrong.
  `assets/render_demo.py` draws a picture for the README and is no part of the
  program.

## Plan

Left, in order of worth: an interrupted walk in `Report`; the memo of fileset
probes in `Audit`, with the probe's timeout.

------------------------------- MODULE Tally -------------------------------
(***************************************************************************)
(* What each entry of a walk is charged to (walk.py, `worker` and the      *)
(* merge), and what WalkResult derives from it.                            *)
(*                                                                         *)
(* Module Walk has the threads; here one step is the scan of a whole       *)
(* directory, since all a scan writes is the worker's own, but for the     *)
(* table of hard links.  Every counter and every table of the code is a    *)
(* slot of one table: a key, such as <<"uid", u>> or <<"row", path>>, has  *)
(* a count, the allocated bytes and the apparent bytes charged to it.  The *)
(* walk is not stopped.                                                    *)
(*                                                                         *)
(* A definition named Mut... is a plausible mistake in the definition that *)
(* follows it: putting it there breaks the property PROJECT.json names.    *)
(***************************************************************************)
EXTENDS Naturals, Sequences, FiniteSets, SequencesExt, FiniteSetsExt, Functions, Sums

CONSTANTS
    Root, Dirs, Files, Parent,   \* the tree, as in module Walk
    Attr,              \* of each entry: uid, gid, dev, kind, inode, links, size,
                       \* blocks (allocated bytes), age bucket, and written:
                       \* "old", "recent", "future" (mtime) or "touched" (ctime)
    Watched,           \* the directories with a name in WATCHED_DIR_NAMES
    Unstatable,        \* entries whose stat may fail
    Unopenable,        \* directories whose scandir, or its iteration, may raise
    Vanishing,         \* those of both that fail because they are gone
    Modes,             \* count_only, one_file_system and the depth of the rows
    WatchedCap, MinWatchedPerWorker, SampleCap, UnreadableCap,
    MinAllocUnit,
    DefaultThreads, MaxThreads, LocalThreads,
    Requests, Unset    \* the values of -t; Unset is none given

Entries == Dirs \cup Files

\* The last of the first five: no part of the tree is its own ancestor.
ASSUME TreeAssumption ==
    /\ IsFiniteSet(Entries)
    /\ Root \in Dirs /\ Dirs \cap Files = {}
    /\ Parent \in [Entries \ {Root} -> Dirs]
    /\ \A part \in SUBSET (Entries \ {Root}) :
          part # {} => \E e \in part : Parent[e] \notin part
    /\ Watched \subseteq Dirs \ {Root}
    /\ Unopenable \subseteq Dirs /\ Unstatable \subseteq Entries \ {Root}

ASSUME FiguresAssumption ==
    /\ \A e \in Entries : {Attr[e].size, Attr[e].blocks, Attr[e].links} \subseteq Nat
    /\ \A f \in Files :
          /\ Attr[f].kind \in {"file", "link", "special"}
          /\ Attr[f].written \in {"old", "recent", "future", "touched"}
    /\ Modes \subseteq [count : BOOLEAN, ofs : BOOLEAN, depth : Nat \ {0}]
    /\ {WatchedCap, MinWatchedPerWorker, SampleCap, UnreadableCap} \subseteq Nat
    /\ {DefaultThreads, MaxThreads, LocalThreads} \subseteq Nat \ {0}
    /\ Requests \subseteq Nat \cup {Unset} /\ Unset \notin BOOLEAN

VARIABLES
    flags,             \* the call's mode
    threads,           \* nthreads
    queue, seenLinks,  \* as in module Walk
    local,             \* the l_* locals of each worker
    merged,
    res,               \* the result
    published

vars == <<flags, threads, queue, seenLinks, local, merged, res, published>>

Workers == 1..threads

-----------------------------------------------------------------------------
(* How many workers.                                                       *)

\* choose_threads: `cheap` says that the root is on a local filesystem and
\* that its probe was fast, Unset that no -t was given.
ChooseThreads(requested, cheap) ==
    IF requested # Unset THEN Max({1, Min({requested, MaxThreads})})
    ELSE IF cheap THEN LocalThreads ELSE DefaultThreads

\* The cap of one worker: a share of the whole, but never too few.
WatchCap == Max({MinWatchedPerWorker, WatchedCap \div Max({1, threads})})

-----------------------------------------------------------------------------
(* Paths.                                                                  *)

\* The names from the root down to an entry, which name it.
Path[e \in Entries] == IF e = Root THEN <<>> ELSE Append(Path[Parent[e]], e)
Level(e) == Len(Path[e])
Children(d) == {e \in Entries \ {Root} : Parent[e] = d}

\* One level of reported ancestors is left out.
MutReportedAncestors(d) == {Path[d][i] : i \in 1..Min({Level(d), flags.depth - 1})}

\* `base`: the reported ancestors of what is in d.
ReportedAncestors(d) == {Path[d][i] : i \in 1..Min({Level(d), flags.depth})}

\* The rows an entry is charged to: those ancestors, and its own if reported.
RowsOf(e) ==
    ReportedAncestors(Parent[e]) \cup (IF Level(Parent[e]) < flags.depth THEN {e} ELSE {})

\* The watched ancestors of what is in d.
WatchedAncestors(d) == {a \in Watched : a \in ToSet(Path[d])}

-----------------------------------------------------------------------------
(* Tables.                                                                 *)

Uids == {Attr[e].uid : e \in Entries}
Gids == {Attr[e].gid : e \in Entries}
Devs == {Attr[e].dev : e \in Entries}
Ages == {Attr[f].age : f \in Files}
Allocations == {Attr[f].blocks : f \in Files}

\* "over" is the one overflow slot, here apart for each directory whose path
\* was given up; "bits" is alloc_bits, here the set of what was ORed into it.
Keys ==
    {<<k>> : k \in {"size", "files", "dirs", "extra", "link", "special", "unstat",
                    "gone_entry", "crossed", "unreadable", "gone_dir", "padded",
                    "under", "inline", "recent", "touched", "future", "seen"}}
      \cup ({"uid"} \X Uids) \cup ({"gid"} \X Gids) \cup ({"dev"} \X Devs)
      \cup ({"age"} \X Ages) \cup ({"bits"} \X Allocations)
      \cup ({"row"} \X (Entries \ {Root})) \cup ({"watch", "over"} \X Watched)

NoSlot == [count |-> 0, bytes |-> 0, apparent |-> 0]
NoTable == [k \in Keys |-> NoSlot]
AddSlot(s, t) == [f \in DOMAIN s |-> s[f] + t[f]]
AddTable(s, t) == [k \in Keys |-> AddSlot(s[k], t[k])]
ChargeTo(table, keys, bytes, apparent) ==
    [k \in Keys |->
        IF k \in keys
          THEN AddSlot(table[k], [count |-> 1, bytes |-> bytes, apparent |-> apparent])
          ELSE table[k]]

\* The sum of one field over the slots of one kind.
Total(table, kind, field) ==
    SumOver([k \in Keys |-> table[k][field]], {k \in Keys : k[1] = kind})

RowFigures(table, field) == [e \in Entries \ {Root} |-> table[<<"row", e>>][field]]

-----------------------------------------------------------------------------
(* What one entry is charged to.                                           *)

Owners(e) ==
    {<<"uid", Attr[e].uid>>, <<"gid", Attr[e].gid>>, <<"dev", Attr[e].dev>>}

KindKeys(f) == IF Attr[f].kind = "file" THEN {} ELSE {<<Attr[f].kind>>}

\* Which way a file's allocation went.  A file without blocks holds its data
\* in the inode unless it was written so recently that they may be to come.
AllocKeys(f) ==
    LET b == Attr[f].blocks
        size == Attr[f].size
    IN  IF b = 0
          THEN IF size > 0 /\ Attr[f].written = "old" /\ Attr[f].kind # "link"
                 THEN {<<"inline">>} ELSE {}
        ELSE IF b > size
          THEN {<<"padded">>} \cup (IF b >= MinAllocUnit THEN {<<"bits", b>>} ELSE {})
        ELSE IF b < size THEN {<<"under">>} ELSE {}

\* Inside the settle window: by mtime, or by ctime alone.
Recent(f) == Attr[f].written # "old"
RecencyKeys(f) ==
    CASE Attr[f].written = "recent"  -> {<<"recent">>}
      [] Attr[f].written = "future"  -> {<<"recent">>, <<"future">>}
      [] Attr[f].written = "touched" -> {<<"touched">>}
      [] OTHER -> {}

\* A watched directory's slot, or the overflow when its path is not kept.
WatchKey(kept, a) == IF a \in ToSet(kept) THEN <<"watch", a>> ELSE <<"over", a>>

\* A path is kept while there is room for it.
Keep(kept, cap, a) ==
    IF a \in ToSet(kept) \/ Len(kept) >= cap THEN kept ELSE Append(kept, a)

\* Those of a sequence of directories that are watched, in that order.
KeepAll(kept, cap, dirs) ==
    FoldLeft(LAMBDA k, a : IF a \in Watched THEN Keep(k, cap, a) ELSE k, kept, dirs)

\* How the scan of an entry comes out.  A count-only walk asks of each whether it
\* is a directory, which may fail as a stat may, and stats those only for -x.
MayFail(e) == e \in Unstatable
Skipped(e) ==
    /\ flags.ofs /\ Attr[e].dev # Attr[Root].dev
    /\ flags.count => e \in Dirs
Duplicate(f, links) == ~flags.count /\ Attr[f].links > 1 /\ Attr[f].inode \in links

\* Directories are not charged to the filesystem they are on.
MutDirKeys(d) ==
    {<<"dirs">>} \cup {<<"row", r>> : r \in RowsOf(d)}
      \cup (IF flags.count THEN {}
            ELSE {<<"size">>, <<"uid", Attr[d].uid>>, <<"gid", Attr[d].gid>>})

\* Directories are charged to the tables as files are, as inodes.
DirKeys(d) ==
    {<<"dirs">>} \cup {<<"row", r>> : r \in RowsOf(d)}
      \cup (IF flags.count THEN {} ELSE {<<"size">>} \cup Owners(d))

FileKeys(f) ==
    {<<"files">>} \cup {<<"row", r>> : r \in RowsOf(f)}
      \cup (IF flags.count THEN {}
            ELSE {<<"size">>, <<"age", Attr[f].age>>} \cup Owners(f)
                   \cup KindKeys(f) \cup AllocKeys(f) \cup RecencyKeys(f))

\* A duplicate name is not subtracted from the inodes.
MutDuplicateKeys(f) == {<<"files">>} \cup KindKeys(f)

\* One more name of a counted inode is a file without a size.
DuplicateKeys(f) == {<<"files">>, <<"extra">>} \cup KindKeys(f)

GoneKey(e, key) == IF e \in Vanishing THEN {<<key>>} ELSE {}

-----------------------------------------------------------------------------
(* The scan of a directory.                                                *)

Blocks(e) == IF flags.count THEN 0 ELSE Attr[e].blocks
Length(e) == IF flags.count THEN 0 ELSE Attr[e].size
Bill(acc, keys, e) ==
    [acc EXCEPT !.table = ChargeTo(@, keys, Blocks(e), Length(e))]

\* A watched directory is charged with what is below it only.
MutSeeded(acc, d) ==
    IF d \in Watched THEN Bill(acc, {<<"seen">>}, d) ELSE acc

\* The parent's scan charges a watched directory with its own inode.
Seeded(acc, d) ==
    IF d \notin Watched THEN acc
    ELSE LET kept == Keep(acc.kept, WatchCap, d)
         IN  Bill([acc EXCEPT !.kept = kept], {<<"seen">>, WatchKey(kept, d)}, d)

\* What the scan of an entry changes; `watch` are the slots of the watched
\* directories above it, `failing` the entries that cannot be stat'ed.
Read(acc, e, watch, failing) ==
    IF e \in failing THEN Bill(acc, {<<"unstat">>} \cup GoneKey(e, "gone_entry"), e)
    ELSE IF Skipped(e) THEN Bill(acc, {<<"crossed">>}, e)
    ELSE IF e \in Dirs
      THEN Seeded([Bill(acc, DirKeys(e) \cup watch, e) EXCEPT !.kids = @ \cup {e}], e)
    ELSE IF Duplicate(e, acc.links) THEN Bill(acc, DuplicateKeys(e), e)
    ELSE [Bill(acc, FileKeys(e) \cup watch, e) EXCEPT
            !.links = IF ~flags.count /\ Attr[e].links > 1
                        THEN @ \cup {Attr[e].inode} ELSE @,
            !.sample = IF ~flags.count /\ Recent(e) /\ Len(@) < SampleCap
                         THEN Append(@, e) ELSE @]

\* A scan that reads `names` in that order; it raises after them when
\* `raises`.  The slots above d are resolved before it starts.
Scanned(w, d, names, failing, raises) ==
    LET kept  == KeepAll(local[w].kept, WatchCap, Path[d])
        watch == {WatchKey(kept, a) : a \in WatchedAncestors(d)}
        start == [table |-> local[w].table, kept |-> kept,
                  sample |-> local[w].sample, links |-> seenLinks, kids |-> {}]
        read  == FoldLeft(LAMBDA acc, e : Read(acc, e, watch, failing), start, names)
    IN  IF raises
          THEN Bill(read, {<<"unreadable">>} \cup GoneKey(d, "gone_dir"), d)
          ELSE read

NoLocal == [table |-> NoTable, kept |-> <<>>, sample |-> <<>>]

Scan(w) ==
    /\ ~merged[w]
    /\ \E d \in queue : \E names \in SetToSeqs(Children(d)),
          failing \in SUBSET {e \in Children(d) : MayFail(e)},
          raises \in {FALSE} \cup {u = d : u \in Unopenable} :
       \E n \in 0..Len(names) :
          /\ ~raises => n = Len(names)
          /\ LET scan == Scanned(w, d, SubSeq(names, 1, n), failing, raises)
             IN  /\ local' = [local EXCEPT ![w] =
                       [table |-> scan.table, kept |-> scan.kept,
                        sample |-> scan.sample]]
                 /\ seenLinks' = scan.links
                 /\ queue' = (queue \ {d}) \cup scan.kids
    /\ UNCHANGED <<flags, threads, merged, res, published>>

-----------------------------------------------------------------------------
(* The merge of one worker's tallies, under merge_lock.                    *)

\* A path that is new is kept while the whole result has room; what was
\* charged to one that is not goes to the overflow.
MergeWatched(r, mine) ==
    LET kept == KeepAll(r.kept, WatchedCap, mine.kept)
        lost == {a \in ToSet(mine.kept) : a \notin ToSet(kept)}
        moved == [k \in Keys |->
                    CASE k[1] = "watch" /\ k[2] \in lost -> NoSlot
                      [] k[1] = "over" /\ k[2] \in lost ->
                           AddSlot(mine.table[k], mine.table[<<"watch", k[2]>>])
                      [] OTHER -> mine.table[k]]
    IN  [r EXCEPT !.kept = kept, !.table = AddTable(@, moved)]

\* The room is not looked at again for a later worker.
MutDropped(listed, new) == Max({0, new - UnreadableCap})

\* How many of a worker's unreadable directories find no room in the list.
Dropped(listed, new) == Max({0, listed + new - Max({listed, UnreadableCap})})

\* Samples stop at their caps.
MergeSamples(r, mine) ==
    LET new == mine.table[<<"unreadable">>].count
    IN  [r EXCEPT
           !.sample = SubSeq(@ \o mine.sample, 1, Min({SampleCap, Len(@ \o mine.sample)})),
           !.listed = @ + Min({new, Max({0, UnreadableCap - r.listed})}),
           !.dropped = @ + Dropped(r.listed, new)]

Merge(w) ==
    /\ ~merged[w]
    /\ queue = {}
    /\ merged' = [merged EXCEPT ![w] = TRUE]
    /\ res' = MergeSamples(MergeWatched(res, local[w]), local[w])
    /\ local' = [local EXCEPT ![w] = NoLocal]
    /\ UNCHANGED <<flags, threads, queue, seenLinks, published>>

\* watched_dropped: the watched directories seen whose path is not kept.
Publish ==
    /\ ~published
    /\ \A w \in Workers : merged[w]
    /\ published' = TRUE
    /\ LET seen == res.table[<<"seen">>].count
       IN  res' = [res EXCEPT !.watchedDropped =
                      IF seen > Len(res.kept) THEN seen - Len(res.kept) ELSE 0]
    /\ UNCHANGED <<flags, threads, queue, seenLinks, local, merged>>

\* account_root: the root is no row, and its tables get its blocks even where
\* a count-only walk leaves the total without any.
RootCharged ==
    LET tables == ChargeTo(NoTable, Owners(Root), Attr[Root].blocks, Attr[Root].size)
    IN  ChargeTo(tables, {<<"dirs">>} \cup (IF flags.count THEN {} ELSE {<<"size">>}),
                 Blocks(Root), Length(Root))

Init ==
    /\ flags \in Modes
    /\ \E r \in Requests, cheap \in BOOLEAN : threads = ChooseThreads(r, cheap)
    /\ queue = {Root}
    /\ seenLinks = {}
    /\ local = [w \in Workers |-> NoLocal]
    /\ merged = [w \in Workers |-> FALSE]
    /\ res = [table |-> RootCharged, kept |-> <<>>, sample |-> <<>>,
              listed |-> 0, dropped |-> 0, watchedDropped |-> 0]
    /\ published = FALSE

Walking == (\E w \in Workers : Scan(w) \/ Merge(w)) \/ Publish

-----------------------------------------------------------------------------
(* What WalkResult derives.                                                *)

Count(k) == res.table[<<k>>].count
Bytes(k) == res.table[<<k>>].bytes
Inodes == Count("files") + Count("dirs") - Count("extra")
UnreadableDirs == res.listed + res.dropped
Complete == UnreadableDirs = 0 /\ Count("unstat") = 0
WatchedSeen == Len(res.kept) + res.watchedDropped

\* other_fs_size and other_fs_inodes, which a count-only walk does not have.
OffRoot(field) ==
    Total(res.table, "dev", field) - res.table[<<"dev", Attr[Root].dev>>][field]

-----------------------------------------------------------------------------
(* Properties.                                                             *)

\* The tables by user, group and filesystem are one population: each adds up to
\* the walk's bytes and to its inodes, directories included and duplicate names
\* not, and the ages add up to its files (walk.py:527-566, 1605-1612).
TablesAgree ==
    published /\ ~flags.count =>
        /\ \A table \in {"uid", "gid", "dev"} :
              /\ Total(res.table, table, "bytes") = Bytes("size")
              /\ Total(res.table, table, "count") = Inodes
        /\ Total(res.table, "age", "count") = Count("files") - Count("extra")

\* The rows partition the tree: those of depth 1 add up to all but the root,
\* and each reported directory to its own inode and the rows below it, whoever
\* scanned what (walk.py:441-473; the remainder row of the report is a
\* subtraction that relies on it).
RowsPartition ==
    published =>
        \A d \in {e \in Dirs : Level(e) < flags.depth} :
            LET sum(field) == SumOver(RowFigures(res.table, field), Children(d))
                own == IF d = Root THEN [count |-> Inodes, bytes |-> Bytes("size")]
                       ELSE res.table[<<"row", d>>]
            IN  own.count > 0 =>
                  /\ own.count = 1 + sum("count")
                  /\ own.bytes = Blocks(d) + sum("bytes")

\* A watched directory that is also a row is worth the same in both tables,
\* when what went to the overflow is added: no worker's cap, and no order of
\* the merges, loses or repeats a byte (walk.py:567-604, 1325-1337, 1829-1843).
WatchedSummedOnce ==
    published =>
        \A a \in {d \in Watched : Level(d) <= flags.depth} :
            LET both == AddSlot(res.table[<<"watch", a>>], res.table[<<"over", a>>])
                row  == res.table[<<"row", a>>]
            IN  both.count = row.count /\ both.bytes = row.bytes

\* What a cap leaves out of a list stays in its count: the watched directories
\* and the unreadable ones are counted exactly, and the re-stat sample is cut
\* short only when it is full (walk.py:605-626, 697-704, 1817-1824).
CountsSurviveCaps ==
    published =>
        /\ WatchedSeen = Count("seen")
        /\ UnreadableDirs = Count("unreadable")
        /\ Len(res.sample) = Min({SampleCap, Count("recent") + Count("touched")})

\* What the files of a tree are taken to be: two names are of one inode only as
\* hard links of one file, on one filesystem, whose link count says so.
HardLinksOnly ==
    \A e, f \in Entries :
        e # f /\ Attr[e].inode = Attr[f].inode =>
            /\ {e, f} \subseteq Files /\ Attr[e].links > 1 /\ Attr[f].links > 1
            /\ Attr[e].dev = Attr[f].dev

\* Below an entry of another filesystem nothing of the root's is mounted again.
NothingMountedBack ==
    \A e \in Entries \ {Root} :
        Attr[Parent[e]].dev # Attr[Root].dev => Attr[e].dev # Attr[Root].dev

\* What is off the root's filesystem is what -x would have left out: every
\* inode at or below an entry on another one (walk.py:725-741), in a tree that
\* has HardLinksOnly and NothingMountedBack.
OffRootIsLeftOut ==
    published /\ Complete /\ ~flags.ofs /\ ~flags.count =>
        LET foreign == {e \in Entries : \E i \in DOMAIN Path[e] :
                            Attr[Path[e][i]].dev # Attr[Root].dev}
        IN  OffRoot("count") = Cardinality({Attr[e].inode : e \in foreign})
=============================================================================

----------------------------- MODULE Reconcile -----------------------------
(***************************************************************************)
(* The comparison of a walk with the quota row that governs it             *)
(* (reconcile.py), over the moments its four inputs are from: the quota    *)
(* daemon computes its figure, the sweep of /proc looks for files that are *)
(* unlinked but open, the figure is read, the tree is walked, and files    *)
(* are unlinked, closed and written between any two of these.              *)
(*                                                                         *)
(* The tree is a few inodes, each of which has a name, is open only, or is *)
(* gone.  `world` is what stays the same during a run: the rows the        *)
(* backend published and the `odd` circumstances, each a reason for the    *)
(* walk, the figure or the sweep to tell less than it seems to.            *)
(*                                                                         *)
(* A filesystem may be cut into parts (GPFS filesets, Lustre projects)     *)
(* that share one mount.  A row is charged with what is in its part, which *)
(* its name may but need not be, and of that with what is the user's or    *)
(* the group's if that is its scope: scope and part are independent.       *)
(***************************************************************************)
EXTENDS Integers, Sequences, FiniteSets, Sums

CONSTANTS
    Inodes, Root,      \* the inodes of the tree, and the walked directory
    Attr,              \* of each: [uid, gid, fileset, links, size]; `fileset` is its part
    Me, Unset,         \* the user; no group, no name, no timestamp
    Unreached,         \* what an incomplete walk misses
    OtherDevice,       \* what is on another filesystem if the tree has two
    Fresh,             \* what was written just now, if anything was
    MayBeOpen,         \* what may be open only from the start
    Hidden,            \* what is held open where an incomplete sweep cannot see
    RowLists,          \* the rows tied for the longest mount above the tree, each
                       \* [kind, scope, fileset, part, group, gid, guessed, covers]:
                       \* its name, the part it is of (Unset: all), the group it
                       \* charges, and the gid that its name resolves to
    Names,             \* the names that directories below a mount may have
    Elsewhere,         \* usage that is neither below the walked directory nor open
    OddSets,           \* the circumstances that there may be at once
    MaxAge, Ages, Walks,        \* --max-snapshot-age; ages and durations
    Fraction,          \* DEFAULT_TOLERANCE_FRACTION is one in Fraction
    MinBlocks, MinFiles,        \* MIN_TOLERANCE_BYTES, MIN_TOLERANCE_FILES
    Share              \* _FLOOR_SHARE_OF_SCALE

ASSUME ReconcileAssumption ==
    /\ IsFiniteSet(Inodes) /\ Root \in Inodes
    /\ OtherDevice \cup Unreached \cup Fresh \cup Hidden \cup MayBeOpen \subseteq Inodes \ {Root}
    /\ \A i \in Inodes : Attr[i].size \in Nat /\ Attr[i].links \in Nat
    /\ \A rows \in RowLists :
          /\ Len(rows) \in Nat /\ DOMAIN rows = 1..Len(rows)
          /\ \A n \in DOMAIN rows : {rows[n].covers, rows[n].guessed} \subseteq BOOLEAN
    /\ Elsewhere \subseteq Nat /\ Ages \subseteq Nat \cup {Unset} /\ Walks \subseteq Nat
    /\ MaxAge \in Nat /\ MinBlocks \in Nat /\ MinFiles \in Nat
    /\ Fraction \in Nat \ {0} /\ Share \in Nat \ {0}

VARIABLES
    world,             \* [rows, kind, elsewhere, measured, hint, odd]
    place,             \* of each inode: "named", "open" or "gone"
    charged,           \* `place` when the quota figure was computed
    swept, walked,     \* what the sweep found open, and what the walk read
    age, elapsed,      \* of the figure when it was read; of the walk
    done,              \* of "figure", "sweep", "read" and "walk": those past
    changed,           \* the values of `done` at which the tree changed
    rec                \* the Reconciliation; Unset before there is one

treeVars == <<place, changed>>
vars == <<world, place, charged, swept, walked, age, elapsed, done, changed, rec>>

Is(o) == o \in world.odd
Matching == {n \in DOMAIN world.rows : world.rows[n].kind = world.kind}

-----------------------------------------------------------------------------
(* What there is to measure.                                               *)

\* Below the walked directory another filesystem may be mounted, which -x omits.
OnRootDevice(i) == ~((Is("crossed") \/ Is("-x")) /\ i \in OtherDevice)
InTree == {i \in Inodes : OnRootDevice(i) \/ Is("crossed")}

\* What a row charges: all in its part, or what is the user's or the group's there.
Counts(row, i) ==
    /\ OnRootDevice(i)
    /\ row.part # Unset => Attr[i].fileset = row.part
    /\ row.scope = "user" => Attr[i].uid = Me
    /\ row.scope = "group" => Attr[i].gid = row.group
SizeOf == [i \in Inodes |-> Attr[i].size]
Size(set, kind) ==
    IF kind = "files" THEN Cardinality(set)
    ELSE SumOver(SizeOf, set)

\* The figure that the quota manager publishes for a row.
Used(row) ==
    world.elsewhere +
        Size({i \in Inodes : charged[i] # "gone" /\ Counts(row, i)}, world.kind)

-----------------------------------------------------------------------------
(* What the walk and the sweep report.                                     *)

Floor == {"refused", "vanished", "unstatable", "vanished entry", "stopped"}
IsFloor == world.odd \cap Floor # {}

\* Fresh files have no blocks yet when the walk reads them.
Blocks(set) ==
    SumOver(SizeOf, set \ (IF Is("unsettled") \/ Is("moved") THEN Fresh ELSE {}))
Links(set) == SumOver([i \in Inodes |-> Attr[i].links], set)

\* Of the inodes it read, those for which a column of by_uid and by_gid counts:
\* a count-only walk has an owner for its root only.
Owned(who) == {i \in walked \cap who : Is("-c") => i = Root}

\* res.size and res.inodes.
WalkTotal(kind) ==
    IF kind = "files" THEN IF Is("-c") THEN Links(walked) ELSE Cardinality(walked)
    ELSE IF Is("-c") THEN Attr[Root].size ELSE Blocks(walked)
WalkPart(who, kind) ==
    IF kind = "files" THEN Cardinality(Owned(who)) ELSE Blocks(Owned(who))

-----------------------------------------------------------------------------
(* The choice of the row.                                                  *)

\* The first component of the path below the mount.
FilesetHint(row) == IF row.covers THEN Unset ELSE world.hint

ScopeRank(scope) ==
    CASE scope = "user" -> 0 [] scope = "project" -> 1
      [] scope = "fileset" -> 2 [] scope = "group" -> 3 [] OTHER -> 4

\* The measured fileset, else what the path suggests.
Key == IF world.measured # Unset THEN world.measured
       ELSE IF \E n \in Matching : FilesetHint(world.rows[n]) # Unset THEN world.hint
       ELSE Unset

\* The first of the most narrowly scoped, among those of that name if there are.
PickRow ==
    LET named == {n \in Matching : world.rows[n].fileset = Key}
        pool  == IF Cardinality(Matching) = 1 \/ named = {} THEN Matching ELSE named
        best  == {n \in pool : \A k \in pool :
                    ScopeRank(world.rows[n].scope) <= ScopeRank(world.rows[k].scope)}
    IN  world.rows[Min(best)]

-----------------------------------------------------------------------------
(* The comparison.                                                         *)

Tolerance(used, kind) ==
    Max({used \div Fraction, IF kind = "files" THEN MinFiles ELSE MinBlocks})

\* The absolute floor never absorbs more than a tenth of what is compared.
EffectiveTolerance(used, accounted, kind) ==
    LET scale == Max({used, accounted})
    IN  IF scale = 0 THEN Tolerance(used, kind)
        ELSE Min({Tolerance(used, kind), Max({scale \div Share, 1})})

\* The group a row is charged to, if its name is one.
RowGid(row) == IF row.scope = "group" THEN row.gid ELSE Unset
Narrowed(row) == row.scope = "user" \/ RowGid(row) # Unset

\* Only the walk is narrowed to the population of the row.
MutMine(row) == swept

\* Of the open inodes: the user's, the group's, or all.
Mine(row) ==
    CASE row.scope = "user"   -> {i \in swept : Attr[i].uid = Me}
      [] RowGid(row) # Unset  -> {i \in swept : Attr[i].gid = RowGid(row)}
      [] OTHER                -> swept

WalkValue(row) ==
    CASE row.scope = "user"  -> WalkPart({i \in Inodes : Attr[i].uid = Me}, row.kind)
      [] RowGid(row) # Unset -> WalkPart({i \in Inodes : Attr[i].gid = RowGid(row)}, row.kind)
      [] OTHER               -> WalkTotal(row.kind)

\* The age of the figure when it was read, whatever has passed since.
MutApart == age

\* How far apart the figure and the end of the walk are.
Apart == age + elapsed

Stale == age = Unset \/ Apart > MaxAge
Unsettled == /\ world.kind = "blocks" /\ walked \cap Fresh # {}
             /\ Is("unsettled") \/ Is("moved")

\* What makes the comparison unsafe.
Blockers(row) ==
    (IF Stale THEN {"stale"} ELSE {}) \cup
    (IF Unsettled THEN {"unsettled"} ELSE {}) \cup
    (IF row.guessed THEN {"guessed mount"} ELSE {}) \cup
    (IF Is("crossed") /\ ~Is("-c") THEN {"crossed"} ELSE {}) \cup
    (world.odd \cap (Floor \cup {"-c", "disowned"}))

\* What the sweep could not see, and what else may explain a difference.
Candidates(row, gap) ==
    IF gap > 0
      THEN (IF Is("no sweep") THEN {"any node"}
            ELSE {"other nodes"} \cup
                 (world.odd \cap {"other users", "namespaced", "given up"})) \cup
           (IF row.scope # "user" THEN {"members"} ELSE {}) \cup {"snapshots"} \cup
           (IF row.kind = "blocks" THEN {"accounting"} ELSE {})
      ELSE {"recent writes"} \cup
           (IF row.kind = "blocks" THEN {"sparse"} ELSE {})

NotCompared ==
    [verdict |-> "not compared", row |-> Unset, accounted |-> 0, gap |-> 0,
     tolerance |-> 0, candidates |-> {}]

\* A walk that did not stat has no bytes and no owners.
CannotAnswer(row) == Is("-c") /\ (row.kind = "blocks" \/ row.scope = "user")

\* An agreement is an agreement, however it was reached.
MutVerdict(row, agrees) ==
    CASE ~row.covers                                 -> "subtree"
      [] row.covers /\ agrees                        -> "closes"
      [] row.covers /\ ~agrees /\ Blockers(row) # {} -> "inconclusive"
      [] OTHER                                       -> "gap"

\* Neither an agreement nor a difference is believed while there is a blocker.
Verdict(row, agrees) ==
    CASE ~row.covers                                 -> "subtree"
      [] row.covers /\ Blockers(row) # {}            -> "inconclusive"
      [] row.covers /\ Blockers(row) = {} /\ agrees  -> "closes"
      [] OTHER                                       -> "gap"

Compared(row) ==
    LET accounted == WalkValue(row) + Size(Mine(row), row.kind)
        gap       == Used(row) - accounted
        tolerance == EffectiveTolerance(Used(row), accounted, row.kind)
        agrees    == gap \in -tolerance..tolerance
        verdict   == Verdict(row, agrees)
        explains  == CASE verdict = "subtree" -> gap < 0
                       [] verdict = "inconclusive" -> ~agrees
                       [] OTHER -> verdict = "gap"
    IN  IF Narrowed(row) /\ accounted = 0 /\ (WalkTotal("blocks") > 0 \/ WalkTotal("files") > 0)
        THEN NotCompared
        ELSE [verdict |-> verdict, row |-> row, accounted |-> accounted, gap |-> gap,
              tolerance |-> tolerance,
              candidates |-> IF explains THEN Candidates(row, gap) ELSE {}]

Reconciliation ==
    IF Is("no backend") \/ Matching = {} \/ CannotAnswer(PickRow)
    THEN NotCompared
    ELSE Compared(PickRow)

-----------------------------------------------------------------------------
Init ==
    /\ \E rows \in RowLists, kind \in {"blocks", "files"}, out \in Elsewhere,
          measured \in {Attr[Root].fileset, Unset}, hint \in Names \cup {Unset},
          odd \in OddSets :
          /\ hint # Unset => \E n \in DOMAIN rows : ~rows[n].covers
          /\ world = [rows |-> rows, kind |-> kind, elsewhere |-> out,
                      measured |-> measured, hint |-> hint, odd |-> odd]
    /\ place \in {[i \in Inodes |-> IF i \in set THEN "open" ELSE "named"] :
                    set \in SUBSET MayBeOpen}
    /\ charged = place /\ swept = {} /\ walked = {}
    /\ age = Unset /\ elapsed = 0
    /\ done = {} /\ changed = {}
    /\ rec = Unset

\* A file is unlinked, closed, or written anew.
Change ==
    /\ "walk" \notin done /\ changed = {}
    /\ \E i \in Inodes \ {Root}, p \in {"named", "open", "gone"} :
          /\ place[i] # p /\ (p = "named" => place[i] = "gone")
          /\ (p = "open" => place[i] = "named")
          /\ place' = [place EXCEPT ![i] = p]
    /\ changed' = changed \cup {done}
    /\ UNCHANGED <<world, charged, swept, walked, age, elapsed, done, rec>>

\* The quota manager's, at any moment before its figure is read.
ComputeFigure ==
    /\ "figure" \notin done
    /\ charged' = place
    /\ done' = done \cup {"figure"}
    /\ UNCHANGED <<world, treeVars, swept, walked, age, elapsed, rec>>

\* The sweep comes before the quota is read and the tree is walked.
Sweep ==
    /\ done \subseteq {"figure"}
    /\ swept' = {i \in Inodes : /\ place[i] = "open" /\ ~Is("no sweep")
                                /\ ~(i \in Hidden /\ world.odd \cap
                                       {"other users", "namespaced", "given up"} # {})}
    /\ done' = done \cup {"sweep"}
    /\ UNCHANGED <<world, treeVars, charged, walked, age, elapsed, rec>>

\* Nothing can have happened in no time.
Read ==
    /\ done = {"figure", "sweep"}
    /\ age' \in Ages
    /\ age' = 0 => \A d \in changed : "figure" \notin d
    /\ done' = done \cup {"read"}
    /\ UNCHANGED <<world, treeVars, charged, swept, walked, elapsed, rec>>

Walk ==
    /\ done = {"figure", "sweep", "read"}
    /\ walked' = {i \in InTree : place[i] = "named" /\ ~(IsFloor /\ i \in Unreached)}
    /\ elapsed' \in Walks
    /\ elapsed' = 0 => \A d \in changed : "read" \notin d
    /\ done' = done \cup {"walk"}
    /\ UNCHANGED <<world, treeVars, charged, swept, age, rec>>

Compare ==
    /\ "walk" \in done /\ rec = Unset
    /\ rec' = Reconciliation
    /\ UNCHANGED <<world, treeVars, charged, swept, walked, age, elapsed, done>>

Next == Change \/ ComputeFigure \/ Sweep \/ Read \/ Walk \/ Compare

Spec == Init /\ [][Next]_vars

-----------------------------------------------------------------------------
(* Properties.                                                             *)

\* The name of a group's row may be that of another group: of a fileset, say.
Misnamed(row) == row.scope = "group" /\ row.gid \notin {row.group, Unset}

Seen(row) == {i \in walked \cup swept : Counts(row, i)}

\* What the row is not charged with, and the comparison lets in: it narrows
\* what it found by the owner or the group only.  So this is in another part of a
\* mount that several share, or of any group if the row's did not resolve, or on
\* a filesystem that a walk crossed into, or that -x left out and the sweep did not.
Foreign(row) ==
    {i \in walked \cup swept :
        /\ ~Counts(row, i)
        /\ row.scope = "user" => Attr[i].uid = Me
        /\ RowGid(row) # Unset => Attr[i].gid = RowGid(row)}

Announced(verdict) == rec # Unset /\ rec.verdict = verdict /\ ~Misnamed(rec.row)

\* Moments at which the tree changed: after the figure was computed, and after
\* the sweep but before that.
SinceFigure == \E d \in changed : "figure" \in d
SweepOutrun == \E d \in changed : "sweep" \in d /\ "figure" \notin d

\* Of what the row is charged with, what neither the walk nor the sweep can see.
Unseen(row) ==
    world.elsewhere +
        Size({i \in Inodes : charged[i] = "open" /\ i \notin swept /\ Counts(row, i)},
             row.kind)

\* What is accounted for is all that was found of what the row counts, in both
\* halves, and nothing else but what is foreign; whatever the kind, the scope,
\* the part and the verdict (reconcile.py:466-554).
PopulationsMatch ==
    (\E v \in {"subtree", "closes", "gap"} : Announced(v)) /\ ~Is("-c") /\ ~Unsettled =>
    rec.accounted = Size(Seen(rec.row), world.kind) + Size(Foreign(rec.row), world.kind)

\* A gap is exactly what the row is charged with and no one could see, less what
\* is foreign and was let in (which no blocker is about), or the tree changed
\* within the age that the caller accepts (reconcile.py:12-18, 384-402, 659-712;
\* tests/test_reconcile_age_at_walk_end.py).
GapIsExact ==
    Announced("gap") /\ ~SweepOutrun =>
        IF SinceFigure THEN age # Unset /\ age + elapsed <= MaxAge
        ELSE /\ rec.gap = Unseen(rec.row) - Size(Foreign(rec.row), world.kind)
             /\ rec.gap \notin -rec.tolerance..rec.tolerance

\* An all-clear means that what no one could see and what is foreign differ by
\* no more than a tenth of what was compared, or one unit, or that the tree
\* changed within the accepted age (reconcile.py:115-143, 827-848).
CloseIsSound ==
    Announced("closes") /\ ~SweepOutrun =>
        IF SinceFigure THEN age # Unset /\ age + elapsed <= MaxAge
        ELSE LET apart == Unseen(rec.row) - Size(Foreign(rec.row), world.kind)
             IN  \/ apart \in -1..1
                 \/ \A d \in {apart, -apart} :
                       d * Share <= Max({Used(rec.row), rec.accounted})

\* A difference that is called a finding has its cause before the figure was
\* computed in nothing that the sweep could have seen: the sweep is later than
\* the end of the walk (reconcile.py:686-687).
SweepIsLast ==
    Announced("gap") /\ ~SinceFigure =>
        rec.gap = Unseen(rec.row) - Size(Foreign(rec.row), world.kind)
=============================================================================

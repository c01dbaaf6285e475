------------------------------- MODULE Report -------------------------------
(***************************************************************************)
(* What the report makes of a walk and its re-stat (report.py): which rows *)
(* are listed and what is said of the rest, the total that could be        *)
(* reclaimed, and the verdicts on whether the total still moves, each of   *)
(* which is worked out in more than one place.                             *)
(***************************************************************************)
EXTENDS Settle

CONSTANTS
    Place,             \* of each entry: its place in the order of the paths
    Tops,              \* the values of -n; 0 lists everything
    FloorInodes, FloorShare,    \* density_floor: so many inodes, or that share
    Pattern,           \* of some watched directories: the rule they match
    MaterialFiles, MaterialShare, MaterialBytes

ASSUME ReportAssumption ==
    /\ DOMAIN Pattern \subseteq Watched
    /\ Place \in [Entries -> Nat]
    /\ \A a, b \in Entries : Place[a] = Place[b] => a = b
    /\ Tops \subseteq Nat
    /\ {FloorInodes, MaterialFiles, MaterialBytes} \subseteq Nat
    /\ {FloorShare, MaterialShare} \subseteq Nat \ {0}

-----------------------------------------------------------------------------
(* Rankings.                                                               *)

SortKeys == {"size", "files", "density"}
SortKey(sort) == IF flags.count THEN "files" ELSE sort
Limit(top) == IF top > 0 THEN top ELSE Cardinality(Entries)

Row(e) == res.table[<<"row", e>>]
Rows == {e \in Entries \ {Root} : Row(e).count > 0}
SumRows(rows, field) == SumOver(RowFigures(res.table, field), rows)

DensityFloor == Max({FloorInodes, Inodes \div FloorShare})
Qualifies(e, key) ==
    key = "density" => Row(e).count >= DensityFloor /\ Row(e).bytes > 0

\* The two measures of a that rank it against b; densities are compared
\* crosswise.
Merit(a, b, key) ==
    CASE key = "files"   -> <<Row(a).count, Row(a).bytes>>
      [] key = "size"    -> <<Row(a).bytes, Row(a).count>>
      [] key = "density" -> <<Row(a).count * Row(b).bytes, Row(a).count>>

\* Ties go to the second measure, then to the path.
Ahead(a, b, key) ==
    LET x == Merit(a, b, key)
        y == Merit(b, a, key)
    IN  \/ x[1] > y[1]
        \/ x[1] = y[1] /\ x[2] > y[2]
        \/ x = y /\ Place[a] < Place[b]

\* The best n of them.
TopDirs(n, key) ==
    LET rows == {e \in Rows : Qualifies(e, key)}
    IN  {e \in rows : Cardinality({b \in rows : Ahead(b, e, key)}) < n}

-----------------------------------------------------------------------------
(* What is listed, and what is said of the rest.                           *)

OtherCount(shown) == Max({0, Cardinality(Rows) - Cardinality(shown)})

\* Rows below other rows are taken for a partition too.
MutPartition == Rows # {}

\* Rows below other rows are no partition of the tree.
Partition == Rows # {} /\ \A e \in Rows : Parent[e] = Root

Rest(shown, field, whole) ==
    Max({0, whole - SumRows(shown, field)})
RestOf(shown) ==
    [count |-> Rest(shown, "count", Inodes), bytes |-> Rest(shown, "bytes", Bytes("size"))]

\* Hidden rows that have no figures are not mentioned.
MutSaysHidden(hidden, showRest, key) == FALSE

\* Hidden rows that have no figures are mentioned all the same.
SaysHidden(hidden, showRest, key) == hidden > 0 /\ ~showRest /\ key # "density"

\* The table of entries, with or without a row for the rest.
EntryRows(top, key) ==
    LET shown  == TopDirs(Limit(top), key)
        hidden == IF shown = {} THEN 0 ELSE OtherCount(shown)
        rest   == RestOf(shown)
        showRest == /\ hidden > 0 /\ (rest.bytes > 0 \/ rest.count > 0)
                    /\ key # "density" /\ Partition
    IN  [shown |-> shown, hidden |-> hidden, rest |-> rest, showRest |-> showRest,
         sayHidden |-> SaysHidden(hidden, showRest, key)]

\* The note under a ranking by density: too small, and cut off by -n.
DensityNote(top) ==
    LET qualifying == Cardinality(TopDirs(Limit(0), "density"))
    IN  [below |-> Max({0, Cardinality(Rows) - qualifying}),
         truncated |-> Max({0, qualifying - Cardinality(TopDirs(Limit(top), "density"))})]

\* The same in the JSON document: a count, and figures for two rankings.
TopHidden(top) ==
    LET bySize  == TopDirs(Limit(top), SortKey("size"))
        byFiles == TopDirs(Limit(top), "files")
        hidden  == OtherCount(bySize)
    IN  [count |-> hidden, known |-> hidden > 0 /\ Partition,
         size |-> RestOf(bySize), files |-> RestOf(byFiles)]

-----------------------------------------------------------------------------
(* What could be reclaimed.                                                *)

\* What a matching directory is worth: its tracked total, else its row.
Worth(a) == IF a \in ToSet(res.kept) THEN res.table[<<"watch", a>>] ELSE Row(a)
Matched == {a \in DOMAIN Pattern : a \in ToSet(res.kept) \/ a \in Rows}

\* A match inside another is listed beside it.
MutNested(a) == FALSE

\* A match inside another is part of its total.
Nested(a) == \E b \in Matched \ {a} : b \in ToSet(Path[a])

\* The matches of each rule, and their total over every rule.
ReclaimableGroups ==
    LET hits == {a \in Matched : ~Nested(a)}
    IN  [rule \in {Pattern[a] : a \in hits} |-> {a \in hits : Pattern[a] = rule}]
GroupsTotal(field) ==
    LET hits == UNION Range(ReclaimableGroups)
    IN  SumOver([a \in Watched |-> Worth(a)[field]], hits)

\* The total under the list, what the cap gave up included.
Reclaimable(field) == GroupsTotal(field) + Total(res.table, "over", field)

-----------------------------------------------------------------------------
(* Whether the total still moves.                                          *)

RecentApparent == res.table[<<"recent">>].apparent + res.table[<<"touched">>].apparent
RecentSize == Bytes("recent") + Bytes("touched")
Unlanded == Max({0, RecentApparent - RecentSize})

SettlingIsMaterial ==
    /\ Population > 0
    /\ \/ Population >= Max({MaterialFiles, Inodes \div MaterialShare})
       \/ RecentApparent >= MaterialBytes

\* At least half of the total belonged to files that are gone.
Freed ==
    /\ ~flags.count
    /\ chk.goneBytes > 0 /\ chk.goneBytes >= Bytes("size") - chk.goneBytes

\* `headline_provisional` of the JSON document.
HeadlineIsProvisional ==
    /\ ~flags.count
    /\ \/ Moved
       \/ Freed
       \/ ~Conclusive /\ Unlanded > 0 /\ Unlanded >= Bytes("size")

\* What was freed since the walk does not count against it.
MutSettled ==
    IF flags.count THEN Unset
    ELSE IF Population = 0 THEN TRUE
    ELSE IF Conclusive THEN ~Moved ELSE Unset

\* `settled` of the JSON document; Unset is null.
Settled ==
    IF flags.count THEN Unset
    ELSE IF Population = 0 THEN TRUE
    ELSE IF Conclusive THEN ~Moved /\ ~Freed ELSE Unset

\* The line under the total where the settling section is not printed.
ProvisionalNote ==
    CASE Moved -> "none"
      [] ~Moved /\ Freed -> "freed"
      [] ~Moved /\ ~Freed /\ HeadlineIsProvisional -> "unallocated"
      [] ~Moved /\ ~Freed /\ ~HeadlineIsProvisional ->
            IF chk.ran /\ ~Conclusive /\ SettlingIsMaterial THEN "too close" ELSE "none"

\* The settling section: a line where little is recent, else a paragraph.
SettleLine ==
    IF Conclusive THEN IF Freed THEN "freed" ELSE "settled"
    ELSE IF MeasuredNothing THEN "nothing left" ELSE "provisional"
SettleSection ==
    IF Moved THEN "moving"
    ELSE IF Conclusive /\ Freed THEN "freed"
    ELSE IF Conclusive THEN "settled"
    ELSE IF MeasuredNothing THEN "nothing left" ELSE "provisional"
RenderSettle ==
    IF Population = 0 THEN "absent"
    ELSE IF ~Moved /\ ~SettlingIsMaterial THEN SettleLine ELSE SettleSection

-----------------------------------------------------------------------------
(* Properties.                                                             *)

\* The tables are the same from here on, so they are looked at once.
JustPublished == published /\ pos = 0 /\ changes = 0

\* The row "(n more)" is worth exactly the rows that are not listed and the
\* root itself, under every ranking and -n (report.py:1375-1416, 1827).
RestIsWhatIsHidden ==
    JustPublished => \A top \in Tops, sort \in SortKeys :
        LET rows == EntryRows(top, SortKey(sort))
            unlisted == Rows \ rows.shown
        IN  rows.showRest =>
              /\ rows.hidden = Cardinality(unlisted)
              /\ rows.rest.count = 1 + SumRows(unlisted, "count")
              /\ rows.rest.bytes = Blocks(Root) + SumRows(unlisted, "bytes")

\* No row is hidden without a word, and the JSON document has figures for what
\* is hidden exactly when the table has, and the same ones (report.py:1416-1428,
\* 1552-1625, 3696-3826).
NothingHiddenUnsaid ==
    JustPublished => \A top \in Tops, sort \in SortKeys :
        LET key  == SortKey(sort)
            rows == EntryRows(top, key)
            note == DensityNote(top)
            json == TopHidden(top)
            unlisted == Cardinality(Rows) - Cardinality(rows.shown)
        IN  IF key = "density" THEN unlisted = note.below + note.truncated
            ELSE /\ rows.showRest \/ rows.sayHidden <=> unlisted > 0
                 /\ unlisted = json.count
                 /\ rows.showRest <=> json.known
                 /\ rows.rest = (IF key = "files" THEN json.files ELSE json.size)

\* The matches that are listed are worth no more than the tree: none is counted
\* in another, and none twice for being tracked and a row (report.py:945-998).
MatchesCountOnce ==
    JustPublished => /\ GroupsTotal("bytes") <= Bytes("size")
                 /\ GroupsTotal("count") <= Inodes

\* As report.py:955-956 has it of a match inside another, whose bytes are part
\* of the other's total "already, so reporting both counts the same bytes
\* twice": the total under the list counts nothing twice.
ReclaimableCountsOnce ==
    JustPublished => /\ Reclaimable("bytes") <= Bytes("size")
                 /\ Reclaimable("count") <= Inodes

\* The four verdicts on whether the total still moves agree: no view calls a
\* total settled that another calls provisional, and none that is provisional
\* goes without a word (report.py:2580-2853, 3210-3355, 4196-4251).
VerdictsAgree ==
    published /\ (pos = 0 \/ Rechecked) =>
        /\ Settled = TRUE => /\ ~HeadlineIsProvisional /\ ProvisionalNote = "none"
                             /\ RenderSettle \in {"absent", "settled"}
        /\ RenderSettle = "settled" => Settled = TRUE
        /\ HeadlineIsProvisional =>
              /\ Moved <=> RenderSettle = "moving"
              /\ ~Moved => ProvisionalNote # "none" /\ RenderSettle # "settled"
=============================================================================

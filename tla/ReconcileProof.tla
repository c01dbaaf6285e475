--------------------------- MODULE ReconcileProof ---------------------------
(***************************************************************************)
(* What a verdict of the reconciliation means, for every tree, every list  *)
(* of rows and every circumstance of module Reconcile: what is accounted   *)
(* for is what was found of the row's population and what is foreign to it *)
(* and was let in, a gap that is called one is what no one could see less  *)
(* what is foreign, and an all-clear bounds the difference of these two.   *)
(* Nothing is assumed of the filesets that the tree lies in.               *)
(*                                                                         *)
(* Which moments the inputs are from is the invariant's part; that the     *)
(* populations add up is arithmetic of the state after the walk.           *)
(***************************************************************************)
EXTENDS Reconcile, SetLemmas

Places == {"named", "open", "gone"}

-----------------------------------------------------------------------------
(* The inductive invariant.                                                *)

WorldFixed ==
    /\ world.rows \in RowLists /\ world.kind \in {"blocks", "files"}
    /\ world.elsewhere \in Nat

InOrder ==
    /\ done \subseteq {"figure", "sweep", "read", "walk"}
    /\ "read" \in done => {"figure", "sweep"} \subseteq done
    /\ "walk" \in done => "read" \in done
    /\ \A d \in changed : d \subseteq done

Types ==
    /\ place \in [Inodes -> Places] /\ charged \in [Inodes -> Places]
    /\ age \in Nat \cup {Unset} /\ elapsed \in Nat

\* Unless the tree changed since, the figure is of the tree as it is.
FigureIsOf ==
    "figure" \in done /\ (\A d \in changed : "figure" \notin d) => charged = place

\* What the sweep found open has not been given a name since, and is open still
\* unless the tree changed since.
SweepIsOf ==
    /\ swept \subseteq Inodes
    /\ "sweep" \notin done => swept = {}
    /\ \A i \in swept : place[i] # "named"
    /\ (\A d \in changed : "sweep" \notin d) => \A i \in swept : place[i] = "open"

\* The tree does not change after the walk.
WalkIsOf ==
    IF "walk" \in done
    THEN walked = {i \in InTree : place[i] = "named" /\ ~(IsFloor /\ i \in Unreached)}
    ELSE walked = {}

\* None of what is compared changes after the comparison.
RecIsOf == rec = Unset \/ ("walk" \in done /\ rec = Reconciliation)

Inductive ==
    /\ WorldFixed /\ InOrder /\ Types
    /\ FigureIsOf /\ SweepIsOf /\ WalkIsOf /\ RecIsOf

-----------------------------------------------------------------------------
(* The comparison is a function of what was gathered.                      *)

Gathered == <<world, charged, swept, walked, age, elapsed>>

LEMMA SameTree ==
    ASSUME UNCHANGED Gathered
    PROVE  /\ \A o : Is(o)' = Is(o)
           /\ Matching' = Matching
           /\ \A row, i : Counts(row, i)' = Counts(row, i)
           /\ \A set, kind : Size(set, kind)' = Size(set, kind)
           /\ \A set : Blocks(set)' = Blocks(set) /\ Links(set)' = Links(set)
           /\ \A who : Owned(who)' = Owned(who)
           /\ InTree' = InTree /\ IsFloor' = IsFloor
<1>1. world' = world /\ charged' = charged /\ swept' = swept /\ walked' = walked
      /\ age' = age /\ elapsed' = elapsed
  BY DEF Gathered
<1>2. \A o : Is(o)' = Is(o)
  BY <1>1 DEF Is
<1>3. Matching' = Matching
  BY <1>1 DEF Matching
<1>4. \A i : OnRootDevice(i)' = OnRootDevice(i)
  BY <1>1 DEF OnRootDevice, Is
<1>5. \A row, i : Counts(row, i)' = Counts(row, i)
  BY <1>4 DEF Counts
<1>6. \A set, kind : Size(set, kind)' = Size(set, kind)
  BY DEF Size
<1>7. \A set : Blocks(set)' = Blocks(set) /\ Links(set)' = Links(set)
  BY <1>1 DEF Blocks, Links, Is
<1>8. \A who : Owned(who)' = Owned(who)
  BY <1>1 DEF Owned, Is
<1>9. InTree' = InTree /\ IsFloor' = IsFloor
  BY <1>1 DEF InTree, IsFloor, OnRootDevice, Is
<1> QED
  BY <1>2, <1>3, <1>5, <1>6, <1>7, <1>8, <1>9

LEMMA SameSides ==
    ASSUME UNCHANGED Gathered
    PROVE  /\ \A row : Used(row)' = Used(row)
           /\ \A row : WalkValue(row)' = WalkValue(row)
           /\ \A row : Mine(row)' = Mine(row)
           /\ \A kind : WalkTotal(kind)' = WalkTotal(kind)
<1>1. world' = world /\ charged' = charged /\ swept' = swept /\ walked' = walked
      /\ age' = age /\ elapsed' = elapsed
  BY DEF Gathered
<1>2. \A row : Used(row)' = Used(row)
  BY <1>1, SameTree DEF Used
<1>3. \A row : Mine(row)' = Mine(row)
  BY <1>1 DEF Mine, RowGid
<1>4. \A kind : WalkTotal(kind)' = WalkTotal(kind)
  BY <1>1, SameTree DEF WalkTotal
<1>5. \A who, kind : WalkPart(who, kind)' = WalkPart(who, kind)
  BY <1>1, SameTree DEF WalkPart
<1>6. \A row : WalkValue(row)' = WalkValue(row)
  BY <1>4, <1>5 DEF WalkValue, RowGid
<1> QED
  BY <1>2, <1>3, <1>4, <1>6

LEMMA SameRow == ASSUME UNCHANGED Gathered PROVE PickRow' = PickRow
<1>1. world' = world
  BY DEF Gathered
<1>2. Key' = Key
  BY <1>1, SameTree DEF Key, FilesetHint
<1> QED
  BY <1>1, <1>2, SameTree DEF PickRow

LEMMA SameReconciliation ==
    ASSUME UNCHANGED Gathered PROVE Reconciliation' = Reconciliation
<1>1. world' = world /\ charged' = charged /\ swept' = swept /\ walked' = walked
      /\ age' = age /\ elapsed' = elapsed
  BY DEF Gathered
<1>2. \A row, gap : Candidates(row, gap)' = Candidates(row, gap)
  BY <1>1, SameTree DEF Candidates
<1>3. \A row : Blockers(row)' = Blockers(row)
  BY <1>1, SameTree DEF Blockers, Stale, Apart, Unsettled
<1>4. \A row, agrees : Verdict(row, agrees)' = Verdict(row, agrees)
  BY <1>3 DEF Verdict
<1>5. \A row : Compared(row)' = Compared(row)
  BY <1>2, <1>4, SameTree, SameSides DEF Compared
<1>6. \A row : CannotAnswer(row)' = CannotAnswer(row)
  BY SameTree DEF CannotAnswer
<1> QED
  BY <1>5, <1>6, SameTree, SameRow DEF Reconciliation, NotCompared

-----------------------------------------------------------------------------
(* The invariant holds.                                                    *)

LEMMA InitInductive == Init => Inductive
<1> SUFFICES ASSUME Init PROVE Inductive
  OBVIOUS
<1>1. WorldFixed
  <2>1. PICK rows \in RowLists, kind \in {"blocks", "files"}, out \in Elsewhere,
             measured \in {Attr[Root].fileset, Unset}, hint \in Names \cup {Unset}, odd \in OddSets :
             world = [rows |-> rows, kind |-> kind, elsewhere |-> out,
                      measured |-> measured, hint |-> hint, odd |-> odd]
    BY DEF Init
  <2>2. out \in Nat
    BY <2>1, ReconcileAssumption
  <2> QED
    BY <2>1, <2>2 DEF WorldFixed
<1>2. place \in [Inodes -> Places]
  BY DEF Init, Places
<1>3. /\ charged = place /\ swept = {} /\ walked = {} /\ age = Unset /\ elapsed = 0
      /\ done = {} /\ changed = {} /\ rec = Unset
  BY DEF Init
<1> QED
  BY <1>1, <1>2, <1>3
     DEF Inductive, InOrder, Types, FigureIsOf, SweepIsOf, WalkIsOf, RecIsOf

LEMMA ChangeKeeps == ASSUME Inductive, Change PROVE Inductive'
<1>1. /\ "walk" \notin done /\ changed = {} /\ changed' = {done}
      /\ world' = world /\ charged' = charged /\ swept' = swept /\ walked' = walked
      /\ age' = age /\ elapsed' = elapsed /\ done' = done /\ rec' = rec
  BY DEF Change
<1>2. PICK i \in Inodes \ {Root}, p \in Places :
         /\ place[i] # p /\ (p = "named" => place[i] = "gone")
         /\ (p = "open" => place[i] = "named")
         /\ place' = [place EXCEPT ![i] = p]
  BY DEF Change, Places
<1>3. place \in [Inodes -> Places] /\ \A j \in swept : j \in Inodes /\ place[j] = "open"
  BY <1>1 DEF Inductive, Types, SweepIsOf
<1>4. WorldFixed' /\ InOrder' /\ Types'
  BY <1>1, <1>2, <1>3 DEF Inductive, WorldFixed, InOrder, Types
<1>5. FigureIsOf'
  <2>1. CASE "figure" \in done
    BY <1>1, <2>1 DEF FigureIsOf
  <2>2. CASE "figure" \notin done
    BY <1>1, <2>2 DEF FigureIsOf
  <2> QED
    BY <2>1, <2>2
<1>6. SweepIsOf'
  <2>1. \A j \in swept : place'[j] # "named"
    BY <1>2, <1>3
  <2>2. "sweep" \notin done => swept = {}
    BY DEF Inductive, SweepIsOf
  <2>3. (\A d \in changed' : "sweep" \notin d) => \A j \in swept : place'[j] = "open"
    BY <1>1, <2>2
  <2> QED
    BY <1>1, <1>3, <2>1, <2>2, <2>3 DEF SweepIsOf
<1>7. WalkIsOf' /\ RecIsOf'
  BY <1>1 DEF Inductive, WalkIsOf, RecIsOf
<1> QED
  BY <1>4, <1>5, <1>6, <1>7 DEF Inductive

LEMMA ComputeKeeps == ASSUME Inductive, ComputeFigure PROVE Inductive'
<1>1. /\ "figure" \notin done /\ charged' = place /\ done' = done \cup {"figure"}
      /\ world' = world /\ place' = place /\ changed' = changed /\ swept' = swept
      /\ walked' = walked /\ age' = age /\ elapsed' = elapsed /\ rec' = rec
  BY DEF ComputeFigure, treeVars
<1>2. "walk" \notin done /\ "walk" \notin done'
  BY <1>1 DEF Inductive, InOrder
<1>3. WorldFixed' /\ InOrder' /\ Types'
  BY <1>1 DEF Inductive, WorldFixed, InOrder, Types
<1>4. FigureIsOf' /\ SweepIsOf'
  BY <1>1 DEF Inductive, FigureIsOf, SweepIsOf
<1>5. WalkIsOf' /\ RecIsOf'
  BY <1>1, <1>2 DEF Inductive, WalkIsOf, RecIsOf
<1> QED
  BY <1>3, <1>4, <1>5 DEF Inductive

LEMMA SweepKeeps == ASSUME Inductive, Sweep PROVE Inductive'
<1>1. /\ done \subseteq {"figure"} /\ done' = done \cup {"sweep"}
      /\ world' = world /\ place' = place /\ changed' = changed /\ charged' = charged
      /\ walked' = walked /\ age' = age /\ elapsed' = elapsed /\ rec' = rec
  BY DEF Sweep, treeVars
<1>2. swept' \subseteq Inodes /\ \A i \in swept' : place[i] = "open"
  BY DEF Sweep
<1>3. "walk" \notin done /\ "walk" \notin done'
  BY <1>1
<1>4. WorldFixed' /\ InOrder' /\ Types'
  BY <1>1 DEF Inductive, WorldFixed, InOrder, Types
<1>5. FigureIsOf' /\ SweepIsOf'
  BY <1>1, <1>2 DEF Inductive, FigureIsOf, SweepIsOf
<1>6. WalkIsOf' /\ RecIsOf'
  BY <1>1, <1>3 DEF Inductive, WalkIsOf, RecIsOf
<1> QED
  BY <1>4, <1>5, <1>6 DEF Inductive

LEMMA ReadKeeps == ASSUME Inductive, Read PROVE Inductive'
<1>1. /\ done = {"figure", "sweep"} /\ done' = done \cup {"read"} /\ age' \in Ages
      /\ world' = world /\ place' = place /\ changed' = changed /\ charged' = charged
      /\ swept' = swept /\ walked' = walked /\ elapsed' = elapsed /\ rec' = rec
  BY DEF Read, treeVars
<1>2. age' \in Nat \cup {Unset}
  BY <1>1, ReconcileAssumption
<1>3. WorldFixed' /\ InOrder' /\ Types'
  BY <1>1, <1>2 DEF Inductive, WorldFixed, InOrder, Types
<1>4. FigureIsOf' /\ SweepIsOf'
  BY <1>1 DEF Inductive, FigureIsOf, SweepIsOf
<1>5. WalkIsOf' /\ RecIsOf'
  BY <1>1 DEF Inductive, WalkIsOf, RecIsOf
<1> QED
  BY <1>3, <1>4, <1>5 DEF Inductive

LEMMA WalkKeeps == ASSUME Inductive, Walk PROVE Inductive'
<1>1. /\ done = {"figure", "sweep", "read"} /\ done' = done \cup {"walk"}
      /\ walked' = {i \in InTree : place[i] = "named" /\ ~(IsFloor /\ i \in Unreached)}
      /\ elapsed' \in Walks
      /\ world' = world /\ place' = place /\ changed' = changed /\ charged' = charged
      /\ swept' = swept /\ age' = age /\ rec' = rec
  BY DEF Walk, treeVars
<1>2. elapsed' \in Nat
  BY <1>1, ReconcileAssumption
<1>3. WorldFixed' /\ InOrder' /\ Types'
  BY <1>1, <1>2 DEF Inductive, WorldFixed, InOrder, Types
<1>4. FigureIsOf' /\ SweepIsOf'
  BY <1>1 DEF Inductive, FigureIsOf, SweepIsOf
<1>5. WalkIsOf'
  <2>1. InTree' = InTree /\ IsFloor' = IsFloor
    BY <1>1 DEF InTree, IsFloor, OnRootDevice, Is
  <2> QED
    BY <1>1, <2>1 DEF WalkIsOf
<1>6. RecIsOf'
  BY <1>1 DEF Inductive, RecIsOf
<1> QED
  BY <1>3, <1>4, <1>5, <1>6 DEF Inductive

LEMMA CompareKeeps ==
    ASSUME Inductive, Compare \/ UNCHANGED vars PROVE Inductive'
<1>1. /\ world' = world /\ place' = place /\ changed' = changed /\ charged' = charged
      /\ swept' = swept /\ walked' = walked /\ age' = age /\ elapsed' = elapsed
      /\ done' = done
      /\ rec' = rec \/ ("walk" \in done /\ rec' = Reconciliation)
  BY DEF Compare, vars, treeVars
<1>2. UNCHANGED Gathered
  BY <1>1 DEF Gathered
<1>3. WorldFixed' /\ InOrder' /\ Types'
  BY <1>1 DEF Inductive, WorldFixed, InOrder, Types
<1>4. FigureIsOf' /\ SweepIsOf'
  BY <1>1 DEF Inductive, FigureIsOf, SweepIsOf
<1>5. WalkIsOf'
  BY <1>1, <1>2, SameTree DEF Inductive, WalkIsOf
<1>6. RecIsOf'
  BY <1>1, <1>2, SameReconciliation DEF Inductive, RecIsOf
<1> QED
  BY <1>3, <1>4, <1>5, <1>6 DEF Inductive

LEMMA NextInductive == Inductive /\ [Next]_vars => Inductive'
BY ChangeKeeps, ComputeKeeps, SweepKeeps, ReadKeeps, WalkKeeps, CompareKeeps DEF Next

-----------------------------------------------------------------------------
(* The row that is picked.                                                 *)

RowTypes(row) ==
    /\ row.kind = world.kind
    /\ row.covers \in BOOLEAN /\ row.guessed \in BOOLEAN

LEMMA MatchingIsFinite ==
    ASSUME WorldFixed
    PROVE  /\ Matching \subseteq Int /\ IsFiniteSet(Matching)
           /\ \A n \in Matching : n \in DOMAIN world.rows /\ RowTypes(world.rows[n])
<1>1. /\ world.rows \in RowLists /\ Len(world.rows) \in Nat
      /\ DOMAIN world.rows = 1..Len(world.rows)
      /\ \A n \in DOMAIN world.rows :
            {world.rows[n].covers, world.rows[n].guessed} \subseteq BOOLEAN
  BY ReconcileAssumption DEF WorldFixed
<1>2. IsFiniteSet(1..Len(world.rows))
  <2> DEFINE n == Len(world.rows)
  <2>1. n \in Int
    BY <1>1
  <2> HIDE DEF n
  <2>2. IsFiniteSet(1..n)
    BY <2>1, FS_Interval
  <2> QED
    BY <2>2 DEF n
<1>3. Matching \subseteq 1..Len(world.rows)
  BY <1>1 DEF Matching
<1>4. IsFiniteSet(Matching)
  BY <1>2, <1>3, FS_Subset
<1>5. Matching \subseteq Int
  BY <1>1, <1>3
<1> QED
  BY <1>1, <1>4, <1>5 DEF Matching, RowTypes

\* The named rows that the choice is among, else all that match.
Pool ==
    LET named == {n \in Matching : world.rows[n].fileset = Key}
    IN  IF Cardinality(Matching) = 1 \/ named = {} THEN Matching ELSE named

\* The row is one of the pool.
LEMMA PickedFromPool ==
    ASSUME WorldFixed, Matching # {}
    PROVE  \E n \in Pool : PickRow = world.rows[n]
<1> DEFINE rank(n) == ScopeRank(world.rows[n].scope)
           ranks == {rank(n) : n \in Pool}
           best == {n \in Pool : \A k \in Pool : rank(n) <= rank(k)}
<1>1. Pool \subseteq Matching /\ Pool # {}
  BY DEF Pool
<1>2. IsFiniteSet(Pool) /\ Pool \subseteq Int
  BY <1>1, MatchingIsFinite, FS_Subset
<1>3. \A n : rank(n) \in 0..4
  BY DEF ScopeRank
<1>4. IsFiniteSet(ranks) /\ ranks \subseteq Int /\ ranks # {}
  <2>1. ranks \subseteq 0..4 /\ ranks # {}
    BY <1>1, <1>3
  <2> HIDE DEF ranks
  <2>2. IsFiniteSet(ranks)
    BY <2>1, BoundedIsFinite
  <2> QED
    BY <2>1, <2>2
<1>5. \E n \in Pool : \A k \in Pool : rank(n) <= rank(k)
  <2>1. Min(ranks) \in ranks /\ \A y \in ranks : Min(ranks) <= y
    BY <1>4, MinIsLeast
  <2> HIDE DEF rank
  <2> QED
    BY <2>1
<1>6. best # {} /\ best \subseteq Pool
  BY <1>5
<1>7. IsFiniteSet(best) /\ best \subseteq Int
  BY <1>2, <1>6, FS_Subset
<1>8. PickRow = world.rows[Min(best)]
  BY Zenon DEF PickRow, Pool
<1> HIDE DEF best
<1>9. Min(best) \in best
  BY <1>6, <1>7, MinIsLeast
<1> QED
  BY <1>6, <1>8, <1>9

LEMMA PickedRow == ASSUME WorldFixed, Matching # {} PROVE RowTypes(PickRow)
BY PickedFromPool, MatchingIsFinite DEF Pool

-----------------------------------------------------------------------------
(* Sizes of populations.                                                   *)

LEMMA SizeAdds ==
    ASSUME NEW S \in SUBSET Inodes, NEW T \in SUBSET Inodes, S \cap T = {}, NEW kind
    PROVE  /\ Size(S, kind) \in Nat /\ Size(T, kind) \in Nat
           /\ Size(S \cup T, kind) = Size(S, kind) + Size(T, kind)
<1>1. IsFiniteSet(S) /\ IsFiniteSet(T)
  BY ReconcileAssumption, FS_Subset
<1>2. CASE kind = "files"
  <2>1. /\ Cardinality(S) \in Nat /\ Cardinality(T) \in Nat
        /\ Cardinality(S \cup T)
             = Cardinality(S) + Cardinality(T) - Cardinality(S \cap T)
    BY <1>1, FS_CardinalityType, FS_Union
  <2>2. Cardinality(S \cap T) = 0
    BY FS_EmptySet
  <2> QED
    BY <1>2, <2>1, <2>2 DEF Size
<1>3. CASE kind # "files"
  <2>1. \A i \in Inodes : SizeOf[i] \in Nat
    BY ReconcileAssumption DEF SizeOf
  <2>2. /\ \A i \in S : SizeOf[i] \in Nat
        /\ \A i \in T : SizeOf[i] \in Nat
        /\ \A i \in S \cup T : SizeOf[i] \in Nat
    BY <2>1
  <2>3. /\ SumOver(SizeOf, S) \in Nat /\ SumOver(SizeOf, T) \in Nat
        /\ SumOver(SizeOf, S \cup T) = SumOver(SizeOf, S) + SumOver(SizeOf, T)
    BY <1>1, <2>2, SumNat, SumUnion
  <2> QED
    BY <1>3, <2>3 DEF Size
<1> QED
  BY <1>2, <1>3

\* What the comparison narrows both of its halves to.
LetIn(row) ==
    {i \in Inodes :
        /\ row.scope = "user" => Attr[i].uid = Me
        /\ RowGid(row) # Unset => Attr[i].gid = RowGid(row)}

Plain(row) == row.kind = world.kind /\ ~Is("-c") /\ ~Unsettled

LEMMA Halves ==
    ASSUME NEW row, Plain(row), walked \subseteq Inodes, swept \subseteq Inodes,
           world.kind \in {"blocks", "files"}
    PROVE  /\ WalkValue(row) = Size(walked \cap LetIn(row), world.kind)
           /\ Mine(row) = swept \cap LetIn(row)
<1>1. \A who : Owned(who) = walked \cap who
  BY DEF Owned, Plain
<1>2. ASSUME world.kind = "blocks", NEW S \in SUBSET walked
      PROVE  Blocks(S) = SumOver(SizeOf, S)
  <2>1. S \ (IF Is("unsettled") \/ Is("moved") THEN Fresh ELSE {}) = S
    BY <1>2 DEF Plain, Unsettled
  <2> QED
    BY <2>1 DEF Blocks
<1>3. \A who : WalkPart(who, world.kind) = Size(walked \cap who, world.kind)
  <2> TAKE who
  <2>1. CASE world.kind = "files"
    BY <1>1, <2>1 DEF WalkPart, Size
  <2>2. CASE world.kind = "blocks"
    <3>1. Blocks(walked \cap who) = SumOver(SizeOf, walked \cap who)
      BY <1>2, <2>2
    <3> QED
      BY <1>1, <2>2, <3>1 DEF WalkPart, Size
  <2> QED
    BY <2>1, <2>2
<1>4. WalkTotal(world.kind) = Size(walked, world.kind)
  <2>1. CASE world.kind = "files"
    BY <2>1 DEF WalkTotal, Size, Plain
  <2>2. CASE world.kind = "blocks"
    <3>1. Blocks(walked) = SumOver(SizeOf, walked)
      BY <1>2, <2>2
    <3> QED
      BY <2>2, <3>1 DEF WalkTotal, Size, Plain
  <2> QED
    BY <2>1, <2>2
<1>5. CASE row.scope = "user"
  <2>0. RowGid(row) = Unset
    BY <1>5 DEF RowGid
  <2>1. LetIn(row) = {i \in Inodes : Attr[i].uid = Me}
    BY <1>5, <2>0 DEF LetIn
  <2>2. WalkValue(row) = WalkPart({i \in Inodes : Attr[i].uid = Me}, world.kind)
    BY <1>5, <2>0 DEF WalkValue, Plain
  <2>3. Mine(row) = {i \in swept : Attr[i].uid = Me}
    BY <1>5, <2>0 DEF Mine
  <2> QED
    BY <1>3, <2>1, <2>2, <2>3
<1>6. CASE row.scope # "user" /\ RowGid(row) # Unset
  <2>1. LetIn(row) = {i \in Inodes : Attr[i].gid = RowGid(row)}
    BY <1>6 DEF LetIn
  <2>2. WalkValue(row) = WalkPart({i \in Inodes : Attr[i].gid = RowGid(row)}, world.kind)
    BY <1>6 DEF WalkValue, Plain
  <2>3. Mine(row) = {i \in swept : Attr[i].gid = RowGid(row)}
    BY <1>6 DEF Mine
  <2> QED
    BY <1>3, <2>1, <2>2, <2>3
<1>7. CASE row.scope # "user" /\ RowGid(row) = Unset
  <2>1. LetIn(row) = Inodes
    BY <1>7 DEF LetIn
  <2>2. WalkValue(row) = WalkTotal(world.kind) /\ Mine(row) = swept
    BY <1>7 DEF WalkValue, Mine, Plain
  <2>3. walked \cap Inodes = walked /\ swept \cap Inodes = swept
    OBVIOUS
  <2> QED
    BY <1>4, <2>1, <2>2, <2>3
<1> QED
  BY <1>5, <1>6, <1>7

-----------------------------------------------------------------------------
(* What a verdict says of the state it was reached in.                     *)

LEMMA ReachedFrom ==
    ASSUME Inductive, rec # Unset, rec.verdict \in {"subtree", "closes", "gap"}
    PROVE  /\ {"figure", "sweep", "walk"} \subseteq done
           /\ Matching # {} /\ rec.row = PickRow
           /\ rec.accounted = WalkValue(rec.row) + Size(Mine(rec.row), rec.row.kind)
           /\ rec.gap = Used(rec.row) - rec.accounted
           /\ rec.tolerance = EffectiveTolerance(Used(rec.row), rec.accounted, rec.row.kind)
           /\ rec.verdict = Verdict(rec.row, rec.gap \in -rec.tolerance..rec.tolerance)
<1>1. rec = Reconciliation /\ {"figure", "sweep", "walk"} \subseteq done
  BY DEF Inductive, RecIsOf, InOrder
<1>2. rec # NotCompared
  <2>1. NotCompared.verdict = "not compared"
    BY DEF NotCompared
  <2>2. rec.verdict # "not compared"
    OBVIOUS
  <2> QED
    BY <2>1, <2>2, Zenon
<1>3. rec = Compared(PickRow) /\ Matching # {}
  BY <1>1, <1>2 DEF Reconciliation
<1> QED
  BY <1>1, <1>2, <1>3 DEF Compared

\* A verdict that draws a conclusion has nothing against it.
LEMMA Unblocked ==
    ASSUME Inductive, rec # Unset, rec.verdict \in {"closes", "gap"}
    PROVE  /\ age # Unset /\ age + elapsed <= MaxAge
           /\ ~Unsettled /\ ~Is("-c") /\ ~Is("crossed") /\ ~IsFloor
           /\ rec.verdict = "gap" <=> ~(rec.gap \in -rec.tolerance..rec.tolerance)
<1> DEFINE agrees == rec.gap \in -rec.tolerance..rec.tolerance
<1>1. rec.verdict = Verdict(rec.row, agrees)
  BY ReachedFrom
<1>2. rec.row.covers \in BOOLEAN
  BY ReachedFrom, PickedRow DEF Inductive, RowTypes
<1>3. agrees \in BOOLEAN
  OBVIOUS
<1> HIDE DEF agrees
<1>4. Blockers(rec.row) = {} /\ (rec.verdict = "gap" <=> ~agrees)
  BY <1>1, <1>2, <1>3 DEF Verdict
<1>5. ~Stale /\ ~Unsettled /\ ~(Is("crossed") /\ ~Is("-c"))
      /\ world.odd \cap (Floor \cup {"-c", "disowned"}) = {}
  BY <1>4 DEF Blockers
<1>6. age # Unset /\ age + elapsed <= MaxAge
  <2>1. age # Unset /\ age \in Nat /\ elapsed \in Nat /\ MaxAge \in Nat
    BY <1>5, ReconcileAssumption DEF Stale, Inductive, Types
  <2> QED
    BY <1>5, <2>1 DEF Stale, Apart
<1>7. ~Is("-c") /\ ~IsFloor
  BY <1>5 DEF Is, IsFloor
<1> QED
  BY <1>4, <1>5, <1>6, <1>7 DEF agrees

\* No inode is both read by its name and found unlinked.
LEMMA ReadOrOpen ==
    ASSUME Inductive, "walk" \in done
    PROVE  walked \subseteq Inodes /\ swept \subseteq Inodes /\ walked \cap swept = {}
<1>1. walked = {i \in InTree : place[i] = "named" /\ ~(IsFloor /\ i \in Unreached)}
  BY DEF Inductive, WalkIsOf
<1>2. swept \subseteq Inodes /\ \A i \in swept : place[i] # "named"
  BY DEF Inductive, SweepIsOf
<1> QED
  BY <1>1, <1>2 DEF InTree

\* What is let in of what was found is what the row counts and what is foreign.
LEMMA FoundIsSplit ==
    ASSUME NEW row, ~Misnamed(row), walked \subseteq Inodes, swept \subseteq Inodes
    PROVE  /\ (walked \cap LetIn(row)) \cup (swept \cap LetIn(row))
                 = Seen(row) \cup Foreign(row)
           /\ Seen(row) \cap Foreign(row) = {}
           /\ Seen(row) \in SUBSET Inodes /\ Foreign(row) \in SUBSET Inodes
<1>1. ASSUME NEW i \in Inodes, Counts(row, i) PROVE i \in LetIn(row)
  <2>1. row.scope = "user" => Attr[i].uid = Me
    BY <1>1 DEF Counts
  <2>2. RowGid(row) # Unset => Attr[i].gid = RowGid(row)
    BY <1>1 DEF Counts, RowGid, Misnamed
  <2> QED
    BY <2>1, <2>2 DEF LetIn
<1>2. ASSUME NEW i \in Inodes
      PROVE  (i \in walked \/ i \in swept) /\ i \in LetIn(row)
               <=> i \in Seen(row) \/ i \in Foreign(row)
  <2>1. CASE Counts(row, i)
    <3>1. i \in LetIn(row)
      BY <1>1, <2>1
    <3>2. i \notin Foreign(row)
      BY <2>1 DEF Foreign
    <3>3. i \in Seen(row) <=> i \in walked \/ i \in swept
      BY <2>1 DEF Seen
    <3> QED
      BY <3>1, <3>2, <3>3
  <2>2. CASE ~Counts(row, i)
    <3> DEFINE admitted == /\ row.scope = "user" => Attr[i].uid = Me
                           /\ RowGid(row) # Unset => Attr[i].gid = RowGid(row)
    <3>1. i \in LetIn(row) <=> admitted
      BY DEF LetIn
    <3>2. i \in Foreign(row) <=> (i \in walked \/ i \in swept) /\ admitted
      BY <2>2 DEF Foreign
    <3>3. i \notin Seen(row)
      BY <2>2 DEF Seen
    <3> HIDE DEF admitted
    <3> QED
      BY <3>1, <3>2, <3>3
  <2> QED
    BY <2>1, <2>2
<1>3. \A i \in Seen(row) : Counts(row, i)
  BY DEF Seen
<1>4. \A i \in Foreign(row) : ~Counts(row, i)
  BY DEF Foreign
<1>5. Seen(row) \subseteq Inodes /\ Foreign(row) \subseteq Inodes
  BY DEF Seen, Foreign
<1> QED
  BY <1>2, <1>3, <1>4, <1>5

LEMMA SidesMatch ==
    ASSUME Inductive, rec # Unset, rec.verdict \in {"subtree", "closes", "gap"},
           ~Misnamed(rec.row), ~Is("-c"), ~Unsettled
    PROVE  /\ rec.accounted
                = Size(Seen(rec.row), world.kind) + Size(Foreign(rec.row), world.kind)
           /\ Size(Seen(rec.row), world.kind) \in Nat
           /\ Size(Foreign(rec.row), world.kind) \in Nat
<1> DEFINE row == rec.row
           P == LetIn(row)
<1>1. /\ "walk" \in done /\ row = PickRow /\ Matching # {}
      /\ rec.accounted = WalkValue(row) + Size(Mine(row), row.kind)
  BY ReachedFrom
<1>2. WorldFixed /\ world.kind \in {"blocks", "files"}
  BY DEF Inductive, WorldFixed
<1>3. Plain(row)
  BY <1>1, <1>2, PickedRow DEF Plain, RowTypes
<1>4. walked \subseteq Inodes /\ swept \subseteq Inodes /\ walked \cap swept = {}
  BY <1>1, ReadOrOpen
<1>5. WalkValue(row) = Size(walked \cap P, world.kind) /\ Mine(row) = swept \cap P
  BY <1>2, <1>3, <1>4, Halves
<1>6. /\ (walked \cap P) \cup (swept \cap P) = Seen(row) \cup Foreign(row)
      /\ Seen(row) \cap Foreign(row) = {}
      /\ Seen(row) \in SUBSET Inodes /\ Foreign(row) \in SUBSET Inodes
  BY <1>4, FoundIsSplit
<1>7. Size((walked \cap P) \cup (swept \cap P), world.kind)
        = Size(walked \cap P, world.kind) + Size(swept \cap P, world.kind)
  <2>1. /\ walked \cap P \in SUBSET Inodes /\ swept \cap P \in SUBSET Inodes
        /\ (walked \cap P) \cap (swept \cap P) = {}
    BY <1>4
  <2> HIDE DEF P
  <2> QED
    BY <2>1, SizeAdds
<1>8. row.kind = world.kind
  BY <1>3 DEF Plain
<1> HIDE DEF row, P
<1>9. /\ Size(Seen(row), world.kind) \in Nat /\ Size(Foreign(row), world.kind) \in Nat
      /\ Size(Seen(row) \cup Foreign(row), world.kind)
           = Size(Seen(row), world.kind) + Size(Foreign(row), world.kind)
  <2> DEFINE seen == Seen(row)
             foreign == Foreign(row)
  <2>1. seen \in SUBSET Inodes /\ foreign \in SUBSET Inodes /\ seen \cap foreign = {}
    BY <1>6
  <2> HIDE DEF seen, foreign
  <2>2. /\ Size(seen, world.kind) \in Nat /\ Size(foreign, world.kind) \in Nat
        /\ Size(seen \cup foreign, world.kind)
             = Size(seen, world.kind) + Size(foreign, world.kind)
    BY <2>1, SizeAdds
  <2> QED
    BY <2>2 DEF seen, foreign
<1>10. rec.accounted = Size(Seen(row), world.kind) + Size(Foreign(row), world.kind)
  BY <1>1, <1>5, <1>6, <1>7, <1>8, <1>9
<1> QED
  BY <1>9, <1>10 DEF row

\* With no change that escaped notice, a difference is what no one could see
\* less what is foreign.
LEMMA GapIsUnseen ==
    ASSUME Inductive, Announced("gap") \/ Announced("closes"), ~SweepOutrun, ~SinceFigure
    PROVE  rec.gap = Unseen(rec.row) - Size(Foreign(rec.row), world.kind)
<1> DEFINE row == rec.row
           k == world.kind
           seen == Seen(row)
           foreign == Foreign(row)
           hidden == {i \in Inodes : charged[i] = "open" /\ i \notin swept /\ Counts(row, i)}
           all == {i \in Inodes : charged[i] # "gone" /\ Counts(row, i)}
<1>1. rec # Unset /\ rec.verdict \in {"closes", "gap"} /\ ~Misnamed(row)
  BY DEF Announced
<1>2. /\ {"figure", "sweep", "walk"} \subseteq done
      /\ row = PickRow /\ Matching # {} /\ rec.gap = Used(row) - rec.accounted
  BY <1>1, ReachedFrom
<1>3. ~Unsettled /\ ~Is("-c") /\ ~IsFloor
  BY <1>1, Unblocked
<1>4. /\ rec.accounted = Size(seen, k) + Size(foreign, k)
      /\ Size(seen, k) \in Nat /\ Size(foreign, k) \in Nat
  BY <1>1, <1>3, SidesMatch
<1>5. charged = place
  BY <1>2 DEF Inductive, FigureIsOf, SinceFigure
<1>6. \A i \in swept : place[i] = "open"
  <2>1. \A d \in changed : "sweep" \notin d
    BY DEF SweepOutrun, SinceFigure
  <2> QED
    BY <2>1 DEF Inductive, SweepIsOf
<1>7. walked = {i \in InTree : place[i] = "named"}
  BY <1>2, <1>3 DEF Inductive, WalkIsOf
<1>8. \A i \in Inodes : Counts(row, i) => i \in InTree
  BY DEF Counts, InTree
<1>9. /\ swept \subseteq Inodes /\ walked \subseteq Inodes
      /\ place \in [Inodes -> Places]
  BY <1>2, ReadOrOpen DEF Inductive, Types
<1>10. all = seen \cup hidden /\ seen \cap hidden = {}
  <2>1. \A i \in Inodes : place[i] \in {"named", "open", "gone"}
    BY <1>9 DEF Places
  <2>2. ASSUME NEW i \in Inodes, Counts(row, i), place[i] # "gone"
        PROVE  i \in walked \cup swept \/ (place[i] = "open" /\ i \notin swept)
    BY <2>1, <2>2, <1>7, <1>8
  <2>3. ASSUME NEW i \in walked \cup swept
        PROVE  i \in Inodes /\ place[i] # "gone" /\ ~(place[i] = "open" /\ i \notin swept)
    BY <2>3, <1>6, <1>7, <1>9
  <2>4. seen = {i \in walked \cup swept : Counts(row, i)}
    BY DEF Seen
  <2> HIDE DEF seen
  <2> QED
    BY <1>5, <2>2, <2>3, <2>4
<1>11. /\ Size(hidden, k) \in Nat
       /\ Size(all, k) = Size(seen, k) + Size(hidden, k)
  <2>1. seen \in SUBSET Inodes /\ hidden \in SUBSET Inodes
    BY <1>9 DEF Seen
  <2> HIDE DEF seen, hidden, all
  <2> QED
    BY <1>10, <2>1, SizeAdds
<1>12. row.kind = k /\ world.elsewhere \in Nat
  BY <1>2, PickedRow DEF Inductive, WorldFixed, RowTypes
<1>13. Used(row) = world.elsewhere + Size(all, k)
  BY DEF Used
<1>14. Unseen(row) = world.elsewhere + Size(hidden, k)
  BY <1>12 DEF Unseen
<1> HIDE DEF row, k, seen, foreign, hidden, all
<1>15. rec.gap = Unseen(row) - Size(foreign, k)
  BY <1>2, <1>4, <1>11, <1>12, <1>13, <1>14
<1> QED
  BY <1>15 DEF row, k, foreign

\* The tolerance is at most one in Share of what is compared, or one.
LEMMA ToleranceIsSmall ==
    ASSUME NEW used \in Nat, NEW accounted \in Nat, NEW kind
    PROVE  LET scale == Max({used, accounted})
               tolerance == EffectiveTolerance(used, accounted, kind)
           IN  /\ scale \in Nat /\ tolerance \in Nat
               /\ scale # 0 => tolerance <= 1 \/ tolerance * Share <= scale
               /\ scale = 0 => used = 0 /\ accounted = 0
<1> DEFINE scale == Max({used, accounted})
           least == IF kind = "files" THEN MinFiles ELSE MinBlocks
           tenth == scale \div Share
<1>1. scale = IF used >= accounted THEN used ELSE accounted
  BY MaxOfTwo
<1>2. scale \in Nat /\ (scale = 0 => used = 0 /\ accounted = 0)
  BY <1>1
<1>3. /\ Fraction \in Nat \ {0} /\ Share \in Nat \ {0} /\ least \in Nat
  BY ReconcileAssumption
<1>4. used \div Fraction \in Nat
  BY <1>3
<1>5. Tolerance(used, kind) \in Nat
  <2>1. Tolerance(used, kind) = Max({used \div Fraction, least})
    BY DEF Tolerance
  <2> DEFINE share == used \div Fraction
  <2>2. share \in Nat
    BY <1>4
  <2> HIDE DEF share, least
  <2>3. Max({share, least}) \in Nat
    BY <1>3, <2>2, MaxOfTwo
  <2> QED
    BY <2>1, <2>3 DEF share
<1>6. tenth \in Nat /\ tenth * Share <= scale
  <2> HIDE DEF scale
  <2> QED
    BY <1>2, <1>3
<1> HIDE DEF scale, tenth
<1>7. Max({tenth, 1}) = IF tenth >= 1 THEN tenth ELSE 1
  BY <1>6, MaxOfTwo
<1>8. Max({tenth, 1}) \in Nat /\ Max({tenth, 1}) \in {tenth, 1}
  BY <1>6, <1>7
<1> DEFINE t == Tolerance(used, kind)
           m == Max({tenth, 1})
<1>9. EffectiveTolerance(used, accounted, kind) = IF scale = 0 THEN t ELSE Min({t, m})
  BY DEF EffectiveTolerance, scale, tenth
<1>10. t \in Nat /\ m \in Nat /\ m \in {tenth, 1}
  BY <1>5, <1>8
<1> HIDE DEF t, m
<1>11. Min({t, m}) \in Nat /\ Min({t, m}) <= m
  BY <1>10, MinOfTwo
<1>12. \A a, b \in Nat : a <= b => a * Share <= b * Share
  BY <1>3
<1>13. Min({t, m}) <= 1 \/ Min({t, m}) * Share <= scale
  <2>1. CASE m = 1
    BY <1>11, <2>1
  <2>2. CASE m = tenth
    <3> DEFINE n == Min({t, m})
    <3>1. n \in Nat /\ n <= tenth
      BY <1>11, <2>2
    <3> HIDE DEF n
    <3>2. n * Share <= tenth * Share /\ n * Share \in Nat /\ tenth * Share \in Nat
      BY <1>3, <1>6, <1>12, <3>1
    <3>3. n * Share <= scale
      BY <1>2, <1>6, <3>2
    <3> QED
      BY <3>3 DEF n
  <2> QED
    BY <1>10, <2>1, <2>2
<1> QED
  BY <1>2, <1>5, <1>9, <1>10, <1>11, <1>13 DEF scale, t

LEMMA SidesAreNat ==
    ASSUME Inductive, Announced("closes")
    PROVE  Used(rec.row) \in Nat /\ rec.accounted \in Nat
<1> DEFINE row == rec.row
           k == world.kind
           all == {i \in Inodes : charged[i] # "gone" /\ Counts(row, i)}
<1>1. rec # Unset /\ rec.verdict \in {"closes", "gap"} /\ ~Misnamed(row)
  BY DEF Announced
<1>2. ~Unsettled /\ ~Is("-c")
  BY <1>1, Unblocked
<1>3. rec.accounted \in Nat
  <2>1. /\ rec.accounted = Size(Seen(row), k) + Size(Foreign(row), k)
        /\ Size(Seen(row), k) \in Nat /\ Size(Foreign(row), k) \in Nat
    BY <1>1, <1>2, SidesMatch
  <2> HIDE DEF row, k
  <2> QED
    BY <2>1
<1>4. all \in SUBSET Inodes
  OBVIOUS
<1>5. Used(row) = world.elsewhere + Size(all, k)
  BY DEF Used
<1> HIDE DEF all, k
<1>6. Size(all, k) \in Nat
  <2>1. {} \in SUBSET Inodes /\ all \cap {} = {}
    OBVIOUS
  <2> QED
    BY <1>4, <2>1, SizeAdds
<1> QED
  BY <1>3, <1>5, <1>6 DEF Inductive, WorldFixed

\* A number within a tolerance that is small, on either side.
LEMMA Bounded ==
    ASSUME NEW d \in Int, NEW t \in Nat, NEW scale \in Nat, d <= t, t * Share <= scale
    PROVE  d * Share <= scale
<1>1. Share \in Nat
  BY ReconcileAssumption
<1>2. d * Share <= t * Share
  <2>1. \A a \in Int, b \in Nat : a <= b => a * Share <= b * Share
    BY <1>1
  <2> QED
    BY <2>1
<1>3. d * Share \in Int /\ t * Share \in Int
  BY <1>1
<1> QED
  BY <1>2, <1>3

-----------------------------------------------------------------------------
(* The theorems.                                                           *)

\* What is accounted for is all that was found of the row's population, in both
\* halves, and what is foreign to it, for every tree, list of rows, kind, scope
\* and part (reconcile.py:466-554).
THEOREM PopulationsAlwaysMatch == Spec => []PopulationsMatch
<1>1. Inductive => PopulationsMatch
  <2> SUFFICES ASSUME Inductive, NEW v \in {"subtree", "closes", "gap"}, Announced(v),
                      ~Is("-c"), ~Unsettled
               PROVE  rec.accounted = Size(Seen(rec.row), world.kind)
                                        + Size(Foreign(rec.row), world.kind)
    BY DEF PopulationsMatch
  <2>1. rec # Unset /\ rec.verdict \in {"subtree", "closes", "gap"} /\ ~Misnamed(rec.row)
    BY DEF Announced
  <2> QED
    BY <2>1, SidesMatch
<1> QED
  BY <1>1, InitInductive, NextInductive, PTL DEF Spec

\* A gap that is called a finding is what no one could see less what is foreign,
\* or the tree changed within the age that was accepted (reconcile.py:12-18,
\* 659-712).
THEOREM GapsAreExact == Spec => []GapIsExact
<1>1. Inductive => GapIsExact
  <2> SUFFICES ASSUME Inductive, Announced("gap"), ~SweepOutrun
               PROVE  IF SinceFigure THEN age # Unset /\ age + elapsed <= MaxAge
                      ELSE /\ rec.gap = Unseen(rec.row) - Size(Foreign(rec.row), world.kind)
                           /\ rec.gap \notin -rec.tolerance..rec.tolerance
    BY DEF GapIsExact
  <2>1. rec # Unset /\ rec.verdict = "gap"
    BY DEF Announced
  <2>2. /\ age # Unset /\ age + elapsed <= MaxAge
        /\ rec.gap \notin -rec.tolerance..rec.tolerance
    BY <2>1, Unblocked
  <2> QED
    BY <2>2, GapIsUnseen
<1> QED
  BY <1>1, InitInductive, NextInductive, PTL DEF Spec

\* After an all-clear what no one could see and what is foreign differ by no more
\* than one in Share of what was compared, or one unit, unless the tree changed
\* within the age that was accepted (reconcile.py:115-143, 827-848).
THEOREM ClosesAreSound == Spec => []CloseIsSound
<1>1. Inductive => CloseIsSound
  <2> SUFFICES ASSUME Inductive, Announced("closes"), ~SweepOutrun, ~SinceFigure
               PROVE  LET apart == Unseen(rec.row) - Size(Foreign(rec.row), world.kind)
                      IN  \/ apart \in -1..1
                          \/ \A d \in {apart, -apart} :
                                d * Share <= Max({Used(rec.row), rec.accounted})
    <3>1. ASSUME Inductive, Announced("closes") PROVE age # Unset /\ age + elapsed <= MaxAge
      BY <3>1, Unblocked DEF Announced
    <3> QED
      BY <3>1 DEF CloseIsSound
  <2> DEFINE row == rec.row
             apart == Unseen(row) - Size(Foreign(row), world.kind)
             used == Used(row)
             accounted == rec.accounted
             scale == Max({used, accounted})
  <2>1. rec # Unset /\ rec.verdict = "closes"
    BY DEF Announced
  <2>2. rec.gap = apart
    BY GapIsUnseen
  <2>3. used \in Nat /\ accounted \in Nat
    BY SidesAreNat
  <2>4. /\ rec.gap = used - accounted
        /\ rec.tolerance = EffectiveTolerance(used, accounted, row.kind)
    BY <2>1, ReachedFrom
  <2>5. rec.gap \in -rec.tolerance..rec.tolerance
    BY <2>1, Unblocked
  <2> HIDE DEF row, used, accounted, apart
  <2>6. /\ scale \in Nat /\ rec.tolerance \in Nat
        /\ scale # 0 => rec.tolerance <= 1 \/ rec.tolerance * Share <= scale
        /\ scale = 0 => used = 0 /\ accounted = 0
    BY <2>3, <2>4, ToleranceIsSmall
  <2> HIDE DEF scale
  <2>7. apart \in Int /\ apart <= rec.tolerance /\ -apart <= rec.tolerance
    BY <2>2, <2>5, <2>6
  <2>8. ASSUME scale = 0 PROVE apart \in -1..1
    BY <2>2, <2>4, <2>6, <2>8
  <2>9. ASSUME rec.tolerance <= 1 PROVE apart \in -1..1
    BY <2>6, <2>7, <2>9
  <2>10. ASSUME rec.tolerance * Share <= scale
         PROVE  \A d \in {apart, -apart} : d * Share <= scale
    <3>1. apart * Share <= scale
      BY <2>6, <2>7, <2>10, Bounded
    <3>2. -apart \in Int
      BY <2>7
    <3>3. (-apart) * Share <= scale
      BY <2>6, <2>7, <2>10, <3>2, Bounded
    <3> QED
      BY <3>1, <3>3
  <2>11. apart \in -1..1 \/ \A d \in {apart, -apart} : d * Share <= scale
    BY <2>6, <2>8, <2>9, <2>10
  <2> QED
    BY <2>11 DEF apart, row, used, accounted, scale
<1> QED
  BY <1>1, InitInductive, NextInductive, PTL DEF Spec
=============================================================================

----------------------------- MODULE TallyProof -----------------------------
(***************************************************************************)
(* What the tables of a walk hold, for every tree, every order of scans    *)
(* and merges and every cap, and what the re-stat and the report may       *)
(* conclude from them.                                                     *)
(*                                                                         *)
(* The argument.  A watched directory's figures may be split between its   *)
(* slot and the overflow, and between the tables of all workers and of the *)
(* result: they are joined and added up first, to the table Grand.  Seen   *)
(* on Grand, a step of a walk either counts one entry (Gains) or counts    *)
(* nothing (Same), and a merge or a cap changes nothing at all.  Ledger    *)
(* says what holds of Grand: each kind of table adds up to the same total, *)
(* each row to its children, each watched directory to its row; it needs   *)
(* Frontier, which says that nothing is counted before the directory it is *)
(* in is scanned.  TallyInv is the Ledger of Grand with what each worker   *)
(* keeps; the theorems about what is published follow from it, and         *)
(* SettleInv adds what the re-stat has accounted for.  OffInv adds that    *)
(* what Grand has off the root's filesystem are the inodes read there.     *)
(***************************************************************************)
EXTENDS Report, SetLemmas

-----------------------------------------------------------------------------
(* The tree.                                                               *)

\* Where the root, the parents and the watched directories belong.
LEMMA RootFacts ==
    /\ Root \in Entries /\ Root \in Dirs
    /\ \A e \in Entries \ {Root} : Parent[e] \in Dirs /\ Parent[e] \in Entries
    /\ Dirs \subseteq Entries /\ Files \subseteq Entries
    /\ Watched \subseteq Dirs /\ Root \notin Watched /\ Watched \subseteq Entries
    /\ Root \notin Files /\ Dirs \cap Files = {}
  BY TreeAssumption DEF Entries

\* Path satisfies its recursion: a largest part of the tree on which a function
\* does is all of it.
LEMMA PathDef ==
    \A e \in Entries :
        Path[e] = IF e = Root THEN <<>> ELSE Append(Path[Parent[e]], e)
<1> DEFINE Names(P, e) == IF e = Root THEN <<>> ELSE Append(P[Parent[e]], e)
           Closed(D) == \A e \in D : e # Root => Parent[e] \in D
           Good(b) == /\ Closed(Entries \ b)
                      /\ \E P : P = [e \in Entries \ b |-> P[e]]
                                /\ \A e \in Entries \ b : P[e] = Names(P, e)
           B == {b \in SUBSET (Entries \ {Root}) : Good(b)}
<1>1. B # {}
  <2> DEFINE b == Entries \ {Root}
             P == [e \in {Root} |-> <<>>]
  <2>1. Entries \ b = {Root}
    BY RootFacts
  <2>2. P = [e \in {Root} |-> P[e]] /\ \A e \in {Root} : P[e] = Names(P, e)
    OBVIOUS
  <2>3. Closed({Root})
    OBVIOUS
  <2> HIDE DEF P, Closed
  <2>4. Good(b)
    BY <2>1, <2>2, <2>3
  <2> QED
    BY <2>4
<1>2. PICK b \in B : \A t \in B : ~(t \subseteq b /\ t # b)
  <2>1. IsFiniteSet(Entries \ {Root})
    BY TreeAssumption, FS_Subset
  <2>2. B \in SUBSET SUBSET (Entries \ {Root})
    OBVIOUS
  <2> HIDE DEF B
  <2> QED
    BY <1>1, <2>1, <2>2, LeastSubset
<1>3. b \in SUBSET (Entries \ {Root}) /\ Good(b)
  BY <1>2
<1>4. ASSUME b # {} PROVE FALSE
  <2>1. PICK x \in b : Parent[x] \notin b
    BY <1>3, <1>4, TreeAssumption
  <2>2. x \in Entries /\ x # Root /\ Parent[x] \in Entries \ b
    BY <1>3, <2>1, RootFacts
  <2>3. PICK P : P = [e \in Entries \ b |-> P[e]]
                 /\ \A e \in Entries \ b : P[e] = Names(P, e)
    BY <1>3
  <2> DEFINE c == b \ {x}
             Q == [e \in Entries \ c |-> IF e = x THEN Append(P[Parent[x]], x) ELSE P[e]]
  <2>4. Entries \ c = (Entries \ b) \cup {x}
    BY <1>3, <2>2
  <2>5. Closed(Entries \ c)
    BY <1>3, <2>2, <2>4
  <2>6. ASSUME NEW e \in Entries \ c PROVE Q[e] = Names(Q, e)
    <3>1. CASE e = x
      BY <2>1, <2>2, <2>4, <3>1
    <3>2. CASE e # x
      <4>1. e \in Entries \ b /\ (e # Root => Parent[e] \in Entries \ b)
        BY <1>3, <2>4, <3>2
      <4>2. e # Root => Parent[e] # x /\ Parent[e] \in Entries \ c
        BY <2>1, <2>4, <4>1
      <4>3. Q[e] = P[e] /\ (e # Root => Q[Parent[e]] = P[Parent[e]])
        BY <3>2, <4>2
      <4> QED
        BY <2>3, <4>1, <4>3
    <3> QED
      BY <3>1, <3>2
  <2>7. Q = [e \in Entries \ c |-> Q[e]]
    OBVIOUS
  <2> HIDE DEF Q, Closed, Names
  <2>8. Good(c)
    BY <2>5, <2>6, <2>7
  <2>9. c \in B /\ c \subseteq b /\ c # b
    BY <1>3, <2>1, <2>8
  <2> HIDE DEF c, B
  <2> QED
    BY <1>2, <2>9
<1>5. b = {}
  BY <1>4
<1>6. \E P : P = [e \in Entries |-> Names(P, e)]
  <2>1. Entries \ b = Entries
    BY <1>5
  <2>2. PICK P : P = [e \in Entries |-> P[e]] /\ \A e \in Entries : P[e] = Names(P, e)
    BY <1>3, <2>1
  <2> HIDE DEF Names
  <2>3. P = [e \in Entries |-> Names(P, e)]
    BY <2>2
  <2> QED
    BY <2>3
<1>7. Path = [e \in Entries |-> Names(Path, e)]
  BY <1>6 DEF Path
<1> QED
  BY <1>7

\* Induction over the tree: what fails fails first at an entry whose parent is
\* not among those that fail.
LEMMA FirstInTree ==
    ASSUME NEW bad \in SUBSET (Entries \ {Root}), bad # {}
    PROVE  \E e \in bad : Parent[e] \in Entries /\ Parent[e] \notin bad
  BY TreeAssumption, RootFacts

\* The names of a path are entries other than the root.
LEMMA PathType == \A e \in Entries : Path[e] \in Seq(Entries \ {Root})
<1> DEFINE Names == Entries \ {Root}
           bad == {e \in Names : Path[e] \notin Seq(Names)}
<1>1. Path[Root] \in Seq(Names)
  <2>1. Path[Root] = <<>>
    BY PathDef, RootFacts
  <2> HIDE DEF Names
  <2> QED
    BY <2>1
<1>2. ASSUME bad # {} PROVE FALSE
  <2>1. PICK e \in bad : Parent[e] \in Entries /\ Parent[e] \notin bad
    BY <1>2, FirstInTree
  <2>2. Path[Parent[e]] \in Seq(Names) /\ e \in Names
    BY <1>1, <2>1
  <2>3. Path[e] = Append(Path[Parent[e]], e) /\ Path[e] \notin Seq(Names)
    BY <2>1, PathDef
  <2> HIDE DEF Names, bad
  <2> QED
    BY <2>2, <2>3
<1> QED
  BY <1>1, <1>2

\* An entry's ancestors below the root, itself included.
Line(e) == ToSet(Path[e])

\* The root has no name above it.
LEMMA RootLine == Line(Root) = {} /\ Level(Root) = 0 /\ Path[Root] = <<>>
  BY PathDef, RootFacts DEF Line, ToSet, Level

\* An entry's line is its parent's and itself, one level deeper.
LEMMA LineStep ==
    ASSUME NEW e \in Entries \ {Root}
    PROVE  /\ Line(e) = Line(Parent[e]) \cup {e}
           /\ Level(e) = Level(Parent[e]) + 1 /\ Level(Parent[e]) \in Nat
           /\ \A i \in 1..Level(Parent[e]) : Path[e][i] = Path[Parent[e]][i]
           /\ Path[e][Level(e)] = e
<1>1. Path[e] = Append(Path[Parent[e]], e)
  BY PathDef
<1>2. Path[Parent[e]] \in Seq(Entries \ {Root})
  BY PathType, RootFacts
<1> DEFINE p == Path[Parent[e]]
<1>3. /\ Len(p) \in Nat /\ DOMAIN p = 1..Len(p)
      /\ Len(Append(p, e)) = Len(p) + 1 /\ DOMAIN Append(p, e) = 1..(Len(p) + 1)
      /\ \A i \in 1..Len(p) : Append(p, e)[i] = p[i]
      /\ Append(p, e)[Len(p) + 1] = e
  BY <1>2
<1>4. \A i : i \in 1..(Len(p) + 1) <=> i \in 1..Len(p) \/ i = Len(p) + 1
  BY <1>3
<1> HIDE DEF p
<1>5. ToSet(Append(p, e)) = ToSet(p) \cup {e}
  BY <1>3, <1>4 DEF ToSet
<1> QED
  BY <1>1, <1>3, <1>5 DEF Line, Level, p

\* Only the root is of level 0.
LEMMA LevelNat == \A e \in Entries : Level(e) \in Nat /\ (Level(e) = 0 <=> e = Root)
<1>1. Level(Root) = 0
  BY RootLine
<1>2. \A e \in Entries \ {Root} : Level(e) \in Nat /\ Level(e) # 0
  <2> TAKE e \in Entries \ {Root}
  <2>1. Level(e) = Level(Parent[e]) + 1 /\ Level(Parent[e]) \in Nat
    BY LineStep
  <2> QED
    BY <2>1
<1> QED
  BY <1>1, <1>2

\* A line is the names of a path, the entry's own included.
LEMMA LineIn ==
    ASSUME NEW e \in Entries
    PROVE  /\ Line(e) \subseteq Entries \ {Root}
           /\ e # Root => e \in Line(e)
           /\ \A i \in 1..Level(e) : Path[e][i] \in Line(e)
           /\ \A x \in Line(e) : \E i \in 1..Level(e) : x = Path[e][i]
<1>1. Path[e] \in Seq(Entries \ {Root})
  BY PathType
<1>2. DOMAIN Path[e] = 1..Level(e) /\ \A i \in 1..Level(e) : Path[e][i] \in Entries \ {Root}
  BY <1>1 DEF Level
<1>3. e # Root => e \in Line(e)
  BY LineStep
<1> QED
  BY <1>2, <1>3 DEF Line, ToSet

\* The i-th name of a path is an entry of level i.
LEMMA PathLevels == \A e \in Entries : \A i \in 1..Level(e) : Level(Path[e][i]) = i
<1> DEFINE bad == {e \in Entries \ {Root} : \E i \in 1..Level(e) : Level(Path[e][i]) # i}
<1>1. ASSUME bad # {} PROVE FALSE
  <2>1. PICK e \in bad : Parent[e] \in Entries /\ Parent[e] \notin bad
    BY <1>1, FirstInTree
  <2>2. PICK i \in 1..Level(e) : Level(Path[e][i]) # i
    BY <2>1
  <2>3. e \in Entries \ {Root}
    BY <2>1
  <2>4. /\ Level(e) = Level(Parent[e]) + 1 /\ Level(Parent[e]) \in Nat
        /\ \A j \in 1..Level(Parent[e]) : Path[e][j] = Path[Parent[e]][j]
        /\ Path[e][Level(e)] = e
    BY <2>3, LineStep
  <2>5. i \in 1..Level(Parent[e])
    BY <2>2, <2>4
  <2>6. Parent[e] # Root
    BY <2>5, RootLine
  <2>7. Level(Path[Parent[e]][i]) = i
    BY <2>1, <2>5, <2>6
  <2> QED
    BY <2>2, <2>4, <2>5, <2>7
<1>2. \A i \in 1..Level(Root) : FALSE
  BY RootLine
<1> QED
  BY <1>1, <1>2

\* Of a line one entry is of each level.
LEMMA LineLevels ==
    ASSUME NEW e \in Entries
    PROVE  /\ \A x \in Line(e) : Level(x) \in 1..Level(e) /\ x = Path[e][Level(x)]
           /\ \A x, y \in Line(e) : Level(x) = Level(y) => x = y
           /\ \A x \in Line(e) : Level(x) = Level(e) => x = e
<1>1. \A x \in Line(e) : Level(x) \in 1..Level(e) /\ x = Path[e][Level(x)]
  BY LineIn, PathLevels
<1>2. e = Root \/ e \in Line(e)
  BY LineIn
<1> QED
  BY <1>1, <1>2, RootLine

\* Lines are nested.
LEMMA LineBelow ==
    \A e \in Entries : \A x \in Line(e) :
        /\ Line(x) \subseteq Line(e)
        /\ Parent[x] = Root \/ Parent[x] \in Line(e)
<1> DEFINE bad == {e \in Entries \ {Root} : \E x \in Line(e) :
                      ~(Line(x) \subseteq Line(e) /\ (Parent[x] = Root \/ Parent[x] \in Line(e)))}
<1>1. ASSUME bad # {} PROVE FALSE
  <2>1. PICK e \in bad : Parent[e] \in Entries /\ Parent[e] \notin bad
    BY <1>1, FirstInTree
  <2>2. PICK x \in Line(e) :
            ~(Line(x) \subseteq Line(e) /\ (Parent[x] = Root \/ Parent[x] \in Line(e)))
    BY <2>1
  <2>3. e \in Entries \ {Root} /\ Line(e) = Line(Parent[e]) \cup {e}
    BY <2>1, LineStep
  <2>4. Parent[e] = Root \/ Parent[e] \in Line(Parent[e])
    BY <2>1, LineIn
  <2>5. x \in Line(Parent[e])
    BY <2>2, <2>3, <2>4
  <2>6. Parent[e] # Root
    BY <2>5, RootLine
  <2>7. Line(x) \subseteq Line(Parent[e]) /\ (Parent[x] = Root \/ Parent[x] \in Line(Parent[e]))
    BY <2>1, <2>5, <2>6
  <2> QED
    BY <2>2, <2>3, <2>7
<1> QED
  BY <1>1, RootLine

\* Below an entry there is one child of it on the way to any entry.
LEMMA ChildToward ==
    \A e \in Entries : \A x \in Line(e) \cup {Root} :
        x # e => \E c \in Line(e) : Parent[c] = x
<1> DEFINE bad == {e \in Entries \ {Root} : \E x \in Line(e) \cup {Root} :
                      x # e /\ ~ \E c \in Line(e) : Parent[c] = x}
<1>1. ASSUME bad # {} PROVE FALSE
  <2>1. PICK e \in bad : Parent[e] \in Entries /\ Parent[e] \notin bad
    BY <1>1, FirstInTree
  <2>2. PICK x \in Line(e) \cup {Root} : x # e /\ ~ \E c \in Line(e) : Parent[c] = x
    BY <2>1
  <2>3. e \in Entries \ {Root} /\ Line(e) = Line(Parent[e]) \cup {e}
    BY <2>1, LineStep
  <2>4. x # Parent[e]
    BY <2>2, <2>3
  <2>5. x \in Line(Parent[e]) \cup {Root}
    BY <2>2, <2>3
  <2>6. Parent[e] # Root
    BY <2>4, <2>5, RootLine
  <2>7. \E c \in Line(Parent[e]) : Parent[c] = x
    BY <2>1, <2>4, <2>5, <2>6
  <2> QED
    BY <2>2, <2>3, <2>7
<1> QED
  BY <1>1, RootLine

-----------------------------------------------------------------------------
(* Tables.                                                                 *)

Slots == [count : Nat, bytes : Nat, apparent : Nat]
Tables == [Keys -> Slots]

\* Sizes and allocations are natural numbers, in every mode.
LEMMA FigureTypes ==
    /\ \A e \in Entries : Attr[e].size \in Nat /\ Attr[e].blocks \in Nat
    /\ \A e \in Entries : Blocks(e) \in Nat /\ Length(e) \in Nat
  BY FiguresAssumption DEF Blocks, Length

\* Slots are added field by field.
LEMMA AddSlotFields ==
    ASSUME NEW s \in Slots, NEW t \in Slots
    PROVE  /\ AddSlot(s, t) \in Slots
           /\ AddSlot(s, t).count = s.count + t.count
           /\ AddSlot(s, t).bytes = s.bytes + t.bytes
           /\ AddSlot(s, t).apparent = s.apparent + t.apparent
<1>1. DOMAIN s = {"count", "bytes", "apparent"}
  BY DEF Slots
<1>2. /\ s.count \in Nat /\ s.bytes \in Nat /\ s.apparent \in Nat
      /\ t.count \in Nat /\ t.bytes \in Nat /\ t.apparent \in Nat
  BY DEF Slots
<1>3. AddSlot(s, t) = [f \in {"count", "bytes", "apparent"} |-> s[f] + t[f]]
  BY <1>1 DEF AddSlot
<1>4. /\ s.count + t.count \in Nat /\ s.bytes + t.bytes \in Nat
      /\ s.apparent + t.apparent \in Nat
  BY <1>2
<1>5. AddSlot(s, t) = [count |-> s.count + t.count, bytes |-> s.bytes + t.bytes,
                       apparent |-> s.apparent + t.apparent]
  BY <1>3
<1> HIDE DEF AddSlot
<1>6. AddSlot(s, t) \in Slots
  BY <1>4, <1>5 DEF Slots
<1> QED
  BY <1>5, <1>6

\* Slots that have the same figures are the same.
LEMMA SlotEqual ==
    ASSUME NEW s \in Slots, NEW t \in Slots,
           s.count = t.count, s.bytes = t.bytes, s.apparent = t.apparent
    PROVE  s = t
  BY DEF Slots

\* The empty table has nothing in any slot.
LEMMA NoTableType == NoTable \in Tables /\ \A k \in Keys :
        NoTable[k].count = 0 /\ NoTable[k].bytes = 0 /\ NoTable[k].apparent = 0
  BY DEF NoTable, NoSlot, Tables, Slots

\* What a charge adds.
LEMMA ChargeFields ==
    ASSUME NEW t \in Tables, NEW keys, NEW b \in Nat, NEW a \in Nat
    PROVE  /\ ChargeTo(t, keys, b, a) \in Tables
           /\ \A k \in Keys :
                 /\ k \in keys =>
                      /\ ChargeTo(t, keys, b, a)[k].count = t[k].count + 1
                      /\ ChargeTo(t, keys, b, a)[k].bytes = t[k].bytes + b
                      /\ ChargeTo(t, keys, b, a)[k].apparent = t[k].apparent + a
                 /\ k \notin keys => ChargeTo(t, keys, b, a)[k] = t[k]
<1> DEFINE one == [count |-> 1, bytes |-> b, apparent |-> a]
           c == ChargeTo(t, keys, b, a)
<1>1. one \in Slots
  BY DEF Slots
<1>2. c = [k \in Keys |-> IF k \in keys THEN AddSlot(t[k], one) ELSE t[k]]
  BY DEF ChargeTo
<1>3. \A k \in Keys : t[k] \in Slots
  BY DEF Tables
<1>4. \A k \in Keys : /\ AddSlot(t[k], one) \in Slots
                      /\ AddSlot(t[k], one).count = t[k].count + one.count
                      /\ AddSlot(t[k], one).bytes = t[k].bytes + one.bytes
                      /\ AddSlot(t[k], one).apparent = t[k].apparent + one.apparent
  BY <1>1, <1>3, AddSlotFields
<1>5. one.count = 1 /\ one.bytes = b /\ one.apparent = a
  OBVIOUS
<1> HIDE DEF c, one
<1>6. \A k \in Keys : c[k] = IF k \in keys THEN AddSlot(t[k], one) ELSE t[k]
  BY <1>2
<1>7. \A k \in Keys : c[k] \in Slots
  BY <1>3, <1>4, <1>6
<1>8. c = [k \in Keys |-> c[k]]
  BY <1>2
<1>9. c \in Tables
  BY <1>7, <1>8 DEF Tables
<1>10. \A k \in Keys : /\ k \in keys => /\ c[k].count = t[k].count + 1
                                        /\ c[k].bytes = t[k].bytes + b
                                        /\ c[k].apparent = t[k].apparent + a
                       /\ k \notin keys => c[k] = t[k]
  BY <1>4, <1>5, <1>6
<1> QED
  BY <1>9, <1>10 DEF c

\* Tables are added slot by slot, field by field.
LEMMA AddTableFields ==
    ASSUME NEW s \in Tables, NEW t \in Tables
    PROVE  /\ AddTable(s, t) \in Tables
           /\ \A k \in Keys :
                 /\ AddTable(s, t)[k].count = s[k].count + t[k].count
                 /\ AddTable(s, t)[k].bytes = s[k].bytes + t[k].bytes
                 /\ AddTable(s, t)[k].apparent = s[k].apparent + t[k].apparent
<1> DEFINE c == AddTable(s, t)
<1>1. c = [k \in Keys |-> AddSlot(s[k], t[k])]
  BY DEF AddTable
<1>2. \A k \in Keys : s[k] \in Slots /\ t[k] \in Slots
  BY DEF Tables
<1>3. \A k \in Keys : /\ AddSlot(s[k], t[k]) \in Slots
                      /\ AddSlot(s[k], t[k]).count = s[k].count + t[k].count
                      /\ AddSlot(s[k], t[k]).bytes = s[k].bytes + t[k].bytes
                      /\ AddSlot(s[k], t[k]).apparent = s[k].apparent + t[k].apparent
  BY <1>2, AddSlotFields
<1> HIDE DEF c
<1>4. \A k \in Keys : c[k] = AddSlot(s[k], t[k])
  BY <1>1
<1>5. c = [k \in Keys |-> c[k]] /\ \A k \in Keys : c[k] \in Slots
  BY <1>1, <1>3, <1>4
<1>6. c \in Tables
  BY <1>5 DEF Tables
<1> QED
  BY <1>3, <1>4, <1>6 DEF c

\* Tables that have the same figures are the same.
LEMMA TableEqual ==
    ASSUME NEW s \in Tables, NEW t \in Tables,
           \A k \in Keys : /\ s[k].count = t[k].count /\ s[k].bytes = t[k].bytes
                           /\ s[k].apparent = t[k].apparent
    PROVE  s = t
<1>1. \A k \in Keys : s[k] \in Slots /\ t[k] \in Slots
  BY DEF Tables
<1>2. \A k \in Keys : s[k] = t[k]
  BY <1>1, SlotEqual
<1> QED
  BY <1>2 DEF Tables

\* A charge to one of two tables is a charge to their sum.
LEMMA ChargeSum ==
    ASSUME NEW s \in Tables, NEW t \in Tables, NEW keys, NEW b \in Nat, NEW a \in Nat
    PROVE  AddTable(s, ChargeTo(t, keys, b, a)) = ChargeTo(AddTable(s, t), keys, b, a)
<1> DEFINE c == ChargeTo(t, keys, b, a)
           sum == AddTable(s, t)
           l == AddTable(s, c)
           r == ChargeTo(sum, keys, b, a)
<1>1. c \in Tables /\ sum \in Tables
  BY ChargeFields, AddTableFields
<1>2. l \in Tables /\ r \in Tables
  BY <1>1, ChargeFields, AddTableFields
<1>3. \A k \in Keys : s[k] \in Slots /\ t[k] \in Slots
  BY DEF Tables
<1>4. \A k \in Keys : /\ s[k].count \in Nat /\ s[k].bytes \in Nat /\ s[k].apparent \in Nat
                      /\ t[k].count \in Nat /\ t[k].bytes \in Nat /\ t[k].apparent \in Nat
  BY <1>3 DEF Slots
<1>5. ASSUME NEW k \in Keys
      PROVE  l[k].count = r[k].count /\ l[k].bytes = r[k].bytes /\ l[k].apparent = r[k].apparent
  <2>1. /\ l[k].count = s[k].count + c[k].count /\ l[k].bytes = s[k].bytes + c[k].bytes
        /\ l[k].apparent = s[k].apparent + c[k].apparent
    BY <1>1, AddTableFields
  <2>2. /\ sum[k].count = s[k].count + t[k].count /\ sum[k].bytes = s[k].bytes + t[k].bytes
        /\ sum[k].apparent = s[k].apparent + t[k].apparent
    BY AddTableFields
  <2>3. /\ k \in keys => /\ c[k].count = t[k].count + 1 /\ c[k].bytes = t[k].bytes + b
                         /\ c[k].apparent = t[k].apparent + a
        /\ k \notin keys => c[k] = t[k]
    BY ChargeFields
  <2>4. /\ k \in keys => /\ r[k].count = sum[k].count + 1 /\ r[k].bytes = sum[k].bytes + b
                         /\ r[k].apparent = sum[k].apparent + a
        /\ k \notin keys => r[k] = sum[k]
    BY <1>1, ChargeFields
  <2> HIDE DEF l, r, c, sum
  <2> QED
    BY <1>4, <2>1, <2>2, <2>3, <2>4
<1> HIDE DEF l, r
<1>6. l = r
  BY <1>2, <1>5, TableEqual
<1> QED
  BY <1>6 DEF l, r

\* Two charges of the same entry to different slots are one.
LEMMA ChargeTwice ==
    ASSUME NEW t \in Tables, NEW K, NEW L, K \cap L = {}, NEW b \in Nat, NEW a \in Nat
    PROVE  ChargeTo(ChargeTo(t, K, b, a), L, b, a) = ChargeTo(t, K \cup L, b, a)
<1> DEFINE c == ChargeTo(t, K, b, a)
<1>1. \A k \in Keys : c[k] = IF k \in K THEN AddSlot(t[k], [count |-> 1, bytes |-> b, apparent |-> a])
                             ELSE t[k]
  BY DEF ChargeTo
<1> HIDE DEF c
<1>2. \A k \in Keys : k \in L => k \notin K
  OBVIOUS
<1>3. ChargeTo(c, L, b, a) = ChargeTo(t, K \cup L, b, a)
  BY <1>1, <1>2 DEF ChargeTo
<1> QED
  BY <1>3 DEF c

-----------------------------------------------------------------------------
(* The slots an entry is charged to.                                       *)

\* The slots the proofs name are slots of every table.
LEMMA KeysIn ==
    /\ \A e \in Entries \ {Root} : <<"row", e>> \in Keys
    /\ \A a \in Watched : <<"watch", a>> \in Keys /\ <<"over", a>> \in Keys
    /\ {<<"size">>, <<"files">>, <<"dirs">>, <<"extra">>, <<"seen">>, <<"unreadable">>,
        <<"unstat">>, <<"recent">>, <<"touched">>} \subseteq Keys
    /\ \A u \in Uids : <<"uid", u>> \in Keys
    /\ \A g \in Gids : <<"gid", g>> \in Keys
    /\ \A d \in Devs : <<"dev", d>> \in Keys
    /\ \A x \in Ages : <<"age", x>> \in Keys
  BY DEF Keys

\* The rows of an entry are its ancestors, and itself, down to the depth of the
\* rows.
LEMMA RowsAreLine ==
    ASSUME flags.depth \in Nat, NEW e \in Entries \ {Root}
    PROVE  RowsOf(e) = {x \in Line(e) : Level(x) <= flags.depth}
<1> DEFINE p == Parent[e]
           n == Min({Level(p), flags.depth})
<1>1. p \in Entries /\ Level(p) \in Nat /\ Level(e) = Level(p) + 1
      /\ Line(e) = Line(p) \cup {e}
  BY RootFacts, LineStep
<1>2. n = IF Level(p) <= flags.depth THEN Level(p) ELSE flags.depth
  BY <1>1, MinOfTwo
<1> HIDE DEF n
<1>3. ReportedAncestors(p) = {Path[p][i] : i \in 1..n}
  BY DEF ReportedAncestors, n
<1> HIDE DEF p
<1>4. ASSUME NEW x PROVE x \in ReportedAncestors(p) <=> x \in Line(p) /\ Level(x) <= flags.depth
  <2>1. ASSUME x \in ReportedAncestors(p) PROVE x \in Line(p) /\ Level(x) <= flags.depth
    <3>1. PICK i \in 1..n : x = Path[p][i]
      BY <1>3, <2>1
    <3>2. i \in 1..Level(p) /\ i <= flags.depth
      BY <1>1, <1>2, <3>1
    <3>3. x \in Line(p) /\ Level(x) = i
      BY <1>1, <3>1, <3>2, LineIn, PathLevels
    <3> QED
      BY <3>2, <3>3
  <2>2. ASSUME x \in Line(p), Level(x) <= flags.depth PROVE x \in ReportedAncestors(p)
    <3>1. Level(x) \in 1..Level(p) /\ x = Path[p][Level(x)]
      BY <1>1, <2>2, LineLevels
    <3>2. Level(x) \in 1..n
      BY <1>1, <1>2, <2>2, <3>1
    <3> QED
      BY <1>3, <3>1, <3>2
  <2> QED
    BY <2>1, <2>2
<1>5. (Level(p) < flags.depth) <=> (Level(e) <= flags.depth)
  BY <1>1
<1>6. RowsOf(e) = ReportedAncestors(p) \cup (IF Level(p) < flags.depth THEN {e} ELSE {})
  BY DEF RowsOf, p
<1> QED
  BY <1>1, <1>4, <1>5, <1>6

\* What a scan of d has gathered so far.
Accs == [table : Tables, kept : Seq(Watched), sample : Seq(Files),
         links : SUBSET Inos, kids : SUBSET Dirs]

\* An entry that a scan accounts for as itself.
Counted(e, links, failing) ==
    /\ e \notin failing /\ ~Skipped(e)
    /\ e \in Files => ~Duplicate(e, links)

\* The watched slot of a directory that is charged with its own inode.
SeedKeys(kept, e) ==
    IF e \in Watched THEN {<<"seen">>, WatchKey(Keep(kept, WatchCap, e), e)} ELSE {}

\* All that the reading of an entry is charged to.
ReadKeys(acc, e, watch, failing) ==
    IF e \in failing THEN {<<"unstat">>} \cup GoneKey(e, "gone_entry")
    ELSE IF Skipped(e) THEN {<<"crossed">>}
    ELSE IF e \in Dirs THEN DirKeys(e) \cup watch \cup SeedKeys(acc.kept, e)
    ELSE IF Duplicate(e, acc.links) THEN DuplicateKeys(e)
    ELSE FileKeys(e) \cup watch

\* The watched slots above what is in d.
WatchKeys(watch, d) ==
    /\ watch \subseteq {"watch", "over"} \X WatchedAncestors(d)
    /\ \A a \in WatchedAncestors(d) : (<<"watch", a>> \in watch) # (<<"over", a>> \in watch)

\* The watched ancestors of what is in d are those on its line.
LEMMA WatchedAncestorsLine ==
    \A d \in Entries : WatchedAncestors(d) = {a \in Watched : a \in Line(d)}
  BY DEF WatchedAncestors, Line

\* The kinds of charge there are: one that counts an entry, and one that does not.
CountsEntry(K, e) ==
    /\ \A x \in Entries \ {Root} :
          <<"row", x>> \in K <=> x \in Line(e) /\ Level(x) <= flags.depth
    /\ \A a \in Watched : /\ <<"watch", a>> \in K \/ <<"over", a>> \in K <=> a \in Line(e)
                          /\ ~(<<"watch", a>> \in K /\ <<"over", a>> \in K)
    /\ <<"seen">> \in K <=> e \in Watched
    /\ <<"files">> \in K <=> e \in Files
    /\ <<"dirs">> \in K <=> e \in Dirs
    /\ <<"extra">> \notin K
    /\ <<"size">> \in K <=> ~flags.count
    /\ \A u \in Uids : <<"uid", u>> \in K <=> ~flags.count /\ u = Attr[e].uid
    /\ \A g \in Gids : <<"gid", g>> \in K <=> ~flags.count /\ g = Attr[e].gid
    /\ \A d \in Devs : <<"dev", d>> \in K <=> ~flags.count /\ d = Attr[e].dev
    /\ \A x \in Ages : <<"age", x>> \in K <=> ~flags.count /\ e \in Files /\ x = Attr[e].age
    /\ <<"recent">> \in K <=>
          ~flags.count /\ e \in Files /\ Attr[e].written \in {"recent", "future"}
    /\ <<"touched">> \in K <=> ~flags.count /\ e \in Files /\ Attr[e].written = "touched"
    /\ <<"unstat">> \notin K /\ <<"unreadable">> \notin K

\* A charge that counts nothing: a failure, a crossing, one more name.
PassesEntry(K) ==
    /\ \A k \in K : k[1] \in {"files", "extra", "link", "special", "unstat", "gone_entry", "crossed",
                              "unreadable", "gone_dir"}
    /\ <<"files">> \in K <=> <<"extra">> \in K

\* The first component of a key is its kind.
LEMMA Tags ==
    /\ \A a, b : <<a, b>>[1] = a
    /\ \A a : <<a>>[1] = a
  OBVIOUS

\* The charge of a directory counts it.
LEMMA DirKeysCount ==
    ASSUME flags.depth \in Nat, NEW e \in Dirs \ {Root}, NEW watch, WatchKeys(watch, Parent[e]), NEW kept
    PROVE  CountsEntry(DirKeys(e) \cup watch \cup SeedKeys(kept, e), e)
<1> DEFINE K == DirKeys(e) \cup watch \cup SeedKeys(kept, e)
<1>1. RowsOf(e) = {x \in Line(e) : Level(x) <= flags.depth}
  BY RowsAreLine, RootFacts
<1>2. e \notin Files /\ e \in Entries \ {Root} /\ Parent[e] \in Entries
  BY RootFacts
<1>3. Line(e) = Line(Parent[e]) \cup {e}
  BY <1>2, LineStep
<1>4. e \notin Line(Parent[e])
  <2>1. Level(e) = Level(Parent[e]) + 1 /\ Level(Parent[e]) \in Nat
    BY <1>2, LineStep
  <2>2. e \in Line(Parent[e]) => Level(e) \in 1..Level(Parent[e])
    BY <1>2, LineLevels
  <2> QED
    BY <2>1, <2>2
<1>5. \A k \in watch : k[1] \in {"watch", "over"}
  BY DEF WatchKeys
<1>6. \A k \in SeedKeys(kept, e) : k[1] \in {"seen", "watch", "over"}
  BY DEF SeedKeys, WatchKey
<1>7. \A k \in DirKeys(e) : k[1] \in {"dirs", "row", "size", "uid", "gid", "dev"}
  BY DEF DirKeys, Owners
<1>8. \A k : k \in K <=> k \in DirKeys(e) \/ k \in watch \/ k \in SeedKeys(kept, e)
  OBVIOUS
<1> HIDE DEF K
<1>9. \A x \in Entries \ {Root} :
          <<"row", x>> \in K <=> x \in Line(e) /\ Level(x) <= flags.depth
  <2> TAKE x \in Entries \ {Root}
  <2>1. <<"row", x>> \in K <=> <<"row", x>> \in DirKeys(e)
    BY <1>5, <1>6, <1>8, Tags
  <2>2. <<"row", x>> \in DirKeys(e) <=> x \in RowsOf(e)
    BY DEF DirKeys, Owners
  <2> QED
    BY <1>1, <2>1, <2>2
<1>10. \A a \in Watched : /\ <<"watch", a>> \in K \/ <<"over", a>> \in K <=> a \in Line(e)
                          /\ ~(<<"watch", a>> \in K /\ <<"over", a>> \in K)
  <2> TAKE a \in Watched
  <2>1. /\ <<"watch", a>> \in K <=> <<"watch", a>> \in watch \/ <<"watch", a>> \in SeedKeys(kept, e)
        /\ <<"over", a>> \in K <=> <<"over", a>> \in watch \/ <<"over", a>> \in SeedKeys(kept, e)
    BY <1>7, <1>8, Tags
  <2>2. IF a \in Line(Parent[e]) THEN (<<"watch", a>> \in watch) # (<<"over", a>> \in watch)
        ELSE <<"watch", a>> \notin watch /\ <<"over", a>> \notin watch
    BY <1>2, WatchedAncestorsLine DEF WatchKeys
  <2>3. IF a = e THEN (<<"watch", a>> \in SeedKeys(kept, e)) # (<<"over", a>> \in SeedKeys(kept, e))
        ELSE <<"watch", a>> \notin SeedKeys(kept, e) /\ <<"over", a>> \notin SeedKeys(kept, e)
    BY DEF SeedKeys, WatchKey
  <2> QED
    BY <1>3, <1>4, <2>1, <2>2, <2>3
<1>11. <<"seen">> \in K <=> e \in Watched
  <2>1. <<"seen">> \in K <=> <<"seen">> \in SeedKeys(kept, e)
    BY <1>5, <1>7, <1>8, Tags
  <2> QED
    BY <2>1 DEF SeedKeys
<1>12. /\ \A x : x \in {"dirs", "row", "size", "uid", "gid", "dev"} =>
             /\ <<x>> \in K <=> <<x>> \in DirKeys(e)
             /\ \A y : <<x, y>> \in K <=> <<x, y>> \in DirKeys(e)
       /\ \A x : x \in {"files", "extra", "age", "recent", "touched", "unstat", "unreadable"} =>
             /\ <<x>> \notin K
             /\ \A y : <<x, y>> \notin K
  BY <1>5, <1>6, <1>7, <1>8, Tags
<1>13. /\ <<"dirs">> \in DirKeys(e) /\ (<<"size">> \in DirKeys(e) <=> ~flags.count)
       /\ \A u : <<"uid", u>> \in DirKeys(e) <=> ~flags.count /\ u = Attr[e].uid
       /\ \A u : <<"gid", u>> \in DirKeys(e) <=> ~flags.count /\ u = Attr[e].gid
       /\ \A u : <<"dev", u>> \in DirKeys(e) <=> ~flags.count /\ u = Attr[e].dev
  BY DEF DirKeys, Owners
<1>14. CountsEntry(K, e)
  BY <1>2, <1>9, <1>10, <1>11, <1>12, <1>13 DEF CountsEntry
<1> QED
  BY <1>14 DEF K

\* The charge of a file counts it, whatever its kind and its allocation.
LEMMA FileKeysCount ==
    ASSUME flags.depth \in Nat, NEW e \in Files, NEW watch, WatchKeys(watch, Parent[e])
    PROVE  CountsEntry(FileKeys(e) \cup watch, e)
<1> DEFINE K == FileKeys(e) \cup watch
<1>1. e \notin Dirs /\ e \notin Watched /\ e \in Entries \ {Root} /\ Parent[e] \in Entries
  BY RootFacts
<1>2. RowsOf(e) = {x \in Line(e) : Level(x) <= flags.depth}
  BY <1>1, RowsAreLine
<1>3. Line(e) = Line(Parent[e]) \cup {e}
  BY <1>1, LineStep
<1>4. \A k \in watch : k[1] \in {"watch", "over"}
  BY DEF WatchKeys
<1>5. \A k \in AllocKeys(e) : k[1] \in {"inline", "padded", "bits", "under"}
  BY DEF AllocKeys
<1>6. \A k \in KindKeys(e) : k[1] \in {"link", "special"}
  BY FiguresAssumption DEF KindKeys
<1>7. \A k : k \in RecencyKeys(e) <=>
         \/ k = <<"recent">> /\ Attr[e].written \in {"recent", "future"}
         \/ k = <<"future">> /\ Attr[e].written = "future"
         \/ k = <<"touched">> /\ Attr[e].written = "touched"
  <2>1. CASE Attr[e].written = "recent"
    BY <2>1 DEF RecencyKeys
  <2>2. CASE Attr[e].written = "future"
    BY <2>2 DEF RecencyKeys
  <2>3. CASE Attr[e].written = "touched"
    BY <2>3 DEF RecencyKeys
  <2>4. CASE Attr[e].written \notin {"recent", "future", "touched"}
    BY <2>4 DEF RecencyKeys
  <2> QED
    BY <2>1, <2>2, <2>3, <2>4
<1>8. \A k : k \in K <=>
         \/ k \in watch \/ k = <<"files">> \/ \E x \in RowsOf(e) : k = <<"row", x>>
         \/ ~flags.count /\ \/ k = <<"size">> \/ k = <<"age", Attr[e].age>>
                            \/ k = <<"uid", Attr[e].uid>> \/ k = <<"gid", Attr[e].gid>>
                            \/ k = <<"dev", Attr[e].dev>>
                            \/ k \in KindKeys(e) \/ k \in AllocKeys(e) \/ k \in RecencyKeys(e)
  BY DEF FileKeys, Owners
<1>9. \A k \in RecencyKeys(e) : k[1] \in {"recent", "future", "touched"}
  BY <1>7
<1> HIDE DEF K
<1>10. ASSUME NEW k \in K
       PROVE  \/ k \in watch /\ k[1] \in {"watch", "over"}
              \/ k[1] \in {"files", "row"}
              \/ ~flags.count /\ k[1] \in {"size", "age", "uid", "gid", "dev", "inline", "padded",
                         "bits", "under", "link", "special", "recent", "future", "touched"}
  BY <1>4, <1>5, <1>6, <1>8, <1>9, Tags
<1>11. \A x \in Entries \ {Root} :
          <<"row", x>> \in K <=> x \in Line(e) /\ Level(x) <= flags.depth
  <2> TAKE x \in Entries \ {Root}
  <2>1. <<"row", x>> \in K <=> x \in RowsOf(e)
    <3>1. <<"row", x>> \notin watch /\ <<"row", x>> \notin KindKeys(e)
          /\ <<"row", x>> \notin AllocKeys(e) /\ <<"row", x>> \notin RecencyKeys(e)
      BY <1>4, <1>5, <1>6, <1>9, Tags
    <3> QED
      BY <1>8, <3>1
  <2> QED
    BY <1>2, <2>1
<1>12. \A a \in Watched : /\ <<"watch", a>> \in K \/ <<"over", a>> \in K <=> a \in Line(e)
                          /\ ~(<<"watch", a>> \in K /\ <<"over", a>> \in K)
  <2> TAKE a \in Watched
  <2>1. /\ <<"watch", a>> \in K <=> <<"watch", a>> \in watch
        /\ <<"over", a>> \in K <=> <<"over", a>> \in watch
    <3>1. \A k \in K : k[1] \in {"watch", "over"} => k \in watch
      BY <1>10
    <3> QED
      BY <1>8, <3>1, Tags
  <2>2. IF a \in Line(Parent[e]) THEN (<<"watch", a>> \in watch) # (<<"over", a>> \in watch)
        ELSE <<"watch", a>> \notin watch /\ <<"over", a>> \notin watch
    BY <1>1, WatchedAncestorsLine DEF WatchKeys
  <2> QED
    BY <1>1, <1>3, <2>1, <2>2
<1>13. /\ <<"seen">> \notin K /\ <<"dirs">> \notin K /\ <<"extra">> \notin K
       /\ <<"unstat">> \notin K /\ <<"unreadable">> \notin K
  BY <1>10, Tags
<1>14. /\ <<"files">> \in K
       /\ <<"size">> \in K <=> ~flags.count
  BY <1>8, <1>10, Tags
<1>15. /\ \A u : <<"uid", u>> \in K <=> ~flags.count /\ u = Attr[e].uid
       /\ \A u : <<"gid", u>> \in K <=> ~flags.count /\ u = Attr[e].gid
       /\ \A u : <<"dev", u>> \in K <=> ~flags.count /\ u = Attr[e].dev
       /\ \A u : <<"age", u>> \in K <=> ~flags.count /\ u = Attr[e].age
  <2>1. \A x \in {"uid", "gid", "dev", "age"} : \A u :
           /\ <<x, u>> \notin watch /\ <<x, u>> \notin KindKeys(e)
           /\ <<x, u>> \notin AllocKeys(e) /\ <<x, u>> \notin RecencyKeys(e)
    BY <1>4, <1>5, <1>6, <1>9, Tags
  <2> QED
    BY <1>8, <2>1
<1>16. /\ <<"recent">> \in K <=> ~flags.count /\ Attr[e].written \in {"recent", "future"}
       /\ <<"touched">> \in K <=> ~flags.count /\ Attr[e].written = "touched"
  <2>1. \A x \in {"recent", "touched"} : /\ <<x>> \notin watch /\ <<x>> \notin KindKeys(e)
                                         /\ <<x>> \notin AllocKeys(e)
    BY <1>4, <1>5, <1>6, Tags
  <2>2. \A x \in {"recent", "touched"} : <<x>> \in K <=> ~flags.count /\ <<x>> \in RecencyKeys(e)
    BY <1>8, <2>1
  <2> QED
    BY <1>7, <2>2
<1>17. CountsEntry(K, e)
  BY <1>1, <1>11, <1>12, <1>13, <1>14, <1>15, <1>16 DEF CountsEntry
<1> QED
  BY <1>17 DEF K

\* What a reading charges counts the entry, or counts nothing.
LEMMA ReadKeysKind ==
    ASSUME flags.depth \in Nat, NEW acc, NEW e \in Entries \ {Root}, NEW watch,
           WatchKeys(watch, Parent[e]), NEW failing
    PROVE  IF Counted(e, acc.links, failing) THEN CountsEntry(ReadKeys(acc, e, watch, failing), e)
           ELSE PassesEntry(ReadKeys(acc, e, watch, failing))
<1> DEFINE K == ReadKeys(acc, e, watch, failing)
<1>1. CASE e \in failing
  <2>1. K = {<<"unstat">>} \cup GoneKey(e, "gone_entry") /\ ~Counted(e, acc.links, failing)
    BY <1>1 DEF ReadKeys, Counted
  <2> QED
    BY <2>1 DEF PassesEntry, GoneKey
<1>2. CASE e \notin failing /\ Skipped(e)
  <2>1. K = {<<"crossed">>} /\ ~Counted(e, acc.links, failing)
    BY <1>2 DEF ReadKeys, Counted
  <2> QED
    BY <2>1 DEF PassesEntry
<1>3. CASE e \notin failing /\ ~Skipped(e) /\ e \in Dirs
  <2>1. K = DirKeys(e) \cup watch \cup SeedKeys(acc.kept, e) /\ Counted(e, acc.links, failing)
    BY <1>3, RootFacts DEF ReadKeys, Counted
  <2> QED
    BY <1>3, <2>1, DirKeysCount
<1>4. CASE e \notin failing /\ ~Skipped(e) /\ e \notin Dirs /\ Duplicate(e, acc.links)
  <2>1. K = DuplicateKeys(e) /\ ~Counted(e, acc.links, failing) /\ e \in Files
    BY <1>4 DEF ReadKeys, Counted, Entries
  <2>2. \A k \in KindKeys(e) : k[1] \in {"link", "special"}
    BY <2>1, FiguresAssumption DEF KindKeys
  <2> QED
    BY <2>1, <2>2 DEF PassesEntry, DuplicateKeys
<1>5. CASE e \notin failing /\ ~Skipped(e) /\ e \notin Dirs /\ ~Duplicate(e, acc.links)
  <2>1. K = FileKeys(e) \cup watch /\ Counted(e, acc.links, failing) /\ e \in Files
    BY <1>5 DEF ReadKeys, Counted, Entries
  <2> QED
    BY <1>5, <2>1, FileKeysCount
<1> QED
  BY <1>1, <1>2, <1>3, <1>4, <1>5

-----------------------------------------------------------------------------
(* A scan.                                                                 *)

\* Keeping a path keeps the type.
LEMMA KeepType ==
    ASSUME NEW kept \in Seq(Watched), NEW cap, NEW a \in Watched
    PROVE  Keep(kept, cap, a) \in Seq(Watched)
  BY DEF Keep

\* What a scan has gathered keeps its type, field by field.
LEMMA AccFields ==
    ASSUME NEW acc \in Accs
    PROVE  /\ acc.table \in Tables /\ acc.kept \in Seq(Watched) /\ acc.sample \in Seq(Files)
           /\ acc.links \in SUBSET Inos /\ acc.kids \in SUBSET Dirs
  BY DEF Accs

\* A charge changes the table only.
LEMMA BillFields ==
    ASSUME NEW acc \in Accs, NEW keys, NEW e \in Entries
    PROVE  /\ Bill(acc, keys, e) \in Accs
           /\ Bill(acc, keys, e).table = ChargeTo(acc.table, keys, Blocks(e), Length(e))
           /\ Bill(acc, keys, e).kept = acc.kept /\ Bill(acc, keys, e).sample = acc.sample
           /\ Bill(acc, keys, e).links = acc.links /\ Bill(acc, keys, e).kids = acc.kids
<1>1. ChargeTo(acc.table, keys, Blocks(e), Length(e)) \in Tables
  BY AccFields, FigureTypes, ChargeFields
<1> QED
  BY <1>1 DEF Bill, Accs

\* What reading an entry gives.
ReadGives(acc, e, watch, failing) ==
    LET r == Read(acc, e, watch, failing)
        counted == Counted(e, acc.links, failing)
    IN  /\ r \in Accs
        /\ r.table = ChargeTo(acc.table, ReadKeys(acc, e, watch, failing),
                              Blocks(e), Length(e))
        /\ r.kept = IF counted /\ e \in Watched THEN Keep(acc.kept, WatchCap, e)
                    ELSE acc.kept
        /\ r.kids = IF counted /\ e \in Dirs THEN acc.kids \cup {e} ELSE acc.kids
        /\ r.links = IF counted /\ e \in Files /\ ~flags.count /\ Attr[e].links > 1
                       THEN acc.links \cup {Attr[e].inode} ELSE acc.links
        /\ r.sample = IF /\ counted /\ e \in Files /\ ~flags.count /\ Recent(e)
                         /\ Len(acc.sample) < SampleCap
                        THEN Append(acc.sample, e) ELSE acc.sample

\* Read does that, in each of its cases.
LEMMA ReadFields ==
    ASSUME NEW acc \in Accs, NEW e \in Entries \ {Root}, NEW watch,
           WatchKeys(watch, Parent[e]), NEW failing
    PROVE  ReadGives(acc, e, watch, failing)
<1> USE DEF ReadGives
<1> DEFINE r == Read(acc, e, watch, failing)
           K == ReadKeys(acc, e, watch, failing)
<1>1. e \in Entries
  OBVIOUS
<1>2. CASE e \in failing
  <2>1. r = Bill(acc, K, e) /\ ~Counted(e, acc.links, failing)
    BY <1>2 DEF Read, ReadKeys, Counted
  <2> HIDE DEF r, K
  <2> QED
    BY <1>1, <2>1, BillFields DEF r, K
<1>3. CASE e \notin failing /\ Skipped(e)
  <2>1. r = Bill(acc, K, e) /\ ~Counted(e, acc.links, failing)
    BY <1>3 DEF Read, ReadKeys, Counted
  <2> HIDE DEF r, K
  <2> QED
    BY <1>1, <2>1, BillFields DEF r, K
<1>4. CASE e \notin failing /\ ~Skipped(e) /\ e \in Dirs
  <2>1. Counted(e, acc.links, failing) /\ e \notin Files
    BY <1>4, RootFacts DEF Counted
  <2> DEFINE L == DirKeys(e) \cup watch
             b == Bill(acc, L, e)
             c == [b EXCEPT !.kids = @ \cup {e}]
  <2>2. r = Seeded(c, e) /\ K = L \cup SeedKeys(acc.kept, e)
    BY <1>4 DEF Read, ReadKeys
  <2>3. /\ b \in Accs /\ b.table = ChargeTo(acc.table, L, Blocks(e), Length(e))
        /\ b.kept = acc.kept /\ b.sample = acc.sample
        /\ b.links = acc.links /\ b.kids = acc.kids
    BY <1>1, BillFields
  <2> HIDE DEF b, L
  <2>4. /\ c \in Accs /\ c.table = b.table
        /\ c.kept = acc.kept /\ c.sample = acc.sample
        /\ c.links = acc.links /\ c.kids = acc.kids \cup {e}
    BY <1>4, <2>3 DEF Accs
  <2> HIDE DEF c
  <2>5. CASE e \notin Watched
    <3>1. r = c /\ K = L
      BY <2>2, <2>5 DEF Seeded, SeedKeys
    <3> HIDE DEF r, K
    <3> QED
      BY <1>4, <2>1, <2>3, <2>4, <2>5, <3>1 DEF r, K
  <2>6. CASE e \in Watched
    <3> DEFINE k == Keep(acc.kept, WatchCap, e)
               S == {<<"seen">>, WatchKey(k, e)}
               x == [c EXCEPT !.kept = k]
    <3>1. r = Bill(x, S, e) /\ K = L \cup S
      BY <2>2, <2>4, <2>6 DEF Seeded, SeedKeys
    <3>2. k \in Seq(Watched)
      BY <2>6, AccFields, KeepType
    <3> HIDE DEF k
    <3>3. /\ x \in Accs /\ x.table = b.table /\ x.kept = k /\ x.sample = acc.sample
          /\ x.links = acc.links /\ x.kids = acc.kids \cup {e}
      BY <2>4, <3>2 DEF Accs
    <3>4. L \cap S = {}
      <4>1. Line(e) = Line(Parent[e]) \cup {e} /\ Parent[e] \in Entries
        BY LineStep, RootFacts
      <4>2. Level(e) = Level(Parent[e]) + 1 /\ Level(Parent[e]) \in Nat
        BY LineStep
      <4>3. e \notin Line(Parent[e])
        BY <4>1, <4>2, LineLevels
      <4>4. e \notin WatchedAncestors(Parent[e])
        BY <4>1, <4>3, WatchedAncestorsLine
      <4>5. <<"seen">> \notin watch /\ WatchKey(k, e) \notin watch
        BY <4>4 DEF WatchKeys, WatchKey
      <4>6. \A z \in DirKeys(e) : z[1] \in {"dirs", "row", "size", "uid", "gid", "dev"}
        BY DEF DirKeys, Owners
      <4>7. <<"seen">> \notin DirKeys(e) /\ WatchKey(k, e) \notin DirKeys(e)
        BY <4>6 DEF WatchKey
      <4> QED
        BY <4>5, <4>7 DEF L
    <3> HIDE DEF x, S
    <3>5. /\ r \in Accs /\ r.table = ChargeTo(x.table, S, Blocks(e), Length(e))
          /\ r.kept = x.kept /\ r.sample = x.sample /\ r.links = x.links /\ r.kids = x.kids
      BY <1>1, <3>1, <3>3, BillFields
    <3>6. r.table = ChargeTo(acc.table, K, Blocks(e), Length(e))
      <4>1. acc.table \in Tables /\ Blocks(e) \in Nat /\ Length(e) \in Nat
        BY <1>1, AccFields, FigureTypes
      <4> HIDE DEF r, K
      <4>2. ChargeTo(ChargeTo(acc.table, L, Blocks(e), Length(e)), S, Blocks(e), Length(e))
              = ChargeTo(acc.table, L \cup S, Blocks(e), Length(e))
        BY <3>4, <4>1, ChargeTwice
      <4> QED
        BY <2>3, <3>1, <3>3, <3>5, <4>2
    <3> HIDE DEF r, K
    <3> QED
      BY <1>4, <2>1, <2>6, <3>3, <3>5, <3>6 DEF r, K, k
  <2> QED
    BY <2>5, <2>6
<1>5. CASE e \notin failing /\ ~Skipped(e) /\ e \notin Dirs /\ Duplicate(e, acc.links)
  <2>1. r = Bill(acc, K, e) /\ ~Counted(e, acc.links, failing)
    BY <1>5 DEF Read, ReadKeys, Counted, Entries
  <2> HIDE DEF r, K
  <2> QED
    BY <1>1, <2>1, BillFields DEF r, K
<1>6. CASE e \notin failing /\ ~Skipped(e) /\ e \notin Dirs /\ ~Duplicate(e, acc.links)
  <2>1. Counted(e, acc.links, failing) /\ e \in Files /\ e \notin Watched
    BY <1>6, RootFacts DEF Counted, Entries
  <2> DEFINE b == Bill(acc, K, e)
  <2>2. r = [b EXCEPT
            !.links = IF ~flags.count /\ Attr[e].links > 1
                        THEN @ \cup {Attr[e].inode} ELSE @,
            !.sample = IF ~flags.count /\ Recent(e) /\ Len(@) < SampleCap
                         THEN Append(@, e) ELSE @]
    BY <1>6 DEF Read, ReadKeys
  <2>3. /\ b \in Accs /\ b.table = ChargeTo(acc.table, K, Blocks(e), Length(e))
        /\ b.kept = acc.kept /\ b.sample = acc.sample
        /\ b.links = acc.links /\ b.kids = acc.kids
    BY <1>1, BillFields
  <2> DEFINE l == IF ~flags.count /\ Attr[e].links > 1 THEN b.links \cup {Attr[e].inode} ELSE b.links
             s == IF ~flags.count /\ Recent(e) /\ Len(b.sample) < SampleCap
                    THEN Append(b.sample, e) ELSE b.sample
  <2>4. r = [b EXCEPT !.links = l, !.sample = s]
    BY <2>2, <2>3 DEF Accs
  <2>5. l \in SUBSET Inos /\ s \in Seq(Files)
    BY <2>1, <2>3 DEF Accs, Inos
  <2> HIDE DEF b, l, s, r
  <2>6. /\ r \in Accs /\ r.table = b.table /\ r.kept = b.kept /\ r.kids = b.kids
        /\ r.links = l /\ r.sample = s
    BY <2>3, <2>4, <2>5 DEF Accs
  <2> HIDE DEF K
  <2> QED
    BY <1>6, <2>1, <2>3, <2>6 DEF r, K, l, s
<1> QED
  BY <1>2, <1>3, <1>4, <1>5, <1>6

\* The fold of a scan.
ReadAll(start, names, watch, failing) ==
    FoldLeft(LAMBDA acc, e : Read(acc, e, watch, failing), start, names)

\* Induction over a scan: what each reading keeps, for the names read so far.
LEMMA ReadFold ==
    ASSUME NEW d \in Entries, NEW n \in Nat, NEW names \in [1..n -> Children(d)],
           NEW watch, WatchKeys(watch, d), NEW failing,
           NEW start \in Accs, NEW P, <<{}, start>> \in P,
           \A s \in SUBSET (1..n), acc \in Accs :
              s # {} /\ <<s \ {Max(s)}, acc>> \in P =>
                  <<s, Read(acc, names[Max(s)], watch, failing)>> \in P
    PROVE  /\ ReadAll(start, names, watch, failing) \in Accs
           /\ <<1..n, ReadAll(start, names, watch, failing)>> \in P
<1> DEFINE D == 1..n
           E == Children(d)
           Step_(h, s) == IF s = {} THEN start
                          ELSE Read(h[s \ {Max(s)}], names[Max(s)], watch, failing)
           iter == CHOOSE h : h = [s \in SUBSET D |-> Step_(h, s)]
           F == [p \in Accs \X E |-> Read(p[1], p[2], watch, failing)]
           read == ReadAll(start, names, watch, failing)
<1>1. read = iter[D]
  <2>1. DOMAIN names = D
    OBVIOUS
  <2> QED
    BY <2>1, Zenon DEF ReadAll, FoldLeft, MapThenFoldSet
<1>2. \A acc \in Accs, e \in E : Read(acc, e, watch, failing) \in Accs
  <2> TAKE acc \in Accs, e \in E
  <2>1. e \in Entries \ {Root} /\ Parent[e] = d
    BY DEF Children
  <2> QED
    BY <2>1, ReadFields DEF ReadGives
<1>3. F \in [Accs \X E -> Accs]
  BY <1>2
<1>4. IsFiniteSet(D) /\ MaxPicks(D)
  BY MaxPicksIndex
<1>5. names \in [D -> E]
  OBVIOUS
<1>6. \A i \in D : names[i] \in E
  OBVIOUS
<1> HIDE DEF D, E
<1>7. PICK g \in [SUBSET D -> Accs] : \A s \in SUBSET D :
              g[s] = IF s = {} THEN start ELSE F[<<g[s \ {Max(s)}], names[Max(s)]>>]
  <2>1. start \in Accs
    OBVIOUS
  <2> HIDE DEF F
  <2>2. \E g \in [SUBSET D -> Accs] : FoldRuns(g, D, start, F, names)
    BY <1>3, <1>4, <1>5, <2>1, FoldExists
  <2> QED
    BY <2>2 DEF FoldRuns
<1>8. g = [s \in SUBSET D |-> Step_(g, s)]
  <2>1. ASSUME NEW s \in SUBSET D PROVE g[s] = Step_(g, s)
    <3>1. CASE s = {}
      BY <1>7, <3>1
    <3>2. CASE s # {}
      <4>1. Max(s) \in s
        BY <1>4, <3>2 DEF MaxPicks
      <4>2. names[Max(s)] \in E /\ g[s \ {Max(s)}] \in Accs
        BY <1>6, <1>7, <4>1
      <4>3. g[s] = F[<<g[s \ {Max(s)}], names[Max(s)]>>]
        BY <1>7, <3>2
      <4> QED
        BY <3>2, <4>2, <4>3
    <3> QED
      BY <3>1, <3>2
  <2> HIDE DEF Step_
  <2> QED
    BY <1>7, <2>1
<1>9. iter = [s \in SUBSET D |-> Step_(iter, s)]
  <2> HIDE DEF Step_
  <2> QED
    BY <1>8
<1> HIDE DEF iter, F
<1>10. \A s \in SUBSET D : iter[s] = Step_(iter, s)
  <2> HIDE DEF Step_
  <2> QED
    BY <1>9
<1> DEFINE Q == {p \in (SUBSET D) \X Accs : p \in P}
<1>11. <<D, iter[D]>> \in Q
  <2>1. <<{}, iter[{}]>> \in Q
    BY <1>10
  <2>2. ASSUME NEW s \in SUBSET D, s # {}, <<s \ {Max(s)}, iter[s \ {Max(s)}]>> \in Q
        PROVE  <<s, iter[s]>> \in Q
    <3> DEFINE acc == iter[s \ {Max(s)}]
    <3>1. acc \in Accs /\ <<s \ {Max(s)}, acc>> \in P
      BY <2>2
    <3>2. Max(s) \in s
      BY <1>4, <2>2 DEF MaxPicks
    <3>3. names[Max(s)] \in E
      BY <1>6, <3>2
    <3>4. iter[s] = Read(acc, names[Max(s)], watch, failing)
      BY <1>10, <2>2
    <3> HIDE DEF acc
    <3>5. iter[s] \in Accs /\ <<s, iter[s]>> \in P
      BY <1>2, <2>2, <3>1, <3>3, <3>4 DEF D
    <3> QED
      BY <3>5
  <2> HIDE DEF Q
  <2> QED
    BY <1>4, <2>1, <2>2, FoldKeeps
<1>12. read \in Accs /\ <<D, read>> \in P
  BY <1>1, <1>11
<1> QED
  BY <1>12 DEF D

\* The same of the directories that are kept.
LEMMA KeepFold ==
    ASSUME NEW n \in Nat, NEW dirs \in [1..n -> Entries], NEW cap,
           NEW start \in Seq(Watched), NEW P, <<{}, start>> \in P,
           \A s \in SUBSET (1..n), kept \in Seq(Watched) :
              s # {} /\ <<s \ {Max(s)}, kept>> \in P =>
                  <<s, IF dirs[Max(s)] \in Watched THEN Keep(kept, cap, dirs[Max(s)]) ELSE kept>> \in P
    PROVE  KeepAll(start, cap, dirs) \in Seq(Watched) /\ <<1..n, KeepAll(start, cap, dirs)>> \in P
<1> DEFINE D == 1..n
           Op(k, a) == IF a \in Watched THEN Keep(k, cap, a) ELSE k
           Step_(h, s) == IF s = {} THEN start ELSE Op(h[s \ {Max(s)}], dirs[Max(s)])
           iter == CHOOSE h : h = [s \in SUBSET D |-> Step_(h, s)]
           F == [p \in Seq(Watched) \X Entries |-> Op(p[1], p[2])]
           all == KeepAll(start, cap, dirs)
<1>1. all = iter[D]
  <2>1. DOMAIN dirs = D
    OBVIOUS
  <2> QED
    BY <2>1, Zenon DEF KeepAll, FoldLeft, MapThenFoldSet
<1>2. \A k \in Seq(Watched), a \in Entries : Op(k, a) \in Seq(Watched)
  BY KeepType
<1>3. F \in [Seq(Watched) \X Entries -> Seq(Watched)]
  BY <1>2
<1>4. IsFiniteSet(D) /\ MaxPicks(D)
  BY MaxPicksIndex
<1>5. dirs \in [D -> Entries]
  OBVIOUS
<1>6. \A i \in D : dirs[i] \in Entries
  OBVIOUS
<1> HIDE DEF D
<1>7. PICK g \in [SUBSET D -> Seq(Watched)] : \A s \in SUBSET D :
              g[s] = IF s = {} THEN start ELSE F[<<g[s \ {Max(s)}], dirs[Max(s)]>>]
  <2>1. start \in Seq(Watched)
    OBVIOUS
  <2> HIDE DEF F
  <2>2. \E g \in [SUBSET D -> Seq(Watched)] : FoldRuns(g, D, start, F, dirs)
    BY <1>3, <1>4, <1>5, <2>1, FoldExists
  <2> QED
    BY <2>2 DEF FoldRuns
<1>8. g = [s \in SUBSET D |-> Step_(g, s)]
  <2>1. ASSUME NEW s \in SUBSET D PROVE g[s] = Step_(g, s)
    <3>1. CASE s = {}
      BY <1>7, <3>1
    <3>2. CASE s # {}
      <4>1. Max(s) \in s
        BY <1>4, <3>2 DEF MaxPicks
      <4>2. dirs[Max(s)] \in Entries /\ g[s \ {Max(s)}] \in Seq(Watched)
        BY <1>6, <1>7, <4>1
      <4>3. g[s] = F[<<g[s \ {Max(s)}], dirs[Max(s)]>>]
        BY <1>7, <3>2
      <4> HIDE DEF Op
      <4> QED
        BY <3>2, <4>2, <4>3
    <3> QED
      BY <3>1, <3>2
  <2> HIDE DEF Step_
  <2> QED
    BY <1>7, <2>1
<1>9. iter = [s \in SUBSET D |-> Step_(iter, s)]
  <2> HIDE DEF Step_
  <2> QED
    BY <1>8
<1> HIDE DEF iter, F
<1>10. \A s \in SUBSET D : iter[s] = Step_(iter, s)
  <2> HIDE DEF Step_
  <2> QED
    BY <1>9
<1> DEFINE Q == {p \in (SUBSET D) \X Seq(Watched) : p \in P}
<1>11. <<D, iter[D]>> \in Q
  <2>1. <<{}, iter[{}]>> \in Q
    BY <1>10
  <2>2. ASSUME NEW s \in SUBSET D, s # {}, <<s \ {Max(s)}, iter[s \ {Max(s)}]>> \in Q
        PROVE  <<s, iter[s]>> \in Q
    <3> DEFINE k == iter[s \ {Max(s)}]
    <3>1. k \in Seq(Watched) /\ <<s \ {Max(s)}, k>> \in P
      BY <2>2
    <3>2. Max(s) \in s
      BY <1>4, <2>2 DEF MaxPicks
    <3>3. dirs[Max(s)] \in Entries
      BY <1>6, <3>2
    <3>4. iter[s] = Op(k, dirs[Max(s)])
      BY <1>10, <2>2
    <3> HIDE DEF k
    <3>5. <<s, Op(k, dirs[Max(s)])>> \in P
      BY <2>2, <3>1 DEF D
    <3>6. Op(k, dirs[Max(s)]) \in Seq(Watched)
      BY <1>2, <3>1, <3>3
    <3> HIDE DEF Op
    <3> QED
      BY <3>4, <3>5, <3>6
  <2> HIDE DEF Q
  <2> QED
    BY <1>4, <2>1, <2>2, FoldKeeps
<1>12. all \in Seq(Watched) /\ <<D, all>> \in P
  <2> HIDE DEF all
  <2> QED
    BY <1>1, <1>11
<1> QED
  BY <1>12 DEF D

-----------------------------------------------------------------------------
(* The joined table: what a watched directory has in its slot and in the   *)
(* overflow, together.                                                     *)

\* A table with the overflow of each watched directory put back in its slot.
Joined(t) ==
    [k \in Keys |->
        IF k[1] = "watch" THEN AddSlot(t[k], t[<<"over", k[2]>>])
        ELSE IF k[1] = "over" THEN NoSlot ELSE t[k]]

\* The slots of the joined table that a charge of the slots K reaches.
JoinedKeys(K) ==
    {k \in Keys : IF k[1] = "watch" THEN k \in K \/ <<"over", k[2]>> \in K
                  ELSE k[1] # "over" /\ k \in K}

\* The slots of watched directories are named by them.
LEMMA KeyKinds ==
    ASSUME NEW k \in Keys, k[1] \in {"watch", "over"}
    PROVE  k[2] \in Watched /\ k = <<k[1], k[2]>>
  BY DEF Keys

\* The figures of a slot are natural numbers.
LEMMA SlotFields ==
    ASSUME NEW t \in Tables, NEW k \in Keys
    PROVE  /\ t[k] \in Slots
           /\ t[k].count \in Nat /\ t[k].bytes \in Nat /\ t[k].apparent \in Nat
  BY DEF Tables, Slots

\* What is joined, field by field; other slots are as they were.
LEMMA JoinedFields ==
    ASSUME NEW t \in Tables
    PROVE  /\ Joined(t) \in Tables
           /\ \A a \in Watched :
                 /\ Joined(t)[<<"watch", a>>].count = t[<<"watch", a>>].count + t[<<"over", a>>].count
                 /\ Joined(t)[<<"watch", a>>].bytes = t[<<"watch", a>>].bytes + t[<<"over", a>>].bytes
                 /\ Joined(t)[<<"watch", a>>].apparent
                      = t[<<"watch", a>>].apparent + t[<<"over", a>>].apparent
                 /\ Joined(t)[<<"over", a>>] = NoSlot
           /\ \A k \in Keys : k[1] \notin {"watch", "over"} => Joined(t)[k] = t[k]
<1>1. NoSlot \in Slots
  BY DEF NoSlot, Slots
<1>2. \A k \in Keys : t[k] \in Slots
  BY SlotFields
<1>3. ASSUME NEW k \in Keys
      PROVE  /\ Joined(t)[k] \in Slots
             /\ k[1] \notin {"watch", "over"} => Joined(t)[k] = t[k]
             /\ k[1] = "over" => Joined(t)[k] = NoSlot
             /\ k[1] = "watch" => Joined(t)[k] = AddSlot(t[k], t[<<"over", k[2]>>])
  <2>1. k[1] = "watch" => <<"over", k[2]>> \in Keys
    BY KeyKinds, KeysIn
  <2>2. k[1] = "watch" => AddSlot(t[k], t[<<"over", k[2]>>]) \in Slots
    BY <1>2, <2>1, AddSlotFields
  <2> QED
    BY <1>1, <1>2, <2>2 DEF Joined
<1>4. Joined(t) \in Tables
  BY <1>3 DEF Joined, Tables
<1>5. ASSUME NEW a \in Watched
      PROVE  /\ Joined(t)[<<"watch", a>>].count = t[<<"watch", a>>].count + t[<<"over", a>>].count
             /\ Joined(t)[<<"watch", a>>].bytes = t[<<"watch", a>>].bytes + t[<<"over", a>>].bytes
             /\ Joined(t)[<<"watch", a>>].apparent
                  = t[<<"watch", a>>].apparent + t[<<"over", a>>].apparent
             /\ Joined(t)[<<"over", a>>] = NoSlot
  <2>1. <<"watch", a>> \in Keys /\ <<"over", a>> \in Keys
    BY KeysIn
  <2>2. <<"watch", a>>[1] = "watch" /\ <<"watch", a>>[2] = a /\ <<"over", a>>[1] = "over"
    OBVIOUS
  <2>3. Joined(t)[<<"watch", a>>] = AddSlot(t[<<"watch", a>>], t[<<"over", a>>])
    BY <1>3, <2>1, <2>2
  <2>4. t[<<"watch", a>>] \in Slots /\ t[<<"over", a>>] \in Slots
    BY <1>2, <2>1
  <2> QED
    BY <1>3, <2>1, <2>2, <2>3, <2>4, AddSlotFields
<1> QED
  BY <1>3, <1>4, <1>5

\* A charge of either slot of a watched directory is one of the joined slot.
LEMMA JoinedCharge ==
    ASSUME NEW t \in Tables, NEW K, NEW b \in Nat, NEW x \in Nat,
           \A a \in Watched : ~(<<"watch", a>> \in K /\ <<"over", a>> \in K)
    PROVE  Joined(ChargeTo(t, K, b, x)) = ChargeTo(Joined(t), JoinedKeys(K), b, x)
<1> DEFINE c == ChargeTo(t, K, b, x)
           l == Joined(c)
           j == Joined(t)
           r == ChargeTo(j, JoinedKeys(K), b, x)
<1>1. c \in Tables /\ j \in Tables
  BY ChargeFields, JoinedFields
<1>2. l \in Tables /\ r \in Tables
  BY <1>1, ChargeFields, JoinedFields
<1>3. ASSUME NEW k \in Keys
      PROVE  l[k].count = r[k].count /\ l[k].bytes = r[k].bytes /\ l[k].apparent = r[k].apparent
  <2>1. /\ k \in JoinedKeys(K) => /\ r[k].count = j[k].count + 1 /\ r[k].bytes = j[k].bytes + b
                                  /\ r[k].apparent = j[k].apparent + x
        /\ k \notin JoinedKeys(K) => r[k] = j[k]
    BY <1>1, ChargeFields
  <2>2. CASE k[1] \notin {"watch", "over"}
    <3>1. l[k] = c[k] /\ j[k] = t[k] /\ (k \in JoinedKeys(K) <=> k \in K)
      BY <1>1, <2>2, JoinedFields DEF JoinedKeys
    <3>2. /\ k \in K => /\ c[k].count = t[k].count + 1 /\ c[k].bytes = t[k].bytes + b
                        /\ c[k].apparent = t[k].apparent + x
          /\ k \notin K => c[k] = t[k]
      BY ChargeFields
    <3> HIDE DEF l, r, c, j
    <3> QED
      BY <2>1, <3>1, <3>2
  <2>3. CASE k[1] = "over"
    <3>1. PICK a \in Watched : k = <<"over", a>>
      BY <2>3, KeyKinds
    <3>2. l[k] = NoSlot /\ j[k] = NoSlot /\ k \notin JoinedKeys(K)
      BY <1>1, <2>3, <3>1, JoinedFields DEF JoinedKeys
    <3> HIDE DEF l, r, c, j
    <3> QED
      BY <2>1, <3>2
  <2>4. CASE k[1] = "watch"
    <3>1. PICK a \in Watched : k = <<"watch", a>>
      BY <2>4, KeyKinds
    <3> DEFINE o == <<"over", a>>
    <3>2. o \in Keys
      BY KeysIn
    <3>3. k \in JoinedKeys(K) <=> k \in K \/ o \in K
      BY <3>1, KeysIn DEF JoinedKeys
    <3>4. /\ l[k].count = c[k].count + c[o].count /\ l[k].bytes = c[k].bytes + c[o].bytes
          /\ l[k].apparent = c[k].apparent + c[o].apparent
          /\ j[k].count = t[k].count + t[o].count /\ j[k].bytes = t[k].bytes + t[o].bytes
          /\ j[k].apparent = t[k].apparent + t[o].apparent
      BY <1>1, <3>1, JoinedFields
    <3> HIDE DEF l, r, j
    <3>5. /\ k \in K => /\ c[k].count = t[k].count + 1 /\ c[k].bytes = t[k].bytes + b
                        /\ c[k].apparent = t[k].apparent + x
          /\ k \notin K => c[k] = t[k]
          /\ o \in K => /\ c[o].count = t[o].count + 1 /\ c[o].bytes = t[o].bytes + b
                        /\ c[o].apparent = t[o].apparent + x
          /\ o \notin K => c[o] = t[o]
      BY <3>2, ChargeFields
    <3>6. ~(k \in K /\ o \in K)
      BY <3>1
    <3>7. /\ t[k].count \in Nat /\ t[k].bytes \in Nat /\ t[k].apparent \in Nat
          /\ t[o].count \in Nat /\ t[o].bytes \in Nat /\ t[o].apparent \in Nat
      BY <3>2, SlotFields
    <3> HIDE DEF c, o
    <3> QED
      BY <2>1, <3>3, <3>4, <3>5, <3>6, <3>7
  <2> QED
    BY <2>2, <2>3, <2>4
<1> HIDE DEF l, r
<1>4. l = r
  BY <1>2, <1>3, TableEqual
<1> QED
  BY <1>4 DEF l, r

\* The kinds of charge to a joined table: one that counts an entry, and one
\* that does not.
Counts(K, e) ==
    /\ \A x \in Entries \ {Root} :
          <<"row", x>> \in K <=> x \in Line(e) /\ Level(x) <= flags.depth
    /\ \A a \in Watched : <<"watch", a>> \in K <=> a \in Line(e)
    /\ <<"seen">> \in K <=> e \in Watched
    /\ <<"files">> \in K <=> e \in Files
    /\ <<"dirs">> \in K <=> e \in Dirs
    /\ <<"extra">> \notin K
    /\ <<"size">> \in K <=> ~flags.count
    /\ \A u \in Uids : <<"uid", u>> \in K <=> ~flags.count /\ u = Attr[e].uid
    /\ \A g \in Gids : <<"gid", g>> \in K <=> ~flags.count /\ g = Attr[e].gid
    /\ \A d \in Devs : <<"dev", d>> \in K <=> ~flags.count /\ d = Attr[e].dev
    /\ \A x \in Ages : <<"age", x>> \in K <=> ~flags.count /\ e \in Files /\ x = Attr[e].age

\* The same of a charge that counts nothing.
Passes(K) ==
    /\ \A k \in K : k[1] \in {"files", "extra", "link", "special", "unstat", "gone_entry", "crossed",
                              "unreadable", "gone_dir"}
    /\ <<"files">> \in K <=> <<"extra">> \in K

\* Other slots are reached as before.
LEMMA JoinedKeysIn ==
    ASSUME NEW K, NEW k \in Keys, k[1] \notin {"watch", "over"}
    PROVE  k \in JoinedKeys(K) <=> k \in K
  BY DEF JoinedKeys

\* A charge that counts an entry counts it in the joined table.
LEMMA JoinedCounts ==
    ASSUME NEW K, NEW e \in Entries \ {Root}, CountsEntry(K, e)
    PROVE  /\ Counts(JoinedKeys(K), e)
           /\ \A a \in Watched : ~(<<"watch", a>> \in K /\ <<"over", a>> \in K)
<1> DEFINE J == JoinedKeys(K)
<1>1. \A a \in Watched : <<"watch", a>> \in J <=> <<"watch", a>> \in K \/ <<"over", a>> \in K
  <2> TAKE a \in Watched
  <2>1. <<"watch", a>>[1] = "watch" /\ <<"watch", a>>[2] = a
    OBVIOUS
  <2> QED
    BY <2>1, KeysIn DEF JoinedKeys
<1>2. \A x \in Entries \ {Root} : <<"row", x>> \in J <=> <<"row", x>> \in K
  BY KeysIn, JoinedKeysIn, Tags
<1>3. \A x \in {"seen", "files", "dirs", "extra", "size"} : <<x>> \in J <=> <<x>> \in K
  <2>1. \A x \in {"seen", "files", "dirs", "extra", "size"} : <<x>> \in Keys
    BY KeysIn
  <2> QED
    BY <2>1, JoinedKeysIn, Tags
<1>4. /\ \A u \in Uids : <<"uid", u>> \in J <=> <<"uid", u>> \in K
      /\ \A u \in Gids : <<"gid", u>> \in J <=> <<"gid", u>> \in K
      /\ \A u \in Devs : <<"dev", u>> \in J <=> <<"dev", u>> \in K
      /\ \A u \in Ages : <<"age", u>> \in J <=> <<"age", u>> \in K
  BY KeysIn, JoinedKeysIn, Tags
<1> HIDE DEF J
<1>5. Counts(J, e)
  <2>1. /\ \A x \in Entries \ {Root} :
              <<"row", x>> \in K <=> x \in Line(e) /\ Level(x) <= flags.depth
        /\ \A a \in Watched : /\ <<"watch", a>> \in K \/ <<"over", a>> \in K <=> a \in Line(e)
                              /\ ~(<<"watch", a>> \in K /\ <<"over", a>> \in K)
    BY DEF CountsEntry
  <2>2. /\ \A x \in Entries \ {Root} :
              <<"row", x>> \in J <=> x \in Line(e) /\ Level(x) <= flags.depth
        /\ \A a \in Watched : <<"watch", a>> \in J <=> a \in Line(e)
    <3>1. \A x \in Entries \ {Root} :
              <<"row", x>> \in J <=> x \in Line(e) /\ Level(x) <= flags.depth
      BY <1>2, <2>1
    <3>2. \A a \in Watched : <<"watch", a>> \in J <=> a \in Line(e)
      BY <1>1, <2>1
    <3> QED
      BY <3>1, <3>2
  <2>3. /\ <<"seen">> \in J <=> e \in Watched
        /\ <<"files">> \in J <=> e \in Files
        /\ <<"dirs">> \in J <=> e \in Dirs
        /\ <<"extra">> \notin J
        /\ <<"size">> \in J <=> ~flags.count
    BY <1>3 DEF CountsEntry
  <2>4. /\ \A u \in Uids : <<"uid", u>> \in J <=> ~flags.count /\ u = Attr[e].uid
        /\ \A g \in Gids : <<"gid", g>> \in J <=> ~flags.count /\ g = Attr[e].gid
        /\ \A d \in Devs : <<"dev", d>> \in J <=> ~flags.count /\ d = Attr[e].dev
        /\ \A x \in Ages : <<"age", x>> \in J <=> ~flags.count /\ e \in Files /\ x = Attr[e].age
    BY <1>4 DEF CountsEntry
  <2> QED
    BY <2>2, <2>3, <2>4 DEF Counts
<1>6. \A a \in Watched : ~(<<"watch", a>> \in K /\ <<"over", a>> \in K)
  BY DEF CountsEntry
<1> QED
  BY <1>5, <1>6 DEF J

\* A charge that counts nothing counts nothing in the joined table.
LEMMA JoinedPasses ==
    ASSUME NEW K, PassesEntry(K)
    PROVE  /\ Passes(JoinedKeys(K))
           /\ \A a \in Watched : ~(<<"watch", a>> \in K /\ <<"over", a>> \in K)
<1> DEFINE J == JoinedKeys(K)
<1>1. \A x : x \in {"files", "extra"} => (<<x>> \in J <=> <<x>> \in K)
  <2>1. \A x : x \in {"files", "extra"} => <<x>> \in Keys
    BY KeysIn
  <2> QED
    BY <2>1, JoinedKeysIn, Tags
<1>2. \A a : <<"watch", a>> \notin K /\ <<"over", a>> \notin K
  BY Tags DEF PassesEntry
<1>3. \A k \in J : k \in K
  BY <1>2 DEF JoinedKeys
<1> HIDE DEF J
<1>4. Passes(J)
  BY <1>1, <1>3 DEF Passes, PassesEntry
<1> QED
  BY <1>2, <1>4 DEF J

\* Joining a sum is the sum of what is joined.
LEMMA JoinedSum ==
    ASSUME NEW s \in Tables, NEW t \in Tables
    PROVE  Joined(AddTable(s, t)) = AddTable(Joined(s), Joined(t))
<1> DEFINE c == AddTable(s, t)
           l == Joined(c)
           i == Joined(s)
           j == Joined(t)
           r == AddTable(i, j)
<1>1. c \in Tables /\ i \in Tables /\ j \in Tables
  BY AddTableFields, JoinedFields
<1>2. l \in Tables /\ r \in Tables
  BY <1>1, AddTableFields, JoinedFields
<1>3. ASSUME NEW k \in Keys
      PROVE  l[k].count = r[k].count /\ l[k].bytes = r[k].bytes /\ l[k].apparent = r[k].apparent
  <2>1. /\ r[k].count = i[k].count + j[k].count /\ r[k].bytes = i[k].bytes + j[k].bytes
        /\ r[k].apparent = i[k].apparent + j[k].apparent
    BY <1>1, AddTableFields
  <2>2. CASE k[1] \notin {"watch", "over"}
    <3>1. l[k] = c[k] /\ i[k] = s[k] /\ j[k] = t[k]
      BY <1>1, <2>2, JoinedFields
    <3>2. /\ c[k].count = s[k].count + t[k].count /\ c[k].bytes = s[k].bytes + t[k].bytes
          /\ c[k].apparent = s[k].apparent + t[k].apparent
      BY AddTableFields
    <3> HIDE DEF l, r, c, i, j
    <3> QED
      BY <2>1, <3>1, <3>2
  <2>3. CASE k[1] = "over"
    <3>1. PICK a \in Watched : k = <<"over", a>>
      BY <2>3, KeyKinds
    <3>2. l[k] = NoSlot /\ i[k] = NoSlot /\ j[k] = NoSlot
      BY <1>1, <3>1, JoinedFields
    <3>3. NoSlot.count = 0 /\ NoSlot.bytes = 0 /\ NoSlot.apparent = 0
      BY DEF NoSlot
    <3> HIDE DEF l, r, c, i, j
    <3> QED
      BY <2>1, <3>2, <3>3
  <2>4. CASE k[1] = "watch"
    <3>1. PICK a \in Watched : k = <<"watch", a>>
      BY <2>4, KeyKinds
    <3> DEFINE o == <<"over", a>>
    <3>2. o \in Keys
      BY KeysIn
    <3>3. /\ l[k].count = c[k].count + c[o].count /\ l[k].bytes = c[k].bytes + c[o].bytes
          /\ l[k].apparent = c[k].apparent + c[o].apparent
          /\ i[k].count = s[k].count + s[o].count /\ i[k].bytes = s[k].bytes + s[o].bytes
          /\ i[k].apparent = s[k].apparent + s[o].apparent
          /\ j[k].count = t[k].count + t[o].count /\ j[k].bytes = t[k].bytes + t[o].bytes
          /\ j[k].apparent = t[k].apparent + t[o].apparent
      BY <1>1, <3>1, JoinedFields
    <3>4. /\ c[k].count = s[k].count + t[k].count /\ c[k].bytes = s[k].bytes + t[k].bytes
          /\ c[k].apparent = s[k].apparent + t[k].apparent
          /\ c[o].count = s[o].count + t[o].count /\ c[o].bytes = s[o].bytes + t[o].bytes
          /\ c[o].apparent = s[o].apparent + t[o].apparent
      BY <3>2, AddTableFields
    <3>5. /\ t[k].count \in Nat /\ t[k].bytes \in Nat /\ t[k].apparent \in Nat
          /\ t[o].count \in Nat /\ t[o].bytes \in Nat /\ t[o].apparent \in Nat
          /\ s[k].count \in Nat /\ s[k].bytes \in Nat /\ s[k].apparent \in Nat
          /\ s[o].count \in Nat /\ s[o].bytes \in Nat /\ s[o].apparent \in Nat
      BY <3>2, SlotFields
    <3> HIDE DEF c, o, l, r, i, j
    <3> QED
      BY <2>1, <3>3, <3>4, <3>5
  <2> QED
    BY <2>2, <2>3, <2>4
<1> HIDE DEF l, r
<1>4. l = r
  BY <1>2, <1>3, TableEqual
<1> QED
  BY <1>4 DEF l, r, i, j, c

-----------------------------------------------------------------------------
(* What one charge changes.                                                *)

\* The inodes of a table.
InodesOf(t) == t[<<"files">>].count + t[<<"dirs">>].count - t[<<"extra">>].count

\* The second table has the entry e besides what the first has.
Gains(t, u, e) ==
    /\ t \in Tables /\ u \in Tables
    /\ \A x \in Entries \ {Root} :
          IF x \in Line(e) /\ Level(x) <= flags.depth
            THEN /\ u[<<"row", x>>].count = t[<<"row", x>>].count + 1
                 /\ u[<<"row", x>>].bytes = t[<<"row", x>>].bytes + Blocks(e)
            ELSE u[<<"row", x>>] = t[<<"row", x>>]
    /\ \A a \in Watched :
          IF a \in Line(e)
            THEN /\ u[<<"watch", a>>].count = t[<<"watch", a>>].count + 1
                 /\ u[<<"watch", a>>].bytes = t[<<"watch", a>>].bytes + Blocks(e)
            ELSE u[<<"watch", a>>] = t[<<"watch", a>>]
    /\ u[<<"seen">>].count = t[<<"seen">>].count + (IF e \in Watched THEN 1 ELSE 0)
    /\ InodesOf(u) = InodesOf(t) + 1
    /\ u[<<"files">>].count - u[<<"extra">>].count
         = t[<<"files">>].count - t[<<"extra">>].count + (IF e \in Files THEN 1 ELSE 0)
    /\ u[<<"size">>].bytes = t[<<"size">>].bytes + Blocks(e)
    /\ ~flags.count =>
         /\ \A x \in Uids : IF x = Attr[e].uid
               THEN /\ u[<<"uid", x>>].count = t[<<"uid", x>>].count + 1
                    /\ u[<<"uid", x>>].bytes = t[<<"uid", x>>].bytes + Blocks(e)
               ELSE u[<<"uid", x>>] = t[<<"uid", x>>]
         /\ \A x \in Gids : IF x = Attr[e].gid
               THEN /\ u[<<"gid", x>>].count = t[<<"gid", x>>].count + 1
                    /\ u[<<"gid", x>>].bytes = t[<<"gid", x>>].bytes + Blocks(e)
               ELSE u[<<"gid", x>>] = t[<<"gid", x>>]
         /\ \A x \in Devs : IF x = Attr[e].dev
               THEN /\ u[<<"dev", x>>].count = t[<<"dev", x>>].count + 1
                    /\ u[<<"dev", x>>].bytes = t[<<"dev", x>>].bytes + Blocks(e)
               ELSE u[<<"dev", x>>] = t[<<"dev", x>>]
         /\ \A x \in Ages : IF e \in Files /\ x = Attr[e].age
               THEN /\ u[<<"age", x>>].count = t[<<"age", x>>].count + 1
                    /\ u[<<"age", x>>].bytes = t[<<"age", x>>].bytes + Blocks(e)
               ELSE u[<<"age", x>>] = t[<<"age", x>>]

\* The two tables have the same inodes and the same bytes.
Same(t, u) ==
    /\ t \in Tables /\ u \in Tables
    /\ \A x \in Entries \ {Root} : u[<<"row", x>>] = t[<<"row", x>>]
    /\ \A a \in Watched : u[<<"watch", a>>] = t[<<"watch", a>>]
    /\ u[<<"seen">>] = t[<<"seen">>] /\ u[<<"size">>] = t[<<"size">>]
    /\ InodesOf(u) = InodesOf(t)
    /\ u[<<"files">>].count - u[<<"extra">>].count = t[<<"files">>].count - t[<<"extra">>].count
    /\ \A x \in Uids : u[<<"uid", x>>] = t[<<"uid", x>>]
    /\ \A x \in Gids : u[<<"gid", x>>] = t[<<"gid", x>>]
    /\ \A x \in Devs : u[<<"dev", x>>] = t[<<"dev", x>>]
    /\ \A x \in Ages : u[<<"age", x>>] = t[<<"age", x>>]

\* A charge that counts an entry makes the table gain it.
LEMMA CountsGains ==
    ASSUME NEW t \in Tables, NEW e \in Entries \ {Root}, NEW K, Counts(K, e)
    PROVE  Gains(t, ChargeTo(t, K, Blocks(e), Length(e)), e)
<1> DEFINE u == ChargeTo(t, K, Blocks(e), Length(e))
           Plus(k) == /\ u[k].count = t[k].count + 1
                      /\ u[k].bytes = t[k].bytes + Blocks(e)
<1>1. Blocks(e) \in Nat /\ Length(e) \in Nat /\ (flags.count => Blocks(e) = 0)
  BY FigureTypes DEF Blocks
<1>2. /\ u \in Tables
      /\ \A k \in Keys : IF k \in K THEN Plus(k) ELSE u[k] = t[k]
  BY <1>1, ChargeFields
<1> HIDE DEF u
<1>3. \A x \in Entries \ {Root} :
          IF x \in Line(e) /\ Level(x) <= flags.depth THEN Plus(<<"row", x>>)
            ELSE u[<<"row", x>>] = t[<<"row", x>>]
  <2> HIDE DEF Plus
  <2> QED
    BY <1>2, KeysIn DEF Counts
<1>4. \A a \in Watched : IF a \in Line(e) THEN Plus(<<"watch", a>>)
            ELSE u[<<"watch", a>>] = t[<<"watch", a>>]
  <2> HIDE DEF Plus
  <2> QED
    BY <1>2, KeysIn DEF Counts
<1>5. /\ IF e \in Watched THEN Plus(<<"seen">>) ELSE u[<<"seen">>] = t[<<"seen">>]
      /\ IF e \in Files THEN Plus(<<"files">>) ELSE u[<<"files">>] = t[<<"files">>]
      /\ IF e \in Dirs THEN Plus(<<"dirs">>) ELSE u[<<"dirs">>] = t[<<"dirs">>]
      /\ u[<<"extra">>] = t[<<"extra">>]
      /\ IF ~flags.count THEN Plus(<<"size">>) ELSE u[<<"size">>] = t[<<"size">>]
  <2> HIDE DEF Plus
  <2> QED
    BY <1>2, KeysIn DEF Counts
<1>6. ~flags.count =>
         /\ \A x \in Uids : IF x = Attr[e].uid THEN Plus(<<"uid", x>>)
                            ELSE u[<<"uid", x>>] = t[<<"uid", x>>]
         /\ \A x \in Gids : IF x = Attr[e].gid THEN Plus(<<"gid", x>>)
                            ELSE u[<<"gid", x>>] = t[<<"gid", x>>]
         /\ \A x \in Devs : IF x = Attr[e].dev THEN Plus(<<"dev", x>>)
                            ELSE u[<<"dev", x>>] = t[<<"dev", x>>]
         /\ \A x \in Ages : IF e \in Files /\ x = Attr[e].age THEN Plus(<<"age", x>>)
                            ELSE u[<<"age", x>>] = t[<<"age", x>>]
  <2> HIDE DEF Plus
  <2> QED
    BY <1>2, KeysIn DEF Counts
<1>7. (e \in Files /\ e \notin Dirs) \/ (e \notin Files /\ e \in Dirs)
  BY RootFacts DEF Entries
<1>8. /\ t[<<"files">>].count \in Nat /\ t[<<"dirs">>].count \in Nat /\ t[<<"extra">>].count \in Nat
      /\ t[<<"size">>].bytes \in Nat /\ t[<<"seen">>].count \in Nat
  BY KeysIn, SlotFields
<1>9. /\ InodesOf(u) = InodesOf(t) + 1
      /\ u[<<"files">>].count - u[<<"extra">>].count
           = t[<<"files">>].count - t[<<"extra">>].count + (IF e \in Files THEN 1 ELSE 0)
      /\ u[<<"size">>].bytes = t[<<"size">>].bytes + Blocks(e)
      /\ u[<<"seen">>].count = t[<<"seen">>].count + (IF e \in Watched THEN 1 ELSE 0)
  BY <1>1, <1>5, <1>7, <1>8 DEF InodesOf
<1> QED
  BY <1>2, <1>3, <1>4, <1>6, <1>9 DEF Gains, u

\* A charge that counts nothing leaves the inodes and the bytes.
LEMMA PassesSame ==
    ASSUME NEW t \in Tables, NEW e \in Entries, NEW K, Passes(K)
    PROVE  Same(t, ChargeTo(t, K, Blocks(e), Length(e)))
<1> DEFINE u == ChargeTo(t, K, Blocks(e), Length(e))
<1>1. Blocks(e) \in Nat /\ Length(e) \in Nat
  BY FigureTypes
<1>2. /\ u \in Tables
      /\ \A k \in Keys : IF k \in K THEN u[k].count = t[k].count + 1 ELSE u[k] = t[k]
  BY <1>1, ChargeFields
<1> HIDE DEF u
<1>3. /\ \A x \in {"row", "watch", "uid", "gid", "dev", "age"} : \A y : <<x, y>> \notin K
      /\ <<"seen">> \notin K /\ <<"size">> \notin K /\ <<"dirs">> \notin K
  BY Tags DEF Passes
<1>4. /\ \A x \in Entries \ {Root} : u[<<"row", x>>] = t[<<"row", x>>]
      /\ \A a \in Watched : u[<<"watch", a>>] = t[<<"watch", a>>]
      /\ u[<<"seen">>] = t[<<"seen">>] /\ u[<<"size">>] = t[<<"size">>]
      /\ u[<<"dirs">>] = t[<<"dirs">>]
      /\ \A x \in Uids : u[<<"uid", x>>] = t[<<"uid", x>>]
      /\ \A x \in Gids : u[<<"gid", x>>] = t[<<"gid", x>>]
      /\ \A x \in Devs : u[<<"dev", x>>] = t[<<"dev", x>>]
      /\ \A x \in Ages : u[<<"age", x>>] = t[<<"age", x>>]
  BY <1>2, <1>3, KeysIn
<1>5. /\ <<"files">> \in K <=> <<"extra">> \in K
      /\ <<"files">> \in Keys /\ <<"extra">> \in Keys /\ <<"dirs">> \in Keys
  BY KeysIn DEF Passes
<1>6. \/ u[<<"files">>] = t[<<"files">>] /\ u[<<"extra">>] = t[<<"extra">>]
      \/ /\ u[<<"files">>].count = t[<<"files">>].count + 1
         /\ u[<<"extra">>].count = t[<<"extra">>].count + 1
  BY <1>2, <1>5
<1>7. t[<<"files">>].count \in Nat /\ t[<<"dirs">>].count \in Nat /\ t[<<"extra">>].count \in Nat
  BY KeysIn, SlotFields
<1>8. /\ InodesOf(u) = InodesOf(t)
      /\ u[<<"files">>].count - u[<<"extra">>].count = t[<<"files">>].count - t[<<"extra">>].count
  BY <1>4, <1>6, <1>7 DEF InodesOf
<1> QED
  BY <1>2, <1>4, <1>8 DEF Same, u

-----------------------------------------------------------------------------
(* What holds of every table.                                              *)

\* A row without inodes has no bytes.
EmptyRows(t) ==
    \A x \in Entries \ {Root} : t[<<"row", x>>].count = 0 => t[<<"row", x>>].bytes = 0

\* A watched directory has the figures of its row, where it has one; below the
\* depth of the rows there are none.
WatchedAsRows(t) ==
    \A a \in Watched :
        IF Level(a) <= flags.depth
          THEN /\ t[<<"watch", a>>].count = t[<<"row", a>>].count
               /\ t[<<"watch", a>>].bytes = t[<<"row", a>>].bytes
          ELSE t[<<"row", a>>].count = 0 /\ t[<<"row", a>>].bytes = 0

\* EmptyRows is kept by either kind of charge.
LEMMA EmptyRowsKept ==
    ASSUME NEW t, NEW u, NEW e, EmptyRows(t),
           (e \in Entries \ {Root} /\ Gains(t, u, e)) \/ Same(t, u)
    PROVE  EmptyRows(u)
<1>1. t \in Tables
  BY DEF Gains, Same
<1>2. \A x \in Entries \ {Root} : t[<<"row", x>>].count \in Nat
  BY <1>1, KeysIn, SlotFields
<1>3. CASE e \in Entries \ {Root} /\ Gains(t, u, e)
  BY <1>2, <1>3 DEF EmptyRows, Gains
<1>4. CASE Same(t, u)
  BY <1>4 DEF EmptyRows, Same
<1> QED
  BY <1>3, <1>4

\* WatchedAsRows is kept by either kind of charge.
LEMMA WatchedAsRowsKept ==
    ASSUME NEW t, NEW u, NEW e, WatchedAsRows(t),
           (e \in Entries \ {Root} /\ Gains(t, u, e)) \/ Same(t, u)
    PROVE  WatchedAsRows(u)
<1>1. \A a \in Watched : a \in Entries \ {Root}
  BY RootFacts
<1>2. CASE e \in Entries \ {Root} /\ Gains(t, u, e)
  <2>1. \A x \in Entries \ {Root} :
          IF x \in Line(e) /\ Level(x) <= flags.depth
            THEN /\ u[<<"row", x>>].count = t[<<"row", x>>].count + 1
                 /\ u[<<"row", x>>].bytes = t[<<"row", x>>].bytes + Blocks(e)
            ELSE u[<<"row", x>>] = t[<<"row", x>>]
    BY <1>2 DEF Gains
  <2>2. \A a \in Watched :
          IF a \in Line(e)
            THEN /\ u[<<"watch", a>>].count = t[<<"watch", a>>].count + 1
                 /\ u[<<"watch", a>>].bytes = t[<<"watch", a>>].bytes + Blocks(e)
            ELSE u[<<"watch", a>>] = t[<<"watch", a>>]
    BY <1>2 DEF Gains
  <2> SUFFICES ASSUME NEW a \in Watched
               PROVE  IF Level(a) <= flags.depth
                        THEN /\ u[<<"watch", a>>].count = u[<<"row", a>>].count
                             /\ u[<<"watch", a>>].bytes = u[<<"row", a>>].bytes
                        ELSE u[<<"row", a>>].count = 0 /\ u[<<"row", a>>].bytes = 0
    BY DEF WatchedAsRows
  <2>3. IF Level(a) <= flags.depth
          THEN /\ t[<<"watch", a>>].count = t[<<"row", a>>].count
               /\ t[<<"watch", a>>].bytes = t[<<"row", a>>].bytes
          ELSE t[<<"row", a>>].count = 0 /\ t[<<"row", a>>].bytes = 0
    BY DEF WatchedAsRows
  <2> QED
    BY <1>1, <2>1, <2>2, <2>3
<1>3. CASE Same(t, u)
  BY <1>1, <1>3 DEF WatchedAsRows, Same
<1> QED
  BY <1>2, <1>3

\* The tree is finite, and so are its parts.
LEMMA EntriesFinite ==
    /\ IsFiniteSet(Entries) /\ IsFiniteSet(Entries \ {Root}) /\ IsFiniteSet(Watched)
    /\ \A d : IsFiniteSet(Children(d))
<1>1. IsFiniteSet(Entries) /\ Watched \in SUBSET Entries /\ Entries \ {Root} \in SUBSET Entries
  BY TreeAssumption, RootFacts
<1>2. \A d : Children(d) \in SUBSET Entries
  BY DEF Children
<1> QED
  BY <1>1, <1>2, FS_Subset

\* The slots of one kind.
Slotted(kind) == {k \in Keys : k[1] = kind}

\* The slots of a kind are finitely many: one for each owner, device, age or
\* watched directory.
LEMMA SlottedFinite ==
    /\ \A kind \in {"uid", "gid", "dev", "age", "over"} : IsFiniteSet(Slotted(kind))
    /\ Slotted("uid") = {"uid"} \X Uids /\ Slotted("gid") = {"gid"} \X Gids
    /\ Slotted("dev") = {"dev"} \X Devs /\ Slotted("age") = {"age"} \X Ages
    /\ Slotted("over") = {"over"} \X Watched
<1>1. /\ Slotted("uid") = {"uid"} \X Uids /\ Slotted("gid") = {"gid"} \X Gids
      /\ Slotted("dev") = {"dev"} \X Devs /\ Slotted("age") = {"age"} \X Ages
      /\ Slotted("over") = {"over"} \X Watched
  BY DEF Slotted, Keys
<1>2. IsFiniteSet(Uids)
  <2> DEFINE f == [e \in Entries |-> Attr[e].uid]
  <2>1. f \in Surjection(Entries, Uids)
    BY DEF Surjection, Uids
  <2> QED
    BY <2>1, EntriesFinite, FS_Surjection
<1>3. IsFiniteSet(Gids)
  <2> DEFINE f == [e \in Entries |-> Attr[e].gid]
  <2>1. f \in Surjection(Entries, Gids)
    BY DEF Surjection, Gids
  <2> QED
    BY <2>1, EntriesFinite, FS_Surjection
<1>4. IsFiniteSet(Devs)
  <2> DEFINE f == [e \in Entries |-> Attr[e].dev]
  <2>1. f \in Surjection(Entries, Devs)
    BY DEF Surjection, Devs
  <2> QED
    BY <2>1, EntriesFinite, FS_Surjection
<1>5. IsFiniteSet(Ages)
  <2> DEFINE f == [e \in Files |-> Attr[e].age]
  <2>1. f \in Surjection(Files, Ages)
    BY DEF Surjection, Ages
  <2>2. IsFiniteSet(Files)
    BY EntriesFinite, FS_Subset, RootFacts
  <2> QED
    BY <2>1, <2>2, FS_Surjection
<1>6. ASSUME NEW x, NEW T, IsFiniteSet(T) PROVE IsFiniteSet({x} \X T)
  <2>1. IsFiniteSet({x})
    BY FS_Singleton
  <2> QED
    BY <1>6, <2>1, FS_Product
<1>7. /\ IsFiniteSet({"uid"} \X Uids) /\ IsFiniteSet({"gid"} \X Gids)
      /\ IsFiniteSet({"dev"} \X Devs) /\ IsFiniteSet({"age"} \X Ages)
      /\ IsFiniteSet({"over"} \X Watched)
  BY <1>2, <1>3, <1>4, <1>5, <1>6, EntriesFinite
<1> QED
  BY <1>1, <1>7

\* One slot of a kind has gained on the others.
OneGains(t, u, kind, one, b) ==
    /\ one \in Slotted(kind)
    /\ \A k \in Slotted(kind) : IF k = one
          THEN u[k].count = t[k].count + 1 /\ u[k].bytes = t[k].bytes + b
          ELSE u[k] = t[k]

\* The total of that kind gains as much.
LEMMA TotalGains ==
    ASSUME NEW t \in Tables, NEW u \in Tables,
           NEW kind \in {"uid", "gid", "dev", "age"}, NEW one, NEW b \in Nat,
           OneGains(t, u, kind, one, b)
    PROVE  /\ Total(u, kind, "count") = Total(t, kind, "count") + 1
           /\ Total(u, kind, "bytes") = Total(t, kind, "bytes") + b
<1> DEFINE K == Slotted(kind)
           C(x) == [k \in Keys |-> x[k].count]
           B(x) == [k \in Keys |-> x[k].bytes]
<1>1. IsFiniteSet(K)
  BY SlottedFinite
<1>2. \A k \in K : k \in Keys
  BY DEF Slotted
<1>3. \A k \in K : /\ C(t)[k] \in Nat
                   /\ C(u)[k] = IF k = one THEN C(t)[k] + 1 ELSE C(t)[k]
                   /\ B(t)[k] \in Nat
                   /\ B(u)[k] = IF k = one THEN B(t)[k] + b ELSE B(t)[k]
  BY <1>2, SlotFields DEF OneGains
<1>4. /\ Total(t, kind, "count") = SumOver(C(t), K) /\ Total(u, kind, "count") = SumOver(C(u), K)
      /\ Total(t, kind, "bytes") = SumOver(B(t), K) /\ Total(u, kind, "bytes") = SumOver(B(u), K)
  BY DEF Total, Slotted
<1> HIDE DEF C, B, K
<1>5. one \in K
  BY DEF K, OneGains
<1>6. SumOver(C(u), K) = SumOver(C(t), K) + 1
  BY <1>1, <1>3, <1>5, SumBump
<1>7. SumOver(B(u), K) = SumOver(B(t), K) + b
  BY <1>1, <1>3, <1>5, SumBump
<1> QED
  BY <1>4, <1>6, <1>7

\* The total of a kind is a matter of its slots.
LEMMA TotalSame ==
    ASSUME NEW t \in Tables, NEW u \in Tables,
           NEW kind \in {"uid", "gid", "dev", "age"},
           \A k \in Slotted(kind) : u[k] = t[k]
    PROVE  /\ Total(u, kind, "count") = Total(t, kind, "count")
           /\ Total(u, kind, "bytes") = Total(t, kind, "bytes")
<1> DEFINE K == Slotted(kind)
           C(x) == [k \in Keys |-> x[k].count]
           B(x) == [k \in Keys |-> x[k].bytes]
<1>1. IsFiniteSet(K)
  BY SlottedFinite
<1>2. \A k \in K : k \in Keys
  BY DEF Slotted
<1>3. \A k \in K : /\ C(t)[k] \in Nat /\ C(u)[k] = C(t)[k]
                   /\ B(t)[k] \in Nat /\ B(u)[k] = B(t)[k]
  BY <1>2, SlotFields
<1>4. /\ Total(t, kind, "count") = SumOver(C(t), K) /\ Total(u, kind, "count") = SumOver(C(u), K)
      /\ Total(t, kind, "bytes") = SumOver(B(t), K) /\ Total(u, kind, "bytes") = SumOver(B(u), K)
  BY DEF Total, Slotted
<1> HIDE DEF C, B, K
<1>5. SumOver(C(u), K) = SumOver(C(t), K)
  BY <1>1, <1>3, SumSame
<1>6. SumOver(B(u), K) = SumOver(B(t), K)
  BY <1>1, <1>3, SumSame
<1> QED
  BY <1>4, <1>5, <1>6

\* The tables by owner, filesystem and age are of one population.
OwnedOnce(t) ==
    ~flags.count =>
        /\ \A kind \in {"uid", "gid", "dev"} :
              /\ Total(t, kind, "bytes") = t[<<"size">>].bytes
              /\ Total(t, kind, "count") = InodesOf(t)
        /\ Total(t, "age", "count") = t[<<"files">>].count - t[<<"extra">>].count

\* OwnedOnce is kept by either kind of charge.
LEMMA OwnedOnceKept ==
    ASSUME NEW t, NEW u, NEW e, OwnedOnce(t),
           (e \in Entries \ {Root} /\ Gains(t, u, e)) \/ Same(t, u)
    PROVE  OwnedOnce(u)
<1> SUFFICES ASSUME ~flags.count PROVE OwnedOnce(u)
  BY DEF OwnedOnce
<1>1. t \in Tables /\ u \in Tables /\ (e \in Entries => Blocks(e) \in Nat)
  BY FigureTypes DEF Gains, Same
<1>2. /\ \A k \in Slotted("uid") : k[2] \in Uids /\ k = <<"uid", k[2]>>
      /\ \A k \in Slotted("gid") : k[2] \in Gids /\ k = <<"gid", k[2]>>
      /\ \A k \in Slotted("dev") : k[2] \in Devs /\ k = <<"dev", k[2]>>
      /\ \A k \in Slotted("age") : k[2] \in Ages /\ k = <<"age", k[2]>>
  BY SlottedFinite
<1>3. CASE e \in Entries \ {Root} /\ Gains(t, u, e)
  <2>1. e \in Entries /\ Blocks(e) \in Nat
    BY <1>1, <1>3
  <2>2. /\ <<"uid", Attr[e].uid>> \in Slotted("uid") /\ <<"gid", Attr[e].gid>> \in Slotted("gid")
        /\ <<"dev", Attr[e].dev>> \in Slotted("dev")
    BY <2>1, SlottedFinite DEF Uids, Gids, Devs
  <2>3. /\ OneGains(t, u, "uid", <<"uid", Attr[e].uid>>, Blocks(e))
        /\ OneGains(t, u, "gid", <<"gid", Attr[e].gid>>, Blocks(e))
        /\ OneGains(t, u, "dev", <<"dev", Attr[e].dev>>, Blocks(e))
    BY <1>2, <1>3, <2>2 DEF Gains, OneGains
  <2>4. \A kind \in {"uid", "gid", "dev"} :
              /\ Total(u, kind, "count") = Total(t, kind, "count") + 1
              /\ Total(u, kind, "bytes") = Total(t, kind, "bytes") + Blocks(e)
    <3>1. \A kind \in {"uid", "gid", "dev"} : \E one : OneGains(t, u, kind, one, Blocks(e))
      BY <2>3
    <3> QED
      BY <1>1, <2>1, <3>1, TotalGains
  <2>5. Total(u, "age", "count") = Total(t, "age", "count") + (IF e \in Files THEN 1 ELSE 0)
    <3>1. CASE e \in Files
      <4>1. <<"age", Attr[e].age>> \in Slotted("age")
        BY <3>1, SlottedFinite DEF Ages
      <4>2. OneGains(t, u, "age", <<"age", Attr[e].age>>, Blocks(e))
        BY <1>2, <1>3, <3>1, <4>1 DEF Gains, OneGains
      <4> QED
        BY <1>1, <2>1, <3>1, <4>2, TotalGains
    <3>2. CASE e \notin Files
      <4>1. \A k \in Slotted("age") : u[k] = t[k]
        BY <1>2, <1>3, <3>2 DEF Gains
      <4>2. Total(u, "age", "count") = Total(t, "age", "count")
        BY <1>1, <4>1, TotalSame
      <4>3. Total(t, "age", "count") \in Int
        <5>1. t[<<"files">>].count \in Nat /\ t[<<"extra">>].count \in Nat
          BY <1>1, KeysIn, SlotFields
        <5> QED
          BY <5>1 DEF OwnedOnce
      <4> QED
        BY <3>2, <4>2, <4>3
    <3> QED
      BY <3>1, <3>2
  <2>6. /\ InodesOf(u) = InodesOf(t) + 1
        /\ u[<<"files">>].count - u[<<"extra">>].count
             = t[<<"files">>].count - t[<<"extra">>].count + (IF e \in Files THEN 1 ELSE 0)
        /\ u[<<"size">>].bytes = t[<<"size">>].bytes + Blocks(e)
    BY <1>3 DEF Gains
  <2> QED
    BY <2>4, <2>5, <2>6 DEF OwnedOnce
<1>4. CASE Same(t, u)
  <2>1. \A kind \in {"uid", "gid", "dev", "age"} : \A k \in Slotted(kind) : u[k] = t[k]
    BY <1>2, <1>4 DEF Same
  <2>2. \A kind \in {"uid", "gid", "dev", "age"} :
              /\ Total(u, kind, "count") = Total(t, kind, "count")
              /\ Total(u, kind, "bytes") = Total(t, kind, "bytes")
    BY <1>1, <2>1, TotalSame
  <2> QED
    BY <1>4, <2>2 DEF OwnedOnce, Same
<1> QED
  BY <1>3, <1>4

\* Watched directories of which none is in another add up to no more than the
\* tree.
WatchFigures(t, field) == [a \in Watched |-> t[<<"watch", a>>][field]]
Apart(A) == \A a, b \in A : a \in Line(b) => a = b
PackedOnce(t) ==
    \A A \in SUBSET Watched : Apart(A) =>
        /\ SumOver(WatchFigures(t, "count"), A) <= InodesOf(t)
        /\ SumOver(WatchFigures(t, "bytes"), A) <= t[<<"size">>].bytes

\* The figures of watched directories are natural numbers.
LEMMA WatchFigureTypes ==
    ASSUME NEW t \in Tables
    PROVE  \A a \in Watched :
              /\ WatchFigures(t, "count")[a] = t[<<"watch", a>>].count
              /\ WatchFigures(t, "bytes")[a] = t[<<"watch", a>>].bytes
              /\ t[<<"watch", a>>].count \in Nat /\ t[<<"watch", a>>].bytes \in Nat
<1>1. \A a \in Watched : t[<<"watch", a>>].count \in Nat /\ t[<<"watch", a>>].bytes \in Nat
  BY KeysIn, SlotFields
<1> QED
  BY <1>1 DEF WatchFigures

\* The totals of a table are numbers.
LEMMA TableFigures ==
    ASSUME NEW t \in Tables
    PROVE  InodesOf(t) \in Int /\ t[<<"size">>].bytes \in Nat
<1>1. /\ t[<<"files">>].count \in Nat /\ t[<<"dirs">>].count \in Nat
      /\ t[<<"extra">>].count \in Nat /\ t[<<"size">>].bytes \in Nat
  BY KeysIn, SlotFields
<1> QED
  BY <1>1 DEF InodesOf

\* Of two entries of a line, one is in the line of the other.
LEMMA LineChain ==
    ASSUME NEW e \in Entries, NEW a \in Line(e), NEW b \in Line(e), Level(a) <= Level(b)
    PROVE  a \in Line(b)
<1> DEFINE Below(l) == \A x \in Entries : Line(x) \subseteq Line(e) /\ x \in Line(e) /\ Level(x) >= Level(a) => a \in Line(x)
           bad == {x \in Entries \ {Root} : x \in Line(e) /\ Level(x) >= Level(a) /\ a \notin Line(x)}
<1>1. ASSUME bad # {} PROVE FALSE
  <2>1. PICK x \in bad : Parent[x] \in Entries /\ Parent[x] \notin bad
    BY <1>1, FirstInTree
  <2>2. /\ x \in Entries \ {Root} /\ x \in Line(e) /\ Level(x) >= Level(a) /\ a \notin Line(x)
        /\ Line(x) = Line(Parent[x]) \cup {x} /\ Level(x) = Level(Parent[x]) + 1
        /\ Level(Parent[x]) \in Nat
    BY <2>1, LineStep
  <2>3. Level(a) # Level(x)
    BY <2>2, LineLevels
  <2>4. Level(a) \in Nat /\ Level(a) # 0
    BY LineIn, LevelNat
  <2>5. Level(Parent[x]) >= Level(a) /\ Parent[x] # Root
    BY <2>2, <2>3, <2>4, RootLine
  <2>6. Parent[x] \in Line(e)
    BY <2>2, <2>5, LineBelow
  <2>7. a \in Line(Parent[x])
    BY <2>1, <2>5, <2>6
  <2> QED
    BY <2>2, <2>7
<1>2. b \in Entries \ {Root} /\ Level(b) \in Nat /\ Level(a) \in Nat
  BY LineIn, LevelNat
<1> QED
  BY <1>1, <1>2

\* PackedOnce is kept by either kind of charge: an entry has at most one of the
\* directories that are apart on its line.
LEMMA PackedOnceKept ==
    ASSUME NEW t, NEW u, NEW e, PackedOnce(t),
           (e \in Entries \ {Root} /\ Gains(t, u, e)) \/ Same(t, u)
    PROVE  PackedOnce(u)
<1> SUFFICES ASSUME NEW A \in SUBSET Watched, Apart(A)
             PROVE  /\ SumOver(WatchFigures(u, "count"), A) <= InodesOf(u)
                    /\ SumOver(WatchFigures(u, "bytes"), A) <= u[<<"size">>].bytes
  BY DEF PackedOnce
<1>1. t \in Tables /\ u \in Tables /\ (e \in Entries => Blocks(e) \in Nat)
  BY FigureTypes DEF Gains, Same
<1> DEFINE C == WatchFigures(t, "count")
           B == WatchFigures(t, "bytes")
           C1 == WatchFigures(u, "count")
           B1 == WatchFigures(u, "bytes")
<1>2. IsFiniteSet(A)
  BY EntriesFinite, FS_Subset
<1>3. \A a \in A : /\ C[a] = t[<<"watch", a>>].count /\ B[a] = t[<<"watch", a>>].bytes
                   /\ C1[a] = u[<<"watch", a>>].count /\ B1[a] = u[<<"watch", a>>].bytes
                   /\ C[a] \in Nat /\ B[a] \in Nat
  BY <1>1, WatchFigureTypes
<1>4. SumOver(C, A) <= InodesOf(t) /\ SumOver(B, A) <= t[<<"size">>].bytes
  BY DEF PackedOnce
<1> HIDE DEF C, B, C1, B1
<1>5. /\ SumOver(C, A) \in Nat /\ SumOver(B, A) \in Nat
      /\ InodesOf(t) \in Int /\ t[<<"size">>].bytes \in Nat
  BY <1>1, <1>2, <1>3, SumNat, TableFigures
<1>6. CASE Same(t, u)
  <2>1. \A a \in Watched : u[<<"watch", a>>] = t[<<"watch", a>>]
    BY <1>6 DEF Same
  <2>2. \A a \in A : C1[a] = C[a] /\ B1[a] = B[a]
    BY <1>3, <2>1
  <2>3. SumOver(C1, A) = SumOver(C, A) /\ SumOver(B1, A) = SumOver(B, A)
    BY <1>2, <1>3, <2>2, SumSame
  <2> QED
    BY <1>4, <1>6, <2>3 DEF Same, C1, B1
<1>7. CASE e \in Entries \ {Root} /\ Gains(t, u, e)
  <2>1. e \in Entries /\ Blocks(e) \in Nat
    BY <1>1, <1>7
  <2>2. InodesOf(u) = InodesOf(t) + 1 /\ u[<<"size">>].bytes = t[<<"size">>].bytes + Blocks(e)
    BY <1>7 DEF Gains
  <2>3. \A a \in A : IF a \in Line(e) THEN C1[a] = C[a] + 1 /\ B1[a] = B[a] + Blocks(e)
                     ELSE C1[a] = C[a] /\ B1[a] = B[a]
    <3>1. \A a \in Watched :
             IF a \in Line(e)
               THEN /\ u[<<"watch", a>>].count = t[<<"watch", a>>].count + 1
                    /\ u[<<"watch", a>>].bytes = t[<<"watch", a>>].bytes + Blocks(e)
               ELSE u[<<"watch", a>>] = t[<<"watch", a>>]
      BY <1>7 DEF Gains
    <3> QED
      BY <1>3, <3>1
  <2>4. CASE \E x \in A : x \in Line(e)
    <3>1. PICK x \in A : x \in Line(e)
      BY <2>4
    <3>2. ASSUME NEW a \in A, a \in Line(e) PROVE a = x
      <4>1. Level(a) \in Nat /\ Level(x) \in Nat
        BY LevelNat, RootFacts
      <4>2. a \in Line(x) \/ x \in Line(a)
        BY <2>1, <3>1, <3>2, <4>1, LineChain
      <4> QED
        BY <4>2 DEF Apart
    <3>3. \A a \in A : C[a] \in Nat /\ C1[a] = IF a = x THEN C[a] + 1 ELSE C[a]
      BY <1>3, <2>3, <3>1, <3>2
    <3>4. \A a \in A : B[a] \in Nat /\ B1[a] = IF a = x THEN B[a] + Blocks(e) ELSE B[a]
      BY <1>3, <2>3, <3>1, <3>2
    <3>5. SumOver(C1, A) = SumOver(C, A) + 1
      BY <1>2, <3>3, SumBump
    <3>6. SumOver(B1, A) = SumOver(B, A) + Blocks(e)
      BY <1>2, <2>1, <3>4, SumBump
    <3> QED
      BY <2>1, <1>4, <1>5, <2>2, <3>5, <3>6 DEF C1, B1
  <2>5. CASE ~ \E x \in A : x \in Line(e)
    <3>1. \A a \in A : C1[a] = C[a] /\ B1[a] = B[a]
      BY <2>3, <2>5
    <3>2. SumOver(C1, A) = SumOver(C, A) /\ SumOver(B1, A) = SumOver(B, A)
      BY <1>2, <1>3, <3>1, SumSame
    <3> QED
      BY <2>1, <1>4, <1>5, <2>2, <3>2 DEF C1, B1
  <2> QED
    BY <2>4, <2>5
<1> QED
  BY <1>6, <1>7

-----------------------------------------------------------------------------
(* What is still to be read.                                               *)

\* An entry has been counted, as far as its row and its watched slot say.
Touched(t, x) ==
    /\ Level(x) <= flags.depth => t[<<"row", x>>].count > 0
    /\ x \in Watched => t[<<"watch", x>>].count > 0
Untouched(t, x) ==
    /\ Level(x) <= flags.depth => t[<<"row", x>>].count = 0
    /\ x \in Watched => t[<<"watch", x>>].count = 0

\* x is in the tree below q.
Below(x, q) == x # Root /\ (q = Root \/ q \in Line(Parent[x]))

\* Q are the directories that wait, U the entries that the scan of a directory
\* has not come to: nothing below the ones, nor at or below the others, has been
\* counted, and all above them has.
Frontier(t, Q, U) ==
    /\ Q \subseteq Dirs /\ U \subseteq Entries \ {Root}
    /\ \A q \in Q : \A x \in Line(q) : Touched(t, x)
    /\ \A q \in Q : \A x \in Entries : Below(x, q) => Untouched(t, x)
    /\ \A u \in U : \A x \in Line(Parent[u]) : Touched(t, x)
    /\ \A u \in U : \A x \in Entries : u \in Line(x) => Untouched(t, x)
    /\ \A p \in Q : \A q \in Q \cup U : ~Below(q, p)
    /\ \A u \in U : \A q \in Q \cup U : q # u => u \notin Line(q)

\* The frontier moves past an entry that is counted; a directory joins the queue.
LEMMA FrontierCounted ==
    ASSUME NEW t, NEW u, NEW Q, NEW U, NEW e \in U, Frontier(t, Q, U), Gains(t, u, e)
    PROVE  Frontier(u, IF e \in Dirs THEN Q \cup {e} ELSE Q, U \ {e})
<1> DEFINE R == IF e \in Dirs THEN Q \cup {e} ELSE Q
           V == U \ {e}
<1>1. /\ e \in Entries \ {Root} /\ Parent[e] \in Entries
      /\ Line(e) = Line(Parent[e]) \cup {e} /\ Line(e) \subseteq Entries \ {Root}
      /\ Q \subseteq Dirs /\ U \subseteq Entries \ {Root} /\ R \subseteq Dirs
      /\ \A x \in R : x \in Q \/ x = e
  <2>1. e \in Entries \ {Root}
    BY DEF Frontier
  <2> QED
    BY <2>1, LineStep, LineIn, RootFacts DEF Frontier
<1>2. t \in Tables /\ u \in Tables
  BY DEF Gains
<1>3. \A x \in Entries \ {Root} : t[<<"row", x>>].count \in Nat
  BY <1>2, KeysIn, SlotFields
<1>4. \A x \in Watched : t[<<"watch", x>>].count \in Nat
  BY <1>2, KeysIn, SlotFields
<1>5. \A x \in Entries \ {Root} : Touched(t, x) => Touched(u, x)
  BY <1>3, <1>4 DEF Touched, Gains
<1>6. \A x \in Line(e) : Touched(u, x)
  <2> TAKE x \in Line(e)
  <2>1. x \in Entries \ {Root}
    BY <1>1
  <2>2. Level(x) <= flags.depth => u[<<"row", x>>].count = t[<<"row", x>>].count + 1
    BY <2>1 DEF Gains
  <2>3. x \in Watched => u[<<"watch", x>>].count = t[<<"watch", x>>].count + 1
    BY DEF Gains
  <2> QED
    BY <1>3, <1>4, <2>1, <2>2, <2>3 DEF Touched
<1>7. \A x \in Entries \ {Root} : x \notin Line(e) /\ Untouched(t, x) => Untouched(u, x)
  BY DEF Untouched, Gains
<1>8. /\ \A q \in Q : \A x \in Line(q) : Touched(t, x)
      /\ \A q \in Q : \A x \in Entries : Below(x, q) => Untouched(t, x)
      /\ \A v \in U : \A x \in Line(Parent[v]) : Touched(t, x)
      /\ \A v \in U : \A x \in Entries : v \in Line(x) => Untouched(t, x)
      /\ \A p \in Q : \A q \in Q \cup U : ~Below(q, p)
      /\ \A v \in U : \A q \in Q \cup U : q # v => v \notin Line(q)
  BY DEF Frontier
<1>9. \A x \in Line(e) : Line(x) \subseteq Line(e) /\ (Parent[x] = Root \/ Parent[x] \in Line(e))
  BY <1>1, LineBelow
<1>10. \A x \in Entries \ {Root} : Line(Parent[x]) \subseteq Line(x) /\ x \in Line(x)
  BY LineStep
<1>11. \A x \in Entries : Line(x) \subseteq Entries \ {Root} /\ Line(Root) = {}
  BY LineIn, RootLine
<1> HIDE DEF R
<1>12. ASSUME NEW q \in R, NEW x \in Line(q) PROVE Touched(u, x)
  <2>1. q \in Entries /\ x \in Entries \ {Root}
    BY <1>1, <1>11, RootFacts
  <2> QED
    BY <1>1, <1>5, <1>6, <1>8, <2>1
<1>13. ASSUME NEW q \in R, NEW x \in Entries, Below(x, q) PROVE Untouched(u, x)
  <2>1. x \in Entries \ {Root} /\ Parent[x] \in Entries
    BY <1>13, RootFacts DEF Below
  <2>2. CASE q \in Q
    <3>1. x \notin Line(e)
      <4>1. x \in Line(e) => Below(e, q)
        <5>1. ASSUME x \in Line(e), q # Root PROVE q \in Line(Parent[e])
          <6>1. q \in Line(Parent[x])
            BY <1>13, <5>1 DEF Below
          <6>2. x = e \/ x \in Line(Parent[e])
            BY <1>1, <5>1
          <6>3. x \in Line(Parent[e]) => Line(x) \subseteq Line(Parent[e])
            BY <1>1, LineBelow
          <6> QED
            BY <1>10, <2>1, <6>1, <6>2, <6>3
        <5> QED
          BY <1>1, <5>1 DEF Below
      <4> QED
        BY <1>8, <2>2, <4>1
    <3> QED
      BY <1>7, <1>8, <1>13, <2>1, <2>2, <3>1
  <2>3. CASE q = e
    <3>1. e \in Line(Parent[x])
      BY <1>1, <1>13, <2>3 DEF Below
    <3>2. e \in Line(x) /\ Untouched(t, x)
      BY <1>8, <1>10, <2>1, <3>1
    <3>3. x \notin Line(e)
      <4>1. Level(x) = Level(Parent[x]) + 1 /\ Level(Parent[x]) \in Nat
        BY <2>1, LineStep
      <4>2. Level(e) \in 1..Level(Parent[x])
        BY <2>1, <3>1, LineLevels
      <4>3. x \in Line(e) => Level(x) \in 1..Level(e)
        BY <1>1, LineLevels
      <4> QED
        BY <4>1, <4>2, <4>3
    <3> QED
      BY <1>7, <2>1, <3>2, <3>3
  <2> QED
    BY <1>1, <2>2, <2>3
<1>14. ASSUME NEW v \in V, NEW x \in Line(Parent[v]) PROVE Touched(u, x)
  <2>1. Parent[v] \in Entries
    BY <1>1, RootFacts
  <2> QED
    BY <1>5, <1>8, <1>11, <2>1
<1>15. ASSUME NEW v \in V, NEW x \in Entries, v \in Line(x) PROVE Untouched(u, x)
  <2>1. x # Root
    BY <1>15, RootLine
  <2>2. x \notin Line(e)
    <3>1. x \in Line(e) => v \in Line(e)
      BY <1>9, <1>15
    <3> QED
      BY <1>8, <3>1
  <2> QED
    BY <1>7, <1>8, <1>15, <2>1, <2>2
<1>16. ASSUME NEW p \in R, NEW q \in R \cup V PROVE ~Below(q, p)
  <2>1. q \in Q \cup U
    BY <1>1
  <2>2. CASE p \in Q
    BY <1>8, <2>1, <2>2
  <2>3. CASE p = e
    <3>1. ASSUME Below(q, p) PROVE FALSE
      <4>1. q # Root /\ e \in Line(Parent[q])
        BY <1>1, <2>3, <3>1 DEF Below
      <4>2. q \in Entries \ {Root}
        BY <1>1, <2>1, <4>1, RootFacts
      <4>3. e \in Line(q)
        BY <1>10, <4>1, <4>2
      <4>4. q # e
        <5>1. Level(q) = Level(Parent[q]) + 1 /\ Level(Parent[q]) \in Nat
          BY <4>2, LineStep
        <5>2. Level(e) \in 1..Level(Parent[q])
          BY <4>1, <4>2, RootFacts, LineLevels
        <5> QED
          BY <5>1, <5>2
      <4> QED
        BY <1>8, <2>1, <4>3, <4>4
    <3> QED
      BY <3>1
  <2> QED
    BY <1>1, <2>2, <2>3
<1>17. ASSUME NEW v \in V, NEW q \in R \cup V, q # v PROVE v \notin Line(q)
  BY <1>1, <1>8, <1>17
<1>18. V \subseteq Entries \ {Root}
  BY <1>1
<1> HIDE DEF V
<1>19. Frontier(u, R, V)
  BY <1>1, <1>12, <1>13, <1>14, <1>15, <1>16, <1>17, <1>18 DEF Frontier
<1> QED
  BY <1>19 DEF R, V

\* A charge that counts nothing does not move the frontier.
LEMMA FrontierSame ==
    ASSUME NEW t, NEW u, NEW Q, NEW U, Frontier(t, Q, U), Same(t, u)
    PROVE  Frontier(u, Q, U)
<1>1. \A x \in Entries \ {Root} : /\ Touched(t, x) => Touched(u, x)
                                  /\ Untouched(t, x) => Untouched(u, x)
  BY DEF Touched, Untouched, Same
<1>2. \A q \in Entries : Line(q) \subseteq Entries \ {Root}
  BY LineIn
<1>3. Q \subseteq Entries /\ \A v \in U : Parent[v] \in Entries
  BY RootFacts DEF Frontier
<1>4. /\ \A q \in Q : \A x \in Line(q) : Touched(u, x)
      /\ \A v \in U : \A x \in Line(Parent[v]) : Touched(u, x)
  BY <1>1, <1>2, <1>3 DEF Frontier
<1>5. \A q \in Q : \A x \in Entries : Below(x, q) => Untouched(u, x)
  BY <1>1 DEF Frontier, Below
<1>6. \A v \in U : \A x \in Entries : v \in Line(x) => Untouched(u, x)
  <2>1. \A v \in U : v \notin Line(Root)
    BY RootLine
  <2> QED
    BY <1>1, <2>1 DEF Frontier
<1> QED
  BY <1>4, <1>5, <1>6 DEF Frontier

\* A directory that is taken from the queue leaves its entries to be read.
LEMMA FrontierTaken ==
    ASSUME NEW t, NEW Q, NEW d \in Q, Frontier(t, Q, {})
    PROVE  Frontier(t, Q \ {d}, Children(d))
<1> DEFINE U == Children(d)
           R == Q \ {d}
<1>1. /\ d \in Entries /\ d \in Dirs /\ Q \subseteq Dirs /\ Q \subseteq Entries
      /\ U \subseteq Entries \ {Root} /\ \A v \in U : Parent[v] = d
  BY RootFacts DEF Frontier, Children
<1>2. /\ \A q \in Q : \A x \in Line(q) : Touched(t, x)
      /\ \A q \in Q : \A x \in Entries : Below(x, q) => Untouched(t, x)
      /\ \A p \in Q : \A q \in Q : ~Below(q, p)
  BY DEF Frontier
<1>3. \A v \in U : Line(v) = Line(d) \cup {v} /\ (d = Root \/ d \in Line(d))
  BY <1>1, LineStep, LineIn
<1>4. ASSUME NEW v \in U, NEW x \in Entries, v \in Line(x) PROVE Below(x, d) /\ x # Root
  <2>1. x # Root
    BY <1>4, RootLine
  <2>2. Line(x) = Line(Parent[x]) \cup {x} /\ Parent[x] \in Entries
    BY <2>1, LineStep, RootFacts
  <2>3. CASE v = x
    BY <1>1, <1>3, <2>1, <2>3 DEF Below
  <2>4. CASE v # x
    <3>1. v \in Line(Parent[x])
      BY <1>4, <2>2, <2>4
    <3>2. Line(v) \subseteq Line(Parent[x])
      BY <2>2, <3>1, LineBelow
    <3> QED
      BY <1>3, <2>1, <3>2 DEF Below
  <2> QED
    BY <2>3, <2>4
<1>5. ASSUME NEW p \in R, NEW q \in R \cup U PROVE ~Below(q, p)
  <2>1. CASE q \in R
    BY <1>2, <2>1
  <2>2. CASE q \in U
    <3>1. ASSUME Below(q, p) PROVE FALSE
      <4>1. p = Root \/ p \in Line(d)
        BY <1>1, <2>2, <3>1 DEF Below
      <4>2. CASE d = Root
        <5>1. p \notin Line(d) /\ p # d
          BY <4>2, RootLine
        <5> QED
          BY <4>1, <4>2, <5>1
      <4>3. CASE d # Root
        <5>1. p # Root => p \in Line(Parent[d])
          BY <1>1, <4>1, <4>3, LineStep
        <5> QED
          BY <1>2, <4>3, <5>1 DEF Below
      <4> QED
        BY <4>2, <4>3
    <3> QED
      BY <3>1
  <2> QED
    BY <2>1, <2>2
<1>6. ASSUME NEW v \in U, NEW q \in R \cup U, q # v PROVE v \notin Line(q)
  <2>1. CASE q \in R
    BY <1>1, <1>2, <1>4, <2>1
  <2>2. CASE q \in U
    <3>1. v \in Line(q) => v \in Line(d)
      BY <1>3, <1>6, <2>2
    <3>2. v \notin Line(d)
      <4>1. v \in Line(d) => Below(d, d)
        BY <1>1, <1>4
      <4> QED
        BY <1>2, <4>1
    <3> QED
      BY <3>1, <3>2
  <2> QED
    BY <2>1, <2>2
<1>7. R \subseteq Dirs
  BY <1>1
<1>8. \A v \in U : \A x \in Line(Parent[v]) : Touched(t, x)
  BY <1>1, <1>2
<1>9. \A v \in U : \A x \in Entries : v \in Line(x) => Untouched(t, x)
  BY <1>2, <1>4
<1>10. \A q \in R : \A x \in Line(q) : Touched(t, x)
  BY <1>2
<1>11. \A q \in R : \A x \in Entries : Below(x, q) => Untouched(t, x)
  BY <1>2
<1> HIDE DEF U, R
<1>12. Frontier(t, R, U)
  BY <1>1, <1>5, <1>6, <1>7, <1>8, <1>9, <1>10, <1>11 DEF Frontier
<1> QED
  BY <1>12 DEF U, R

\* What the scan has not come to, when it ends, does not matter.
LEMMA FrontierLeft ==
    ASSUME NEW t, NEW Q, NEW U, Frontier(t, Q, U), NEW V \in SUBSET U
    PROVE  Frontier(t, Q, V)
  BY DEF Frontier

\* Each directory's row is its inode and the rows of its children.
ChildSum(t, d, field) == SumOver(RowFigures(t, field), Children(d))
RowsAdd(t) ==
    \A d \in Dirs : Level(d) < flags.depth =>
        IF d = Root
          THEN /\ InodesOf(t) = 1 + ChildSum(t, d, "count")
               /\ t[<<"size">>].bytes = Blocks(d) + ChildSum(t, d, "bytes")
          ELSE t[<<"row", d>>].count > 0 =>
               /\ t[<<"row", d>>].count = 1 + ChildSum(t, d, "count")
               /\ t[<<"row", d>>].bytes = Blocks(d) + ChildSum(t, d, "bytes")

\* The figures of rows are natural numbers.
LEMMA RowFigureTypes ==
    ASSUME NEW t \in Tables
    PROVE  \A x \in Entries \ {Root} :
              /\ RowFigures(t, "count")[x] = t[<<"row", x>>].count
              /\ RowFigures(t, "bytes")[x] = t[<<"row", x>>].bytes
              /\ t[<<"row", x>>].count \in Nat /\ t[<<"row", x>>].bytes \in Nat
<1>1. \A x \in Entries \ {Root} : t[<<"row", x>>].count \in Nat /\ t[<<"row", x>>].bytes \in Nat
  BY KeysIn, SlotFields
<1> QED
  BY <1>1 DEF RowFigures

\* The rows of the children add up to natural numbers.
LEMMA ChildSumNat ==
    ASSUME NEW t \in Tables, NEW d
    PROVE  ChildSum(t, d, "count") \in Nat /\ ChildSum(t, d, "bytes") \in Nat
<1> DEFINE C == RowFigures(t, "count")
           B == RowFigures(t, "bytes")
           S == Children(d)
<1>1. \A x \in S : C[x] \in Nat /\ B[x] \in Nat
  BY RowFigureTypes DEF Children
<1>2. IsFiniteSet(S)
  BY EntriesFinite
<1> HIDE DEF C, B, S
<1>3. SumOver(C, S) \in Nat /\ SumOver(B, S) \in Nat
  BY <1>1, <1>2, SumNat
<1> QED
  BY <1>3 DEF ChildSum, C, B, S

\* The sum is a matter of the children's rows.
LEMMA ChildSumSame ==
    ASSUME NEW t \in Tables, NEW u \in Tables, NEW d,
           \A x \in Children(d) : u[<<"row", x>>] = t[<<"row", x>>]
    PROVE  /\ ChildSum(u, d, "count") = ChildSum(t, d, "count")
           /\ ChildSum(u, d, "bytes") = ChildSum(t, d, "bytes")
<1> DEFINE C == RowFigures(t, "count")
           B == RowFigures(t, "bytes")
           C1 == RowFigures(u, "count")
           B1 == RowFigures(u, "bytes")
           S == Children(d)
<1>1. \A x \in S : C[x] \in Nat /\ C1[x] = C[x]
  BY RowFigureTypes DEF Children
<1>2. \A x \in S : B[x] \in Nat /\ B1[x] = B[x]
  BY RowFigureTypes DEF Children
<1>3. IsFiniteSet(S)
  BY EntriesFinite
<1> HIDE DEF C, B, C1, B1, S
<1>4. SumOver(C1, S) = SumOver(C, S)
  BY <1>1, <1>3, SumSame
<1>5. SumOver(B1, S) = SumOver(B, S)
  BY <1>2, <1>3, SumSame
<1> QED
  BY <1>4, <1>5 DEF ChildSum, C, B, C1, B1, S

\* The sum gains what one child's row gains.
LEMMA ChildSumGains ==
    ASSUME NEW t \in Tables, NEW u \in Tables, NEW d, NEW c \in Children(d), NEW b \in Nat,
           u[<<"row", c>>].count = t[<<"row", c>>].count + 1,
           u[<<"row", c>>].bytes = t[<<"row", c>>].bytes + b,
           \A x \in Children(d) : x # c => u[<<"row", x>>] = t[<<"row", x>>]
    PROVE  /\ ChildSum(u, d, "count") = ChildSum(t, d, "count") + 1
           /\ ChildSum(u, d, "bytes") = ChildSum(t, d, "bytes") + b
<1> DEFINE C == RowFigures(t, "count")
           B == RowFigures(t, "bytes")
           C1 == RowFigures(u, "count")
           B1 == RowFigures(u, "bytes")
           S == Children(d)
<1>1. \A x \in S : C[x] \in Nat /\ C1[x] = IF x = c THEN C[x] + 1 ELSE C[x]
  BY RowFigureTypes DEF Children
<1>2. \A x \in S : B[x] \in Nat /\ B1[x] = IF x = c THEN B[x] + b ELSE B[x]
  BY RowFigureTypes DEF Children
<1>3. IsFiniteSet(S) /\ c \in S
  BY EntriesFinite
<1> HIDE DEF C, B, C1, B1, S
<1>4. SumOver(C1, S) = SumOver(C, S) + 1
  BY <1>1, <1>3, SumBump
<1>5. SumOver(B1, S) = SumOver(B, S) + b
  BY <1>2, <1>3, SumBump
<1> QED
  BY <1>4, <1>5 DEF ChildSum, C, B, C1, B1, S

\* Children without figures add up to zero.
LEMMA ChildSumZero ==
    ASSUME NEW t \in Tables, NEW d,
           \A x \in Children(d) : t[<<"row", x>>].count = 0 /\ t[<<"row", x>>].bytes = 0
    PROVE  ChildSum(t, d, "count") = 0 /\ ChildSum(t, d, "bytes") = 0
<1> DEFINE C == RowFigures(t, "count")
           B == RowFigures(t, "bytes")
           S == Children(d)
<1>1. \A x \in S : C[x] = 0 /\ B[x] = 0
  BY RowFigureTypes DEF Children
<1>2. IsFiniteSet(S)
  BY EntriesFinite
<1> HIDE DEF C, B, S
<1>3. SumOver(C, S) = 0 /\ SumOver(B, S) = 0
  BY <1>1, <1>2, SumZero
<1> QED
  BY <1>3 DEF ChildSum, C, B, S

\* RowsAdd is kept by a charge that counts nothing.
LEMMA RowsAddSame ==
    ASSUME NEW t, NEW u, RowsAdd(t), Same(t, u)
    PROVE  RowsAdd(u)
<1>1. /\ t \in Tables /\ u \in Tables /\ InodesOf(u) = InodesOf(t)
      /\ u[<<"size">>] = t[<<"size">>]
      /\ \A x \in Entries \ {Root} : u[<<"row", x>>] = t[<<"row", x>>]
  BY DEF Same
<1>2. \A d : /\ ChildSum(u, d, "count") = ChildSum(t, d, "count")
             /\ ChildSum(u, d, "bytes") = ChildSum(t, d, "bytes")
  <2> TAKE d
  <2>1. \A x \in Children(d) : u[<<"row", x>>] = t[<<"row", x>>]
    BY <1>1 DEF Children
  <2> QED
    BY <1>1, <2>1, ChildSumSame
<1>3. \A d \in Dirs : d # Root => u[<<"row", d>>] = t[<<"row", d>>]
  BY <1>1, RootFacts
<1> QED
  BY <1>1, <1>2, <1>3 DEF RowsAdd

\* RowsAdd is kept by a charge that counts an entry: a directory above it has one
\* child on the way to it, and a directory that is counted has none with figures.
LEMMA RowsAddGains ==
    ASSUME flags.depth \in Nat, NEW t, NEW u, NEW Q, NEW U, NEW e \in U, Frontier(t, Q, U),
           EmptyRows(t), RowsAdd(t), Gains(t, u, e)
    PROVE  RowsAdd(u)
<1>1. e \in Entries \ {Root} /\ Parent[e] \in Entries
      /\ Line(e) = Line(Parent[e]) \cup {e} /\ Line(e) \subseteq Entries \ {Root}
  <2>1. e \in Entries \ {Root}
    BY DEF Frontier
  <2> QED
    BY <2>1, LineStep, LineIn, RootFacts
<1>2. t \in Tables /\ u \in Tables /\ Blocks(e) \in Nat
  BY <1>1, FigureTypes DEF Gains
<1>3. /\ InodesOf(u) = InodesOf(t) + 1
      /\ u[<<"size">>].bytes = t[<<"size">>].bytes + Blocks(e)
      /\ \A x \in Entries \ {Root} :
            IF x \in Line(e) /\ Level(x) <= flags.depth
              THEN /\ u[<<"row", x>>].count = t[<<"row", x>>].count + 1
                   /\ u[<<"row", x>>].bytes = t[<<"row", x>>].bytes + Blocks(e)
              ELSE u[<<"row", x>>] = t[<<"row", x>>]
  BY DEF Gains
<1> SUFFICES ASSUME NEW d \in Dirs, Level(d) < flags.depth
             PROVE  IF d = Root
               THEN /\ InodesOf(u) = 1 + ChildSum(u, d, "count")
                    /\ u[<<"size">>].bytes = Blocks(d) + ChildSum(u, d, "bytes")
               ELSE u[<<"row", d>>].count > 0 =>
                    /\ u[<<"row", d>>].count = 1 + ChildSum(u, d, "count")
                    /\ u[<<"row", d>>].bytes = Blocks(d) + ChildSum(u, d, "bytes")
  BY DEF RowsAdd
<1>4. d \in Entries /\ Blocks(d) \in Nat /\ Level(d) \in Nat
  BY RootFacts, FigureTypes, LevelNat
<1>5. /\ InodesOf(t) \in Int /\ t[<<"size">>].bytes \in Nat
      /\ ChildSum(t, d, "count") \in Nat /\ ChildSum(t, d, "bytes") \in Nat
      /\ d # Root => t[<<"row", d>>].count \in Nat /\ t[<<"row", d>>].bytes \in Nat
  BY <1>2, <1>4, TableFigures, ChildSumNat, RowFigureTypes
<1>6. \A c \in Children(d) : c \in Entries \ {Root} /\ Parent[c] = d /\ Level(c) = Level(d) + 1
  BY LineStep DEF Children
<1>7. IF d = Root
        THEN /\ InodesOf(t) = 1 + ChildSum(t, d, "count")
             /\ t[<<"size">>].bytes = Blocks(d) + ChildSum(t, d, "bytes")
        ELSE t[<<"row", d>>].count > 0 =>
             /\ t[<<"row", d>>].count = 1 + ChildSum(t, d, "count")
             /\ t[<<"row", d>>].bytes = Blocks(d) + ChildSum(t, d, "bytes")
  BY DEF RowsAdd
<1>8. CASE d # Root /\ d \notin Line(e)
  <2>1. \A c \in Children(d) : u[<<"row", c>>] = t[<<"row", c>>]
    <3> TAKE c \in Children(d)
    <3>1. c \notin Line(e)
      BY <1>1, <1>6, <1>8, LineBelow
    <3> QED
      BY <1>3, <1>6, <3>1
  <2>2. u[<<"row", d>>] = t[<<"row", d>>]
    BY <1>3, <1>4, <1>8
  <2>3. /\ ChildSum(u, d, "count") = ChildSum(t, d, "count")
        /\ ChildSum(u, d, "bytes") = ChildSum(t, d, "bytes")
    BY <1>2, <2>1, ChildSumSame
  <2> QED
    BY <1>7, <1>8, <2>2, <2>3
<1>9. CASE d = e
  <2>1. d # Root /\ Line(e) \subseteq Entries /\ e \in Line(e)
    BY <1>1, <1>9
  <2>2. \A x \in Entries : e \in Line(x) => Untouched(t, x)
    BY DEF Frontier
  <2>3. t[<<"row", d>>].count = 0 /\ t[<<"row", d>>].bytes = 0
    <3>1. Untouched(t, d)
      BY <1>4, <1>9, <2>1, <2>2
    <3>2. t[<<"row", d>>].count = 0
      BY <1>4, <3>1 DEF Untouched
    <3> QED
      BY <1>4, <2>1, <3>2 DEF EmptyRows
  <2>4. \A c \in Children(d) : /\ t[<<"row", c>>].count = 0 /\ t[<<"row", c>>].bytes = 0
                               /\ u[<<"row", c>>] = t[<<"row", c>>]
    <3> TAKE c \in Children(d)
    <3>1. e \in Line(c) /\ c \in Entries /\ Level(c) <= flags.depth
      <4>1. Line(c) = Line(d) \cup {c}
        BY <1>6, LineStep
      <4> QED
        BY <1>4, <1>6, <1>9, <2>1, <4>1
    <3>2. t[<<"row", c>>].count = 0
      BY <2>2, <3>1 DEF Untouched
    <3>3. t[<<"row", c>>].bytes = 0
      BY <1>6, <3>2 DEF EmptyRows
    <3>4. c \notin Line(e)
      <4>1. c \in Line(e) => Level(c) \in 1..Level(e)
        BY <1>1, LineLevels
      <4> QED
        BY <1>4, <1>6, <1>9, <4>1
    <3> QED
      BY <1>3, <1>6, <3>2, <3>3, <3>4
  <2>5. /\ ChildSum(u, d, "count") = 0 /\ ChildSum(u, d, "bytes") = 0
    <3>1. \A c \in Children(d) : u[<<"row", c>>].count = 0 /\ u[<<"row", c>>].bytes = 0
      BY <2>4
    <3> QED
      BY <1>2, <3>1, ChildSumZero
  <2>6. /\ u[<<"row", d>>].count = t[<<"row", d>>].count + 1
        /\ u[<<"row", d>>].bytes = t[<<"row", d>>].bytes + Blocks(e)
    BY <1>1, <1>3, <1>4, <1>9, <2>1
  <2> QED
    BY <1>2, <1>9, <2>1, <2>3, <2>5, <2>6
<1>10. CASE d # e /\ (d = Root \/ d \in Line(e))
  <2>1. PICK c \in Line(e) : Parent[c] = d
    BY <1>1, <1>10, ChildToward
  <2>2. c \in Children(d) /\ Level(c) <= flags.depth
    <3>1. c \in Children(d)
      BY <1>1, <2>1 DEF Children
    <3> QED
      BY <1>4, <1>6, <3>1
  <2>3. \A x \in Children(d) : x # c => u[<<"row", x>>] = t[<<"row", x>>]
    <3> TAKE x \in Children(d)
    <3>1. x \in Line(e) => x = c
      BY <1>1, <1>6, <2>1, <2>2, LineLevels
    <3> QED
      BY <1>3, <1>6, <3>1
  <2>4. /\ u[<<"row", c>>].count = t[<<"row", c>>].count + 1
        /\ u[<<"row", c>>].bytes = t[<<"row", c>>].bytes + Blocks(e)
    BY <1>3, <1>6, <2>1, <2>2
  <2>5. /\ ChildSum(u, d, "count") = ChildSum(t, d, "count") + 1
        /\ ChildSum(u, d, "bytes") = ChildSum(t, d, "bytes") + Blocks(e)
    BY <1>2, <2>2, <2>3, <2>4, ChildSumGains
  <2>6. CASE d = Root
    BY <1>2, <1>3, <1>4, <1>5, <1>7, <2>5, <2>6
  <2>7. CASE d # Root
    <3>1. Touched(t, d)
      <4>1. d \in Line(Parent[e])
        BY <1>1, <1>10, <2>7
      <4> QED
        BY <4>1 DEF Frontier
    <3>2. t[<<"row", d>>].count > 0
      BY <1>4, <3>1 DEF Touched
    <3>3. /\ u[<<"row", d>>].count = t[<<"row", d>>].count + 1
          /\ u[<<"row", d>>].bytes = t[<<"row", d>>].bytes + Blocks(e)
      BY <1>3, <1>4, <1>10, <2>7
    <3> QED
      BY <1>2, <1>4, <1>5, <1>7, <2>5, <2>7, <3>2, <3>3
  <2> QED
    BY <2>6, <2>7
<1> QED
  BY <1>8, <1>9, <1>10

\* The watched directories that are counted as seen are those with figures.
TouchedWatched(t) == {a \in Watched : t[<<"watch", a>>].count > 0}
SeenOnce(t) == t[<<"seen">>].count = Cardinality(TouchedWatched(t))

\* SeenOnce is kept by a charge that counts nothing.
LEMMA SeenOnceSame ==
    ASSUME NEW t, NEW u, SeenOnce(t), Same(t, u)
    PROVE  SeenOnce(u) /\ TouchedWatched(u) = TouchedWatched(t)
<1>1. \A a \in Watched : u[<<"watch", a>>] = t[<<"watch", a>>]
  BY DEF Same
<1>2. TouchedWatched(u) = TouchedWatched(t)
  BY <1>1 DEF TouchedWatched
<1> QED
  BY <1>2 DEF SeenOnce, Same

\* SeenOnce is kept by a charge that counts an entry: a watched directory that is
\* read had no figures before.
LEMMA SeenOnceGains ==
    ASSUME NEW t, NEW u, NEW Q, NEW U, NEW e \in U, Frontier(t, Q, U), SeenOnce(t), Gains(t, u, e)
    PROVE  /\ SeenOnce(u) /\ TouchedWatched(t) \subseteq TouchedWatched(u)
           /\ e \in Watched => e \in TouchedWatched(u)
<1>1. e \in Entries \ {Root} /\ Parent[e] \in Entries
      /\ Line(e) = Line(Parent[e]) \cup {e} /\ e \in Line(e)
  <2>1. e \in Entries \ {Root}
    BY DEF Frontier
  <2> QED
    BY <2>1, LineStep, RootFacts
<1>2. \A a \in Watched : t[<<"watch", a>>].count \in Nat
  <2>1. t \in Tables
    BY DEF Gains
  <2> QED
    BY <2>1, WatchFigureTypes
<1>3. \A a \in Watched : IF a \in Line(e) THEN u[<<"watch", a>>].count = t[<<"watch", a>>].count + 1
                         ELSE u[<<"watch", a>>] = t[<<"watch", a>>]
  BY DEF Gains
<1>4. \A a \in Watched : a \in Line(Parent[e]) => t[<<"watch", a>>].count > 0
  BY DEF Frontier, Touched
<1>5. e \in Watched => t[<<"watch", e>>].count = 0
  BY <1>1 DEF Frontier, Untouched
<1>6. TouchedWatched(u) = TouchedWatched(t) \cup (IF e \in Watched THEN {e} ELSE {})
  <2>1. ASSUME NEW a \in Watched
        PROVE  u[<<"watch", a>>].count > 0 <=> t[<<"watch", a>>].count > 0 \/ a = e
    <3>1. t[<<"watch", a>>].count \in Nat
      BY <1>2
    <3>2. CASE a \in Line(e)
      <4>1. u[<<"watch", a>>].count = t[<<"watch", a>>].count + 1
        BY <1>3, <3>2
      <4>2. a = e \/ t[<<"watch", a>>].count > 0
        BY <1>1, <1>4, <3>2
      <4> QED
        BY <3>1, <4>1, <4>2
    <3>3. CASE a \notin Line(e)
      BY <1>1, <1>3, <3>3
    <3> QED
      BY <3>2, <3>3
  <2> QED
    BY <2>1 DEF TouchedWatched
<1>7. IsFiniteSet(TouchedWatched(t)) /\ (e \in Watched => e \notin TouchedWatched(t))
  <2>1. TouchedWatched(t) \in SUBSET Watched
    BY DEF TouchedWatched
  <2>2. IsFiniteSet(TouchedWatched(t))
    BY <2>1, EntriesFinite, FS_Subset
  <2>3. e \in Watched => e \notin TouchedWatched(t)
    BY <1>5 DEF TouchedWatched
  <2> QED
    BY <2>2, <2>3
<1>8. Cardinality(TouchedWatched(t)) \in Nat
  BY <1>7, FS_CardinalityType
<1>9. u[<<"seen">>].count = t[<<"seen">>].count + (IF e \in Watched THEN 1 ELSE 0)
  BY DEF Gains
<1>10. SeenOnce(u)
  <2>1. CASE e \in Watched
    <3>1. Cardinality(TouchedWatched(t) \cup {e}) = Cardinality(TouchedWatched(t)) + 1
      BY <1>7, <2>1, FS_AddElement
    <3> QED
      BY <1>6, <1>9, <2>1, <3>1 DEF SeenOnce
  <2>2. CASE e \notin Watched
    BY <1>6, <1>8, <1>9, <2>2 DEF SeenOnce
  <2> QED
    BY <2>1, <2>2
<1> QED
  BY <1>6, <1>10

-----------------------------------------------------------------------------
(* The tables of some workers and of the result, added up.                 *)

\* The joined table of the result r, and of the workers ws whose locals are l.
Beside(r, l, ws) ==
    [k \in Keys |->
        [count |-> Joined(r)[k].count
                     + SumOver([v \in ws |-> Joined(l[v].table)[k].count], ws),
         bytes |-> Joined(r)[k].bytes
                     + SumOver([v \in ws |-> Joined(l[v].table)[k].bytes], ws),
         apparent |-> Joined(r)[k].apparent
                     + SumOver([v \in ws |-> Joined(l[v].table)[k].apparent], ws)]]

\* What some workers have in one slot.
Column(l, ws, k, field) == [v \in ws |-> Joined(l[v].table)[k][field]]

\* What they have together in each slot.
LEMMA BesideFields ==
    ASSUME NEW r \in Tables, NEW ws, IsFiniteSet(ws), NEW l, \A v \in ws : l[v].table \in Tables
    PROVE  /\ Beside(r, l, ws) \in Tables
           /\ \A k \in Keys :
                /\ Beside(r, l, ws)[k].count
                     = Joined(r)[k].count + SumOver(Column(l, ws, k, "count"), ws)
                /\ Beside(r, l, ws)[k].bytes
                     = Joined(r)[k].bytes + SumOver(Column(l, ws, k, "bytes"), ws)
                /\ Beside(r, l, ws)[k].apparent
                     = Joined(r)[k].apparent + SumOver(Column(l, ws, k, "apparent"), ws)
<1> DEFINE b == Beside(r, l, ws)
           C(k) == Column(l, ws, k, "count")
           B(k) == Column(l, ws, k, "bytes")
           A(k) == Column(l, ws, k, "apparent")
<1>1. \A v \in ws : \A k \in Keys :
          /\ Joined(l[v].table)[k].count \in Nat /\ Joined(l[v].table)[k].bytes \in Nat
          /\ Joined(l[v].table)[k].apparent \in Nat
  BY JoinedFields, SlotFields
<1>2. \A k \in Keys : /\ \A v \in ws : C(k)[v] \in Nat
                      /\ \A v \in ws : B(k)[v] \in Nat
                      /\ \A v \in ws : A(k)[v] \in Nat
  BY <1>1 DEF Column
<1>3. b = [k \in Keys |-> [count |-> Joined(r)[k].count + SumOver(C(k), ws),
                           bytes |-> Joined(r)[k].bytes + SumOver(B(k), ws),
                           apparent |-> Joined(r)[k].apparent + SumOver(A(k), ws)]]
  BY DEF Beside, Column
<1> HIDE DEF b, C, B, A
<1>4. ASSUME NEW k \in Keys
      PROVE  SumOver(C(k), ws) \in Nat /\ SumOver(B(k), ws) \in Nat /\ SumOver(A(k), ws) \in Nat
  BY <1>2, SumNat
<1>5. \A k \in Keys : /\ Joined(r)[k].count \in Nat /\ Joined(r)[k].bytes \in Nat
                      /\ Joined(r)[k].apparent \in Nat
  BY JoinedFields, SlotFields
<1>6. \A k \in Keys : /\ b[k] \in Slots
                      /\ b[k].count = Joined(r)[k].count + SumOver(C(k), ws)
                      /\ b[k].bytes = Joined(r)[k].bytes + SumOver(B(k), ws)
                      /\ b[k].apparent = Joined(r)[k].apparent + SumOver(A(k), ws)
  BY <1>3, <1>4, <1>5 DEF Slots
<1>7. b \in Tables
  BY <1>3, <1>6 DEF Tables
<1> QED
  BY <1>6, <1>7 DEF b, C, B, A

\* What each worker has in a slot is a natural number.
LEMMA ColumnTypes ==
    ASSUME NEW ws, NEW l, \A v \in ws : l[v].table \in Tables, NEW k \in Keys
    PROVE  /\ \A v \in ws : /\ Column(l, ws, k, "count")[v] = Joined(l[v].table)[k].count
                            /\ Column(l, ws, k, "count")[v] \in Nat
           /\ \A v \in ws : /\ Column(l, ws, k, "bytes")[v] = Joined(l[v].table)[k].bytes
                            /\ Column(l, ws, k, "bytes")[v] \in Nat
           /\ \A v \in ws : /\ Column(l, ws, k, "apparent")[v] = Joined(l[v].table)[k].apparent
                            /\ Column(l, ws, k, "apparent")[v] \in Nat
<1>1. \A v \in ws : /\ Joined(l[v].table)[k].count \in Nat /\ Joined(l[v].table)[k].bytes \in Nat
                    /\ Joined(l[v].table)[k].apparent \in Nat
  BY JoinedFields, SlotFields
<1> QED
  BY <1>1 DEF Column

\* The sum is a matter of the workers' tables.
LEMMA BesideSame ==
    ASSUME NEW r, NEW ws, NEW l, NEW m, \A v \in ws : l[v].table = m[v].table
    PROVE  Beside(r, l, ws) = Beside(r, m, ws)
<1>1. \A k \in Keys :
         /\ [v \in ws |-> Joined(l[v].table)[k].count] = [v \in ws |-> Joined(m[v].table)[k].count]
         /\ [v \in ws |-> Joined(l[v].table)[k].bytes] = [v \in ws |-> Joined(m[v].table)[k].bytes]
         /\ [v \in ws |-> Joined(l[v].table)[k].apparent]
              = [v \in ws |-> Joined(m[v].table)[k].apparent]
  OBVIOUS
<1> QED
  BY <1>1 DEF Beside

\* The sum is what one worker has and what all the others have.
LEMMA BesideSplit ==
    ASSUME NEW r \in Tables, NEW ws, IsFiniteSet(ws), NEW l, \A v \in ws : l[v].table \in Tables,
           NEW w \in ws
    PROVE  Beside(r, l, ws) = AddTable(Beside(r, l, ws \ {w}), Joined(l[w].table))
<1> DEFINE rest == ws \ {w}
           b == Beside(r, l, ws)
           o == Beside(r, l, rest)
           j == Joined(l[w].table)
           s == AddTable(o, j)
<1>1. IsFiniteSet(rest) /\ \A v \in rest : l[v].table \in Tables
  BY FS_Subset
<1>2. b \in Tables /\ o \in Tables /\ j \in Tables /\ s \in Tables
  <2>1. b \in Tables /\ o \in Tables /\ j \in Tables
    BY <1>1, BesideFields, JoinedFields
  <2> QED
    BY <2>1, AddTableFields
<1>3. ASSUME NEW k \in Keys
      PROVE  /\ SumOver(Column(l, ws, k, "count"), ws)
                  = j[k].count + SumOver(Column(l, rest, k, "count"), rest)
             /\ SumOver(Column(l, ws, k, "bytes"), ws)
                  = j[k].bytes + SumOver(Column(l, rest, k, "bytes"), rest)
             /\ SumOver(Column(l, ws, k, "apparent"), ws)
                  = j[k].apparent + SumOver(Column(l, rest, k, "apparent"), rest)
  <2> DEFINE C == Column(l, ws, k, "count")
             B == Column(l, ws, k, "bytes")
             A == Column(l, ws, k, "apparent")
             C1 == Column(l, rest, k, "count")
             B1 == Column(l, rest, k, "bytes")
             A1 == Column(l, rest, k, "apparent")
  <2>1. \A v \in ws : /\ Joined(l[v].table)[k].count \in Nat /\ Joined(l[v].table)[k].bytes \in Nat
                      /\ Joined(l[v].table)[k].apparent \in Nat
    BY JoinedFields, SlotFields
  <2>2. /\ \A v \in ws : C[v] \in Nat
        /\ \A v \in ws : B[v] \in Nat
        /\ \A v \in ws : A[v] \in Nat
        /\ C[w] = j[k].count /\ B[w] = j[k].bytes /\ A[w] = j[k].apparent
    BY <2>1 DEF Column
  <2>3. /\ \A v \in rest : C[v] \in Nat /\ C1[v] = C[v]
        /\ \A v \in rest : B[v] \in Nat /\ B1[v] = B[v]
        /\ \A v \in rest : A[v] \in Nat /\ A1[v] = A[v]
    BY <2>1 DEF Column
  <2> HIDE DEF C, B, A, C1, B1, A1, rest, j
  <2>4. SumOver(C1, rest) = SumOver(C, rest) /\ SumOver(B1, rest) = SumOver(B, rest)
        /\ SumOver(A1, rest) = SumOver(A, rest)
    BY <1>1, <2>3, SumSame
  <2>5. SumOver(C, ws) = C[w] + SumOver(C, rest) /\ SumOver(B, ws) = B[w] + SumOver(B, rest)
        /\ SumOver(A, ws) = A[w] + SumOver(A, rest)
    BY <2>2, SumSplit DEF rest
  <2> QED
    BY <2>2, <2>4, <2>5 DEF C, B, A, C1, B1, A1
<1>4. ASSUME NEW k \in Keys
      PROVE  b[k].count = s[k].count /\ b[k].bytes = s[k].bytes /\ b[k].apparent = s[k].apparent
  <2>1. /\ b[k].count = Joined(r)[k].count + SumOver(Column(l, ws, k, "count"), ws)
        /\ b[k].bytes = Joined(r)[k].bytes + SumOver(Column(l, ws, k, "bytes"), ws)
        /\ b[k].apparent = Joined(r)[k].apparent + SumOver(Column(l, ws, k, "apparent"), ws)
    BY BesideFields
  <2>2. /\ o[k].count = Joined(r)[k].count + SumOver(Column(l, rest, k, "count"), rest)
        /\ o[k].bytes = Joined(r)[k].bytes + SumOver(Column(l, rest, k, "bytes"), rest)
        /\ o[k].apparent = Joined(r)[k].apparent + SumOver(Column(l, rest, k, "apparent"), rest)
    BY <1>1, BesideFields
  <2>3. /\ s[k].count = o[k].count + j[k].count /\ s[k].bytes = o[k].bytes + j[k].bytes
        /\ s[k].apparent = o[k].apparent + j[k].apparent
    BY <1>2, AddTableFields
  <2>4. /\ \A v \in rest : Column(l, rest, k, "count")[v] \in Nat
        /\ \A v \in rest : Column(l, rest, k, "bytes")[v] \in Nat
        /\ \A v \in rest : Column(l, rest, k, "apparent")[v] \in Nat
    BY <1>1, ColumnTypes
  <2>5. /\ SumOver(Column(l, rest, k, "count"), rest) \in Nat
        /\ SumOver(Column(l, rest, k, "bytes"), rest) \in Nat
        /\ SumOver(Column(l, rest, k, "apparent"), rest) \in Nat
    <3> HIDE DEF rest
    <3> QED
      BY <1>1, <2>4, SumNat
  <2>6. /\ j[k].count \in Nat /\ j[k].bytes \in Nat /\ j[k].apparent \in Nat
        /\ Joined(r)[k].count \in Nat /\ Joined(r)[k].bytes \in Nat /\ Joined(r)[k].apparent \in Nat
    BY <1>2, JoinedFields, SlotFields
  <2> HIDE DEF b, s, o, j, rest
  <2> QED
    BY <1>3, <2>1, <2>2, <2>3, <2>5, <2>6
<1> HIDE DEF b, s
<1>5. b = s
  BY <1>2, <1>4, TableEqual
<1> QED
  BY <1>5 DEF b, s

\* What is added to the result is added to all.
LEMMA BesideMerge ==
    ASSUME NEW r \in Tables, NEW t \in Tables, NEW ws, IsFiniteSet(ws), NEW l,
           \A v \in ws : l[v].table \in Tables
    PROVE  Beside(AddTable(r, t), l, ws) = AddTable(Beside(r, l, ws), Joined(t))
<1> DEFINE a == AddTable(r, t)
           b == Beside(a, l, ws)
           o == Beside(r, l, ws)
           j == Joined(t)
           i == Joined(r)
           s == AddTable(o, j)
<1>1. a \in Tables /\ o \in Tables /\ j \in Tables /\ i \in Tables
  BY AddTableFields, BesideFields, JoinedFields
<1>2. b \in Tables /\ s \in Tables
  BY <1>1, AddTableFields, BesideFields
<1>3. Joined(a) = AddTable(i, j)
  BY JoinedSum
<1>4. ASSUME NEW k \in Keys
      PROVE  b[k].count = s[k].count /\ b[k].bytes = s[k].bytes /\ b[k].apparent = s[k].apparent
  <2> DEFINE C == SumOver(Column(l, ws, k, "count"), ws)
             B == SumOver(Column(l, ws, k, "bytes"), ws)
             A == SumOver(Column(l, ws, k, "apparent"), ws)
  <2>1. /\ b[k].count = Joined(a)[k].count + C /\ b[k].bytes = Joined(a)[k].bytes + B
        /\ b[k].apparent = Joined(a)[k].apparent + A
    BY <1>1, BesideFields
  <2>2. /\ o[k].count = i[k].count + C /\ o[k].bytes = i[k].bytes + B
        /\ o[k].apparent = i[k].apparent + A
    BY BesideFields
  <2>3. /\ Joined(a)[k].count = i[k].count + j[k].count
        /\ Joined(a)[k].bytes = i[k].bytes + j[k].bytes
        /\ Joined(a)[k].apparent = i[k].apparent + j[k].apparent
    BY <1>1, <1>3, AddTableFields
  <2>4. /\ s[k].count = o[k].count + j[k].count /\ s[k].bytes = o[k].bytes + j[k].bytes
        /\ s[k].apparent = o[k].apparent + j[k].apparent
    BY <1>1, AddTableFields
  <2>5. C \in Nat /\ B \in Nat /\ A \in Nat
    BY ColumnTypes, SumNat
  <2>6. /\ j[k].count \in Nat /\ j[k].bytes \in Nat /\ j[k].apparent \in Nat
        /\ i[k].count \in Nat /\ i[k].bytes \in Nat /\ i[k].apparent \in Nat
    BY <1>1, SlotFields
  <2> HIDE DEF b, s, o, i, j, a, C, B, A
  <2> QED
    BY <2>1, <2>2, <2>3, <2>4, <2>5, <2>6
<1> HIDE DEF b, s
<1>5. b = s
  BY <1>2, <1>4, TableEqual
<1> QED
  BY <1>5 DEF b, s

\* The empty table adds nothing.
LEMMA NoTableAdds ==
    ASSUME NEW s \in Tables
    PROVE  Joined(NoTable) = NoTable /\ AddTable(s, NoTable) = s
<1>1. NoTable \in Tables /\ \A k \in Keys :
        NoTable[k].count = 0 /\ NoTable[k].bytes = 0 /\ NoTable[k].apparent = 0
  BY NoTableType
<1>2. Joined(NoTable) = NoTable
  <2> DEFINE j == Joined(NoTable)
  <2>1. j \in Tables
    BY <1>1, JoinedFields
  <2>2. ASSUME NEW k \in Keys
        PROVE  j[k].count = 0 /\ j[k].bytes = 0 /\ j[k].apparent = 0
    <3>1. CASE k[1] \notin {"watch", "over"}
      BY <1>1, <3>1, JoinedFields
    <3>2. CASE k[1] \in {"watch", "over"}
      <4>1. PICK a \in Watched : k = <<k[1], a>>
        BY <3>2, KeyKinds
      <4>2. <<"watch", a>> \in Keys /\ <<"over", a>> \in Keys
        BY KeysIn
      <4>3. NoSlot.count = 0 /\ NoSlot.bytes = 0 /\ NoSlot.apparent = 0
        BY DEF NoSlot
      <4>4. CASE k[1] = "watch"
        BY <1>1, <4>1, <4>2, <4>4, JoinedFields
      <4>5. CASE k[1] = "over"
        BY <1>1, <4>1, <4>2, <4>3, <4>5, JoinedFields
      <4> QED
        BY <3>2, <4>4, <4>5
    <3> QED
      BY <3>1, <3>2
  <2> HIDE DEF j
  <2>3. j = NoTable
    BY <1>1, <2>1, <2>2, TableEqual
  <2> QED
    BY <2>3 DEF j
<1>3. AddTable(s, NoTable) = s
  <2> DEFINE a == AddTable(s, NoTable)
  <2>1. a \in Tables /\ \A k \in Keys : /\ a[k].count = s[k].count + NoTable[k].count
                                        /\ a[k].bytes = s[k].bytes + NoTable[k].bytes
                                        /\ a[k].apparent = s[k].apparent + NoTable[k].apparent
    BY <1>1, AddTableFields
  <2>2. \A k \in Keys : s[k].count \in Nat /\ s[k].bytes \in Nat /\ s[k].apparent \in Nat
    BY SlotFields
  <2> HIDE DEF a
  <2>3. \A k \in Keys : /\ a[k].count = s[k].count /\ a[k].bytes = s[k].bytes
                        /\ a[k].apparent = s[k].apparent
    BY <1>1, <2>1, <2>2
  <2>4. a = s
    BY <2>1, <2>3, TableEqual
  <2> QED
    BY <2>4 DEF a
<1> QED
  BY <1>2, <1>3

\* Workers that have nothing add nothing.
LEMMA BesideNone ==
    ASSUME NEW r \in Tables, NEW ws, IsFiniteSet(ws), NEW l, \A v \in ws : l[v].table = NoTable
    PROVE  Beside(r, l, ws) = Joined(r)
<1> DEFINE b == Beside(r, l, ws)
           j == Joined(r)
<1>1. \A v \in ws : l[v].table \in Tables
  BY NoTableType
<1>2. b \in Tables /\ j \in Tables
  BY <1>1, BesideFields, JoinedFields
<1>3. ASSUME NEW k \in Keys
      PROVE  b[k].count = j[k].count /\ b[k].bytes = j[k].bytes /\ b[k].apparent = j[k].apparent
  <2> DEFINE C == Column(l, ws, k, "count")
             B == Column(l, ws, k, "bytes")
             A == Column(l, ws, k, "apparent")
  <2>1. /\ \A v \in ws : C[v] = 0
        /\ \A v \in ws : B[v] = 0
        /\ \A v \in ws : A[v] = 0
    BY <1>1, NoTableAdds, NoTableType DEF Column
  <2>2. /\ b[k].count = j[k].count + SumOver(C, ws)
        /\ b[k].bytes = j[k].bytes + SumOver(B, ws)
        /\ b[k].apparent = j[k].apparent + SumOver(A, ws)
    BY <1>1, BesideFields
  <2>3. j[k].count \in Nat /\ j[k].bytes \in Nat /\ j[k].apparent \in Nat
    BY <1>2, SlotFields
  <2> HIDE DEF C, B, A, b, j
  <2>4. SumOver(C, ws) = 0 /\ SumOver(B, ws) = 0 /\ SumOver(A, ws) = 0
    BY <2>1, SumZero
  <2> QED
    BY <2>2, <2>3, <2>4
<1> HIDE DEF b, j
<1>4. b = j
  BY <1>2, <1>3, TableEqual
<1> QED
  BY <1>4 DEF b, j

-----------------------------------------------------------------------------
(* The ledger: what holds of all tables together, while a scan reads.      *)

\* Q are the directories that wait and U the entries still to be read of the scan
\* under way.
Ledger(t, Q, U) ==
    /\ t \in Tables
    /\ EmptyRows(t) /\ WatchedAsRows(t) /\ OwnedOnce(t) /\ PackedOnce(t)
    /\ RowsAdd(t) /\ SeenOnce(t) /\ Frontier(t, Q, U)

\* The ledger goes on when the next entry is counted.
LEMMA LedgerCounted ==
    ASSUME flags.depth \in Nat, NEW t, NEW u, NEW Q, NEW U, NEW e \in U,
           Ledger(t, Q, U), Gains(t, u, e)
    PROVE  /\ Ledger(u, IF e \in Dirs THEN Q \cup {e} ELSE Q, U \ {e})
           /\ TouchedWatched(t) \subseteq TouchedWatched(u)
           /\ e \in Watched => e \in TouchedWatched(u)
<1>1. /\ EmptyRows(t) /\ WatchedAsRows(t) /\ OwnedOnce(t) /\ PackedOnce(t)
      /\ RowsAdd(t) /\ SeenOnce(t) /\ Frontier(t, Q, U)
  BY DEF Ledger
<1>2. e \in Entries \ {Root}
  BY <1>1 DEF Frontier
<1>3. EmptyRows(u) /\ WatchedAsRows(u) /\ OwnedOnce(u) /\ PackedOnce(u)
  BY <1>1, <1>2, EmptyRowsKept, WatchedAsRowsKept, OwnedOnceKept, PackedOnceKept
<1>4. RowsAdd(u)
  BY <1>1, RowsAddGains
<1>5. /\ SeenOnce(u) /\ TouchedWatched(t) \subseteq TouchedWatched(u)
      /\ e \in Watched => e \in TouchedWatched(u)
  BY <1>1, SeenOnceGains
<1>6. Frontier(u, IF e \in Dirs THEN Q \cup {e} ELSE Q, U \ {e})
  BY <1>1, FrontierCounted
<1>7. u \in Tables
  BY DEF Gains
<1> QED
  BY <1>3, <1>4, <1>5, <1>6, <1>7 DEF Ledger

\* The ledger goes on when some entries are passed over.
LEMMA LedgerPassed ==
    ASSUME NEW t, NEW u, NEW Q, NEW U, NEW V \in SUBSET U, Ledger(t, Q, U), Same(t, u)
    PROVE  Ledger(u, Q, V) /\ TouchedWatched(u) = TouchedWatched(t)
<1>1. /\ EmptyRows(t) /\ WatchedAsRows(t) /\ OwnedOnce(t) /\ PackedOnce(t)
      /\ RowsAdd(t) /\ SeenOnce(t) /\ Frontier(t, Q, U)
  BY DEF Ledger
<1>2. EmptyRows(u) /\ WatchedAsRows(u)
  BY <1>1, EmptyRowsKept, WatchedAsRowsKept
<1>3. OwnedOnce(u) /\ PackedOnce(u)
  BY <1>1, OwnedOnceKept, PackedOnceKept
<1>4. RowsAdd(u)
  BY <1>1, RowsAddSame
<1>5. SeenOnce(u) /\ TouchedWatched(u) = TouchedWatched(t)
  BY <1>1, SeenOnceSame
<1>6. Frontier(u, Q, V)
  <2>1. Frontier(u, Q, U)
    BY <1>1, FrontierSame
  <2> QED
    BY <2>1, FrontierLeft
<1>7. u \in Tables
  BY DEF Same
<1> QED
  BY <1>2, <1>3, <1>4, <1>5, <1>6, <1>7 DEF Ledger

-----------------------------------------------------------------------------
(* What one worker has.                                                    *)

\* The paths it keeps are different, and of directories that were counted.
KeptOnce(kept, t) ==
    /\ \A i, j \in 1..Len(kept) : kept[i] = kept[j] => i = j
    /\ \A i \in 1..Len(kept) : kept[i] \in TouchedWatched(t)

\* Its sample is cut short only when it is full, and is all that was written
\* recently otherwise.
SampleBlocks(s) == SumOver([i \in 1..Len(s) |-> Attr[s[i]].blocks], 1..Len(s))
RecentCount(t) == t[<<"recent">>].count + t[<<"touched">>].count
RecentBytes(t) == t[<<"recent">>].bytes + t[<<"touched">>].bytes
SampleWhole(s, t) ==
    /\ Len(s) = IF SampleCap <= RecentCount(t) THEN SampleCap ELSE RecentCount(t)
    /\ Len(s) = RecentCount(t) => SampleBlocks(s) = RecentBytes(t)

\* What has no files has no bytes.
QuietRecent(t) ==
    \A k \in {<<"recent">>, <<"touched">>} :
        t[k].count = 0 => t[k].bytes = 0 /\ t[k].apparent = 0

\* A path that is kept is kept once.
LEMMA KeepOnce ==
    ASSUME NEW kept \in Seq(Watched), NEW cap, NEW t, KeptOnce(kept, t), NEW a \in TouchedWatched(t)
    PROVE  KeptOnce(Keep(kept, cap, a), t)
<1>1. CASE a \in ToSet(kept) \/ Len(kept) >= cap
  BY <1>1 DEF Keep
<1>2. CASE ~(a \in ToSet(kept) \/ Len(kept) >= cap)
  <2> DEFINE k == Append(kept, a)
  <2>1. Keep(kept, cap, a) = k
    BY <1>2 DEF Keep
  <2>2. a \in Watched
    BY DEF TouchedWatched
  <2>3. /\ Len(kept) \in Nat /\ Len(k) = Len(kept) + 1 /\ k[Len(kept) + 1] = a
        /\ \A i \in 1..Len(kept) : k[i] = kept[i]
    BY <2>2
  <2>4. \A i \in 1..Len(kept) : kept[i] # a
    BY <1>2 DEF ToSet
  <2> HIDE DEF k
  <2>5. \A i \in 1..Len(k) : i \in 1..Len(kept) \/ i = Len(kept) + 1
    BY <2>3
  <2>6. \A i, j \in 1..Len(k) : k[i] = k[j] => i = j
    BY <2>3, <2>4, <2>5 DEF KeptOnce
  <2>7. \A i \in 1..Len(k) : k[i] \in TouchedWatched(t)
    BY <2>3, <2>5 DEF KeptOnce
  <2> QED
    BY <2>1, <2>6, <2>7 DEF KeptOnce
<1> QED
  BY <1>1, <1>2

\* What was counted stays counted, so what is kept stays right.
LEMMA KeptOnceMore ==
    ASSUME NEW kept, NEW t, NEW u, KeptOnce(kept, t), TouchedWatched(t) \subseteq TouchedWatched(u)
    PROVE  KeptOnce(kept, u)
  BY DEF KeptOnce

\* The figures of recent files are natural numbers.
LEMMA RecentTypes ==
    ASSUME NEW t \in Tables
    PROVE  /\ RecentCount(t) \in Nat /\ RecentBytes(t) \in Nat
           /\ \A k \in {<<"recent">>, <<"touched">>} : k \in Keys
           /\ \A k \in {<<"recent">>, <<"touched">>} :
                 t[k].count \in Nat /\ t[k].bytes \in Nat /\ t[k].apparent \in Nat
<1>1. \A k \in {<<"recent">>, <<"touched">>} : k \in Keys
  BY KeysIn
<1>2. \A k \in {<<"recent">>, <<"touched">>} :
         t[k].count \in Nat /\ t[k].bytes \in Nat /\ t[k].apparent \in Nat
  BY <1>1, SlotFields
<1>3. RecentCount(t) \in Nat /\ RecentBytes(t) \in Nat
  BY <1>2 DEF RecentCount, RecentBytes
<1> QED
  BY <1>1, <1>2, <1>3

\* QuietRecent is kept by every charge.
LEMMA QuietCharge ==
    ASSUME NEW t \in Tables, QuietRecent(t), NEW K, NEW b \in Nat, NEW a \in Nat
    PROVE  QuietRecent(ChargeTo(t, K, b, a))
<1> DEFINE u == ChargeTo(t, K, b, a)
<1>1. \A k \in Keys : IF k \in K THEN u[k].count = t[k].count + 1 ELSE u[k] = t[k]
  BY ChargeFields
<1> HIDE DEF u
<1>2. \A k \in {<<"recent">>, <<"touched">>} : k \in Keys /\ t[k].count \in Nat
  BY RecentTypes
<1>3. \A k \in {<<"recent">>, <<"touched">>} : u[k].count = 0 => u[k] = t[k]
  BY <1>1, <1>2
<1>4. QuietRecent(u)
  BY <1>3 DEF QuietRecent
<1> QED
  BY <1>4 DEF u

\* One more file adds its blocks to the sample's.
LEMMA SampleAppend ==
    ASSUME NEW s \in Seq(Files), NEW f \in Files
    PROVE  /\ SampleBlocks(Append(s, f)) = SampleBlocks(s) + Attr[f].blocks
           /\ SampleBlocks(s) \in Nat
<1> DEFINE n == Len(s)
           a == Append(s, f)
           S == 1..n
           v == [i \in 1..n |-> Attr[s[i]].blocks]
           w == [i \in 1..(n + 1) |-> Attr[a[i]].blocks]
<1>1. /\ n \in Nat /\ Len(a) = n + 1 /\ a[n + 1] = f /\ \A i \in S : a[i] = s[i] /\ s[i] \in Files
  OBVIOUS
<1>2. \A x \in Files : Attr[x].blocks \in Nat
  BY FigureTypes, RootFacts
<1>3. IsFiniteSet(S) /\ (n + 1) \notin S /\ S \cup {n + 1} = 1..(n + 1)
  <2>1. n \in Nat
    BY <1>1
  <2> HIDE DEF n
  <2>2. IsFiniteSet(1..n)
    BY <2>1, FS_Interval
  <2> QED
    BY <2>1, <2>2 DEF S
<1>4. \A i \in S : v[i] \in Nat /\ w[i] = v[i]
  BY <1>1, <1>2
<1>5. \A i \in S \cup {n + 1} : w[i] \in Nat
  BY <1>1, <1>2, <1>4
<1>6. w[n + 1] = Attr[f].blocks
  BY <1>1
<1>7. SampleBlocks(s) = SumOver(v, S) /\ SampleBlocks(a) = SumOver(w, S \cup {n + 1})
  BY <1>1, <1>3 DEF SampleBlocks
<1> HIDE DEF v, w, S, n, a
<1>8. SumOver(w, S) = SumOver(v, S) /\ SumOver(v, S) \in Nat
  BY <1>3, <1>4, SumSame, SumNat
<1>9. SumOver(w, S \cup {n + 1}) = w[n + 1] + SumOver(w, S)
  BY <1>3, <1>5, SumAdd
<1>10. Attr[f].blocks \in Nat
  BY <1>2
<1> QED
  BY <1>6, <1>7, <1>8, <1>9, <1>10 DEF a

\* The caps are natural numbers.
LEMMA CapNat == SampleCap \in Nat /\ UnreadableCap \in Nat
  BY FiguresAssumption

\* A charge that is no file written recently leaves the sample as it is.
LEMMA SampleKept ==
    ASSUME NEW s, NEW t \in Tables, NEW K, NEW b \in Nat, NEW a \in Nat, SampleWhole(s, t),
           <<"recent">> \notin K, <<"touched">> \notin K
    PROVE  SampleWhole(s, ChargeTo(t, K, b, a))
<1> DEFINE u == ChargeTo(t, K, b, a)
<1>1. u[<<"recent">>] = t[<<"recent">>] /\ u[<<"touched">>] = t[<<"touched">>]
  BY ChargeFields, RecentTypes
<1> HIDE DEF u
<1>2. SampleWhole(s, u)
  BY <1>1 DEF SampleWhole, RecentCount, RecentBytes
<1> QED
  BY <1>2 DEF u

\* A recent file joins the sample while there is room, and the sample stays whole.
LEMMA SampleGrown ==
    ASSUME NEW s \in Seq(Files), NEW t \in Tables, NEW K, NEW f \in Files, NEW a \in Nat,
           SampleWhole(s, t),
           (<<"recent">> \in K /\ <<"touched">> \notin K) \/ (<<"recent">> \notin K /\ <<"touched">> \in K)
    PROVE  SampleWhole(IF Len(s) < SampleCap THEN Append(s, f) ELSE s, ChargeTo(t, K, Attr[f].blocks, a))
<1> DEFINE u == ChargeTo(t, K, Attr[f].blocks, a)
           z == IF Len(s) < SampleCap THEN Append(s, f) ELSE s
<1>1. Attr[f].blocks \in Nat
  BY FigureTypes, RootFacts
<1>2. \A k \in Keys : IF k \in K THEN /\ u[k].count = t[k].count + 1
                                      /\ u[k].bytes = t[k].bytes + Attr[f].blocks
                      ELSE u[k] = t[k]
  BY <1>1, ChargeFields
<1> HIDE DEF u
<1>3. RecentCount(u) = RecentCount(t) + 1 /\ RecentBytes(u) = RecentBytes(t) + Attr[f].blocks
  <2>1. <<"recent">> \in Keys /\ <<"touched">> \in Keys
    BY KeysIn
  <2>2. \A k \in {<<"recent">>, <<"touched">>} : t[k].count \in Nat /\ t[k].bytes \in Nat
    BY RecentTypes
  <2>3. CASE <<"recent">> \in K /\ <<"touched">> \notin K
    <3>1. /\ u[<<"recent">>].count = t[<<"recent">>].count + 1
          /\ u[<<"recent">>].bytes = t[<<"recent">>].bytes + Attr[f].blocks
          /\ u[<<"touched">>] = t[<<"touched">>]
      BY <1>2, <2>1, <2>3
    <3>2. /\ t[<<"recent">>].count \in Nat /\ t[<<"recent">>].bytes \in Nat
          /\ t[<<"touched">>].count \in Nat /\ t[<<"touched">>].bytes \in Nat
      BY <2>2
    <3>3. Attr[f].blocks \in Nat
      BY <1>1
    <3> QED
      BY ONLY <3>1, <3>2, <3>3 DEF RecentCount, RecentBytes
  <2>4. CASE <<"recent">> \notin K /\ <<"touched">> \in K
    <3>1. /\ u[<<"touched">>].count = t[<<"touched">>].count + 1
          /\ u[<<"touched">>].bytes = t[<<"touched">>].bytes + Attr[f].blocks
          /\ u[<<"recent">>] = t[<<"recent">>]
      BY <1>2, <2>1, <2>4
    <3>2. /\ t[<<"recent">>].count \in Nat /\ t[<<"recent">>].bytes \in Nat
          /\ t[<<"touched">>].count \in Nat /\ t[<<"touched">>].bytes \in Nat
      BY <2>2
    <3>3. Attr[f].blocks \in Nat
      BY <1>1
    <3> QED
      BY ONLY <3>1, <3>2, <3>3 DEF RecentCount, RecentBytes
  <2> QED
    BY <2>3, <2>4
<1>4. RecentCount(t) \in Nat /\ RecentBytes(t) \in Nat /\ SampleCap \in Nat /\ Len(s) \in Nat
  BY RecentTypes, CapNat
<1>5. /\ Len(s) = IF SampleCap <= RecentCount(t) THEN SampleCap ELSE RecentCount(t)
      /\ Len(s) = RecentCount(t) => SampleBlocks(s) = RecentBytes(t)
  BY DEF SampleWhole
<1>6. CASE Len(s) < SampleCap
  <2>1. z = Append(s, f) /\ Len(z) = Len(s) + 1
    BY <1>6
  <2>2. SampleBlocks(z) = SampleBlocks(s) + Attr[f].blocks
    BY <2>1, SampleAppend
  <2>3. Len(s) = RecentCount(t)
    BY <1>4, <1>5, <1>6
  <2> HIDE DEF z
  <2>4. SampleWhole(z, u)
    BY <1>3, <1>4, <1>5, <1>6, <2>1, <2>2, <2>3 DEF SampleWhole
  <2> QED
    BY <2>4 DEF z, u
<1>7. CASE ~(Len(s) < SampleCap)
  <2>1. z = s
    BY <1>7
  <2> HIDE DEF z
  <2>2. SampleWhole(z, u)
    BY <1>3, <1>4, <1>5, <1>7, <2>1 DEF SampleWhole
  <2> QED
    BY <2>2 DEF z, u
<1> QED
  BY <1>6, <1>7

-----------------------------------------------------------------------------
(* One reading.                                                            *)

\* The tables of all, when the others have o and the scan has acc.
All(o, acc) == AddTable(o, Joined(acc.table))

\* The invariant of a scan: what holds of all tables together when the entries U
\* are still to be read; the watched directories in `seen` stay counted.
Reading(acc, o, Q, U, seen) ==
    /\ acc \in Accs
    /\ Ledger(All(o, acc), Q \cup acc.kids, U)
    /\ KeptOnce(acc.kept, All(o, acc))
    /\ SampleWhole(acc.sample, acc.table)
    /\ QuietRecent(acc.table)
    /\ seen \subseteq TouchedWatched(All(o, acc))

\* A charge of the scan is a charge of all.
LEMMA AllCharge ==
    ASSUME NEW o \in Tables, NEW t \in Tables, NEW K, NEW b \in Nat, NEW a \in Nat,
           \A x \in Watched : ~(<<"watch", x>> \in K /\ <<"over", x>> \in K)
    PROVE  AddTable(o, Joined(ChargeTo(t, K, b, a)))
             = ChargeTo(AddTable(o, Joined(t)), JoinedKeys(K), b, a)
<1>1. Joined(ChargeTo(t, K, b, a)) = ChargeTo(Joined(t), JoinedKeys(K), b, a)
  BY JoinedCharge
<1>2. Joined(t) \in Tables
  BY JoinedFields
<1>3. AddTable(o, ChargeTo(Joined(t), JoinedKeys(K), b, a))
        = ChargeTo(AddTable(o, Joined(t)), JoinedKeys(K), b, a)
  BY <1>2, ChargeSum
<1> QED
  BY <1>1, <1>3

\* What a reading charges all with: it counts the entry or it counts nothing.
LEMMA ReadCharges ==
    ASSUME flags.depth \in Nat, NEW o \in Tables, NEW acc \in Accs, NEW e \in Entries \ {Root},
           NEW watch, WatchKeys(watch, Parent[e]), NEW failing,
           NEW K, K = ReadKeys(acc, e, watch, failing),
           NEW t, t = All(o, acc), NEW T, T = All(o, Read(acc, e, watch, failing))
    PROVE  /\ T = ChargeTo(t, JoinedKeys(K), Blocks(e), Length(e))
           /\ IF Counted(e, acc.links, failing) THEN CountsEntry(K, e) /\ Gains(t, T, e)
              ELSE PassesEntry(K) /\ Same(t, T)
<1> DEFINE r == Read(acc, e, watch, failing)
<1>1. Blocks(e) \in Nat /\ Length(e) \in Nat
  BY FigureTypes
<1>2. acc.table \in Tables /\ t \in Tables
  <2>1. acc.table \in Tables
    BY AccFields
  <2>2. Joined(acc.table) \in Tables
    BY <2>1, JoinedFields
  <2> QED
    BY <2>1, <2>2, AddTableFields DEF All
<1>3. r.table = ChargeTo(acc.table, K, Blocks(e), Length(e))
  <2>1. ReadGives(acc, e, watch, failing)
    BY ReadFields
  <2> QED
    BY <2>1 DEF ReadGives
<1>4. IF Counted(e, acc.links, failing) THEN CountsEntry(K, e) ELSE PassesEntry(K)
  BY ReadKeysKind
<1> HIDE DEF r
<1>5. \A x \in Watched : ~(<<"watch", x>> \in K /\ <<"over", x>> \in K)
  BY <1>4, JoinedCounts, JoinedPasses
<1>6. T = ChargeTo(t, JoinedKeys(K), Blocks(e), Length(e))
  BY <1>1, <1>2, <1>3, <1>5, AllCharge DEF All, r
<1>7. CASE Counted(e, acc.links, failing)
  <2>1. CountsEntry(K, e)
    BY <1>4, <1>7
  <2>2. Counts(JoinedKeys(K), e)
    BY <2>1, JoinedCounts
  <2> QED
    BY <1>2, <1>6, <1>7, <2>1, <2>2, CountsGains
<1>8. CASE ~Counted(e, acc.links, failing)
  <2>1. PassesEntry(K)
    BY <1>4, <1>8
  <2>2. Passes(JoinedKeys(K))
    BY <2>1, JoinedPasses
  <2> QED
    BY <1>2, <1>6, <1>8, <2>1, <2>2, PassesSame
<1> QED
  BY <1>7, <1>8

\* Each reading keeps it, whether it counts the entry or passes it over.
LEMMA ReadKeeps ==
    ASSUME flags.depth \in Nat, NEW o \in Tables, NEW acc, NEW Q, NEW U, NEW seen,
           Reading(acc, o, Q, U, seen),
           NEW e \in U, NEW watch, WatchKeys(watch, Parent[e]), NEW failing
    PROVE  Reading(Read(acc, e, watch, failing), o, Q, U \ {e}, seen)
<1> DEFINE K == ReadKeys(acc, e, watch, failing)
           counted == Counted(e, acc.links, failing)
           r == Read(acc, e, watch, failing)
           t == All(o, acc)
           T == All(o, r)
<1>1. /\ acc \in Accs /\ Ledger(t, Q \cup acc.kids, U) /\ KeptOnce(acc.kept, t)
      /\ SampleWhole(acc.sample, acc.table) /\ QuietRecent(acc.table)
      /\ seen \subseteq TouchedWatched(t)
  BY DEF Reading
<1>2. e \in Entries \ {Root} /\ e \in Entries /\ Blocks(e) \in Nat /\ Length(e) \in Nat
  <2>1. e \in Entries \ {Root}
    BY <1>1 DEF Ledger, Frontier
  <2> QED
    BY <2>1, FigureTypes
<1>3. /\ acc.table \in Tables /\ acc.kept \in Seq(Watched) /\ acc.sample \in Seq(Files)
      /\ t \in Tables
  <2>1. acc.table \in Tables /\ acc.kept \in Seq(Watched) /\ acc.sample \in Seq(Files)
    BY <1>1, AccFields
  <2>2. Joined(acc.table) \in Tables
    BY <2>1, JoinedFields
  <2> QED
    BY <2>1, <2>2, AddTableFields DEF All
<1>4. /\ r \in Accs
      /\ r.table = ChargeTo(acc.table, K, Blocks(e), Length(e))
      /\ r.kept = IF counted /\ e \in Watched THEN Keep(acc.kept, WatchCap, e) ELSE acc.kept
      /\ r.kids = IF counted /\ e \in Dirs THEN acc.kids \cup {e} ELSE acc.kids
      /\ r.sample = IF /\ counted /\ e \in Files /\ ~flags.count /\ Recent(e)
                       /\ Len(acc.sample) < SampleCap
                      THEN Append(acc.sample, e) ELSE acc.sample
  <2>1. e \in Entries \ {Root} /\ acc \in Accs /\ WatchKeys(watch, Parent[e])
    BY <1>1, <1>2
  <2>2. ReadGives(acc, e, watch, failing)
    BY <2>1, ReadFields
  <2> QED
    BY <2>2 DEF ReadGives
<1>5. IF counted THEN CountsEntry(K, e) /\ Gains(t, T, e) ELSE PassesEntry(K) /\ Same(t, T)
  BY <1>1, <1>2, ReadCharges
<1> HIDE DEF K, counted, r, t, T
<1>6. QuietRecent(r.table)
  BY <1>1, <1>2, <1>3, <1>4, QuietCharge
<1>7. CASE counted
  <2>1. CountsEntry(K, e) /\ Gains(t, T, e)
    BY <1>5, <1>7
  <2> DEFINE R == IF e \in Dirs THEN (Q \cup acc.kids) \cup {e} ELSE Q \cup acc.kids
  <2>2. /\ Ledger(T, R, U \ {e})
        /\ TouchedWatched(t) \subseteq TouchedWatched(T)
        /\ e \in Watched => e \in TouchedWatched(T)
    BY <1>1, <2>1, LedgerCounted
  <2>3. R = Q \cup r.kids
    BY <1>4, <1>7
  <2> HIDE DEF R
  <2>4. KeptOnce(acc.kept, T)
    BY <1>1, <2>2, KeptOnceMore
  <2>5. KeptOnce(r.kept, T)
    <3>1. CASE e \in Watched
      BY <1>3, <1>4, <1>7, <2>2, <2>4, <3>1, KeepOnce
    <3>2. CASE e \notin Watched
      BY <1>4, <2>4, <3>2
    <3> QED
      BY <3>1, <3>2
  <2>6. SampleWhole(r.sample, r.table)
    <3>1. CASE e \in Files /\ ~flags.count /\ Recent(e)
      <4>1. Attr[e].written \in {"recent", "future", "touched"}
        BY <3>1, FiguresAssumption DEF Recent
      <4>2. (<<"recent">> \in K /\ <<"touched">> \notin K) \/ (<<"recent">> \notin K /\ <<"touched">> \in K)
        BY <2>1, <3>1, <4>1 DEF CountsEntry
      <4>3. Blocks(e) = Attr[e].blocks
        BY <3>1 DEF Blocks
      <4>4. r.sample = IF Len(acc.sample) < SampleCap THEN Append(acc.sample, e) ELSE acc.sample
        BY <1>4, <1>7, <3>1
      <4>5. SampleWhole(IF Len(acc.sample) < SampleCap THEN Append(acc.sample, e) ELSE acc.sample,
                        ChargeTo(acc.table, K, Attr[e].blocks, Length(e)))
        BY <1>1, <1>2, <1>3, <3>1, <4>2, SampleGrown
      <4> QED
        BY <1>4, <4>3, <4>4, <4>5
    <3>2. CASE ~(e \in Files /\ ~flags.count /\ Recent(e))
      <4>1. <<"recent">> \notin K /\ <<"touched">> \notin K
        BY <2>1, <3>2 DEF CountsEntry, Recent
      <4>2. r.sample = acc.sample
        BY <1>4, <3>2
      <4> QED
        BY <1>1, <1>2, <1>3, <1>4, <4>1, <4>2, SampleKept
    <3> QED
      BY <3>1, <3>2
  <2>7. seen \subseteq TouchedWatched(T)
    BY <1>1, <2>2
  <2> QED
    BY <1>4, <1>6, <2>2, <2>3, <2>5, <2>6, <2>7 DEF Reading, r, T
<1>8. CASE ~counted
  <2>1. PassesEntry(K) /\ Same(t, T)
    BY <1>5, <1>8
  <2>2. Ledger(T, Q \cup acc.kids, U \ {e}) /\ TouchedWatched(T) = TouchedWatched(t)
    BY <1>1, <2>1, LedgerPassed
  <2>3. r.kids = acc.kids /\ r.kept = acc.kept /\ r.sample = acc.sample
    BY <1>4, <1>8
  <2>4. KeptOnce(r.kept, T)
    BY <1>1, <2>2, <2>3, KeptOnceMore
  <2>5. SampleWhole(r.sample, r.table)
    <3>1. <<"recent">> \notin K /\ <<"touched">> \notin K
      BY <2>1, Tags DEF PassesEntry
    <3> QED
      BY <1>1, <1>2, <1>3, <1>4, <2>3, <3>1, SampleKept
  <2>6. seen \subseteq TouchedWatched(T)
    BY <1>1, <2>2
  <2> QED
    BY <1>4, <1>6, <2>2, <2>3, <2>4, <2>5, <2>6 DEF Reading, r, T
<1> QED
  BY <1>7, <1>8

-----------------------------------------------------------------------------
(* One scan.                                                               *)

\* What a worker has of its own.
Locals == [table : Tables, kept : Seq(Watched), sample : Seq(Files)]

\* A path is a sequence of entries.
LEMMA PathFun ==
    ASSUME NEW d \in Entries
    PROVE  /\ Level(d) \in Nat /\ Path[d] \in [1..Level(d) -> Entries]
           /\ \A i \in 1..Level(d) : Path[d][i] \in Line(d)
<1>1. Path[d] \in Seq(Entries \ {Root})
  BY PathType
<1>2. Level(d) = Len(Path[d])
  BY DEF Level
<1> DEFINE p == Path[d]
<1>3. p \in Seq(Entries \ {Root}) /\ Level(d) = Len(p)
  BY <1>1, <1>2
<1> HIDE DEF p
<1>4. Level(d) \in Nat /\ p \in [1..Level(d) -> Entries]
  <2> DEFINE E == Entries \ {Root}
  <2>1. p \in Seq(E)
    BY <1>3
  <2>2. \A x \in E : x \in Entries
    OBVIOUS
  <2> HIDE DEF E
  <2> QED
    BY <1>3, <2>1, <2>2
<1>5. \A i \in 1..Level(d) : Path[d][i] \in Line(d)
  BY LineIn
<1> QED
  BY <1>4, <1>5 DEF p

\* The slots above a directory are one for each watched ancestor.
LEMMA WatchSlots ==
    ASSUME NEW d, NEW kept
    PROVE  WatchKeys({WatchKey(kept, a) : a \in WatchedAncestors(d)}, d)
<1> DEFINE A == WatchedAncestors(d)
           watch == {WatchKey(kept, a) : a \in A}
<1>1. \A a \in A : WatchKey(kept, a) \in {"watch", "over"} \X A
  BY DEF WatchKey
<1>2. watch \subseteq {"watch", "over"} \X A
  BY <1>1
<1>3. ASSUME NEW a \in A PROVE (<<"watch", a>> \in watch) # (<<"over", a>> \in watch)
  <2>1. CASE a \in ToSet(kept)
    <3>1. <<"watch", a>> \in watch
      <4>1. WatchKey(kept, a) = <<"watch", a>>
        BY <2>1 DEF WatchKey
      <4> QED
        BY <4>1
    <3>2. <<"over", a>> \notin watch
      <4>1. \A b \in A : WatchKey(kept, b) = <<"over", a>> => FALSE
        <5> TAKE b \in A
        <5>1. CASE b = a
          BY <2>1, <5>1 DEF WatchKey
        <5>2. CASE b # a
          BY <5>2 DEF WatchKey
        <5> QED
          BY <5>1, <5>2
      <4> QED
        BY <4>1
    <3> QED
      BY <3>1, <3>2
  <2>2. CASE a \notin ToSet(kept)
    <3>1. <<"over", a>> \in watch
      <4>1. WatchKey(kept, a) = <<"over", a>>
        BY <2>2 DEF WatchKey
      <4> QED
        BY <4>1
    <3>2. <<"watch", a>> \notin watch
      <4>1. \A b \in A : WatchKey(kept, b) = <<"watch", a>> => FALSE
        <5> TAKE b \in A
        <5>1. CASE b = a
          BY <2>2, <5>1 DEF WatchKey
        <5>2. CASE b # a
          BY <5>2 DEF WatchKey
        <5> QED
          BY <5>1, <5>2
      <4> QED
        BY <4>1
    <3> QED
      BY <3>1, <3>2
  <2> QED
    BY <2>1, <2>2
<1> QED
  BY <1>2, <1>3 DEF WatchKeys

\* The ledger goes on when a directory is taken from the queue.
LEMMA LedgerTaken ==
    ASSUME NEW t, NEW Q, NEW d \in Q, Ledger(t, Q, {})
    PROVE  Ledger(t, Q \ {d}, Children(d))
  BY FrontierTaken DEF Ledger

\* Keeping directories that were counted keeps each once.
LEMMA KeepAllOnce ==
    ASSUME NEW n \in Nat, NEW dirs \in [1..n -> Entries], NEW t,
           \A i \in 1..n : dirs[i] \in Watched => dirs[i] \in TouchedWatched(t),
           NEW kept \in Seq(Watched), KeptOnce(kept, t), NEW cap
    PROVE  /\ KeepAll(kept, cap, dirs) \in Seq(Watched)
           /\ KeptOnce(KeepAll(kept, cap, dirs), t)
<1> DEFINE P == {q \in (SUBSET (1..n)) \X Seq(Watched) : KeptOnce(q[2], t)}
<1>1. <<{}, kept>> \in P
  OBVIOUS
<1>2. ASSUME NEW s \in SUBSET (1..n), NEW k \in Seq(Watched), s # {}, <<s \ {Max(s)}, k>> \in P
      PROVE  <<s, IF dirs[Max(s)] \in Watched THEN Keep(k, cap, dirs[Max(s)]) ELSE k>> \in P
  <2> DEFINE a == dirs[Max(s)]
  <2>1. KeptOnce(k, t)
    BY <1>2
  <2>2. Max(s) \in s
    BY <1>2, MaxPicksIndex DEF MaxPicks
  <2>3. a \in Watched => a \in TouchedWatched(t)
    BY <2>2
  <2> HIDE DEF a
  <2>4. CASE a \in Watched
    <3>1. a \in TouchedWatched(t)
      BY <2>3, <2>4
    <3>2. KeptOnce(Keep(k, cap, a), t)
      BY <2>1, <3>1, KeepOnce
    <3>3. Keep(k, cap, a) \in Seq(Watched)
      BY <2>4, KeepType
    <3> QED
      BY <2>4, <3>2, <3>3 DEF a
  <2>5. CASE a \notin Watched
    BY <2>1, <2>5 DEF a
  <2> QED
    BY <2>4, <2>5
<1> HIDE DEF P
<1>3. KeepAll(kept, cap, dirs) \in Seq(Watched) /\ <<1..n, KeepAll(kept, cap, dirs)>> \in P
  BY <1>1, <1>2, KeepFold
<1> QED
  BY <1>3 DEF P

\* The paths above a directory in the queue are of directories that were
\* counted.
LEMMA AncestorsKept ==
    ASSUME NEW d \in Entries, NEW t, \A x \in Line(d) : Touched(t, x),
           NEW kept \in Seq(Watched), KeptOnce(kept, t), NEW cap
    PROVE  /\ KeepAll(kept, cap, Path[d]) \in Seq(Watched)
           /\ KeptOnce(KeepAll(kept, cap, Path[d]), t)
<1> DEFINE n == Level(d)
           p == Path[d]
<1>1. n \in Nat /\ p \in [1..n -> Entries] /\ \A i \in 1..n : p[i] \in Line(d)
  BY PathFun
<1> HIDE DEF n, p
<1>2. \A i \in 1..n : p[i] \in Watched => p[i] \in TouchedWatched(t)
  BY <1>1 DEF Touched, TouchedWatched
<1>3. KeepAll(kept, cap, p) \in Seq(Watched) /\ KeptOnce(KeepAll(kept, cap, p), t)
  BY <1>1, <1>2, KeepAllOnce
<1> QED
  BY <1>3 DEF p

\* A scan keeps it, for whichever names it reads and in whatever order.
LEMMA ScanReads ==
    ASSUME flags.depth \in Nat, NEW o \in Tables, NEW start, NEW Q, NEW d \in Entries, NEW seen,
           Reading(start, o, Q, Children(d), seen),
           NEW n \in Nat, NEW names \in [1..n -> Children(d)],
           \A i, j \in 1..n : i # j => names[i] # names[j],
           NEW watch, WatchKeys(watch, d), NEW failing
    PROVE  Reading(ReadAll(start, names, watch, failing), o, Q, {}, seen)
<1> DEFINE read == ReadAll(start, names, watch, failing)
           C == Children(d)
           Left(s) == C \ {names[i] : i \in s}
           P == {p \in (SUBSET (1..n)) \X Accs : Reading(p[2], o, Q, Left(p[1]), seen)}
<1>1. start \in Accs
  BY DEF Reading
<1>2. <<{}, start>> \in P
  <2>1. Left({}) = C
    OBVIOUS
  <2> QED
    BY <1>1, <2>1
<1>3. ASSUME NEW s \in SUBSET (1..n), NEW acc \in Accs, s # {}, <<s \ {Max(s)}, acc>> \in P
      PROVE  <<s, Read(acc, names[Max(s)], watch, failing)>> \in P
  <2> DEFINE m == Max(s)
             e == names[m]
             U == Left(s \ {m})
             r == Read(acc, e, watch, failing)
  <2>1. Reading(acc, o, Q, U, seen)
    BY <1>3
  <2>2. m \in s
    BY <1>3, MaxPicksIndex DEF MaxPicks
  <2> HIDE DEF m
  <2>3. e \in C
    BY <2>2
  <2>4. e \in U
    BY <2>2, <2>3
  <2>5. U \ {e} = Left(s)
    BY <2>2
  <2>6. Parent[e] = d
    BY <2>3 DEF Children
  <2> HIDE DEF e, U, C
  <2>7. Reading(r, o, Q, U \ {e}, seen)
    BY <2>1, <2>4, <2>6, ReadKeeps
  <2>8. r \in Accs
    BY <2>7 DEF Reading
  <2>9. <<s, r>> \in P
    BY <2>5, <2>7, <2>8
  <2> QED
    BY <2>9 DEF e, m
<1> HIDE DEF P
<1>4. read \in Accs /\ <<1..n, read>> \in P
  BY <1>1, <1>2, <1>3, ReadFold
<1>5. Reading(read, o, Q, Left(1..n), seen)
  BY <1>4 DEF P
<1> HIDE DEF read
<1>6. Reading(read, o, Q, {}, seen)
  <2> DEFINE t == All(o, read)
  <2>1. Ledger(t, Q \cup read.kids, Left(1..n))
    BY <1>5 DEF Reading
  <2> HIDE DEF t, Left
  <2>2. Ledger(t, Q \cup read.kids, {})
    BY <2>1, FrontierLeft DEF Ledger
  <2> QED
    BY <1>5, <2>2 DEF Reading, t
<1> QED
  BY <1>6 DEF read

\* A directory that could not be read to its end is one charge more.
LEMMA RaisedKeeps ==
    ASSUME NEW o \in Tables, NEW acc, NEW Q, NEW seen, Reading(acc, o, Q, {}, seen),
           NEW d \in Entries, NEW K, PassesEntry(K)
    PROVE  Reading(Bill(acc, K, d), o, Q, {}, seen)
<1> DEFINE r == Bill(acc, K, d)
           t == All(o, acc)
           T == All(o, r)
<1>1. /\ acc \in Accs /\ Ledger(t, Q \cup acc.kids, {}) /\ KeptOnce(acc.kept, t)
      /\ SampleWhole(acc.sample, acc.table) /\ QuietRecent(acc.table)
      /\ seen \subseteq TouchedWatched(t)
  BY DEF Reading
<1>2. Blocks(d) \in Nat /\ Length(d) \in Nat /\ acc.table \in Tables
  BY <1>1, AccFields, FigureTypes
<1>3. /\ r \in Accs /\ r.table = ChargeTo(acc.table, K, Blocks(d), Length(d))
      /\ r.kept = acc.kept /\ r.sample = acc.sample /\ r.kids = acc.kids
  BY <1>1, BillFields
<1>4. t \in Tables
  <2>1. Joined(acc.table) \in Tables
    BY <1>2, JoinedFields
  <2> QED
    BY <2>1, AddTableFields DEF All
<1> HIDE DEF r, t
<1>5. Passes(JoinedKeys(K)) /\ \A x \in Watched : ~(<<"watch", x>> \in K /\ <<"over", x>> \in K)
  BY JoinedPasses
<1>6. T = ChargeTo(t, JoinedKeys(K), Blocks(d), Length(d))
  BY <1>2, <1>3, <1>5, AllCharge DEF All, t
<1>7. Same(t, T)
  BY <1>4, <1>5, <1>6, PassesSame
<1> HIDE DEF T
<1>8. Ledger(T, Q \cup acc.kids, {}) /\ TouchedWatched(T) = TouchedWatched(t)
  BY <1>1, <1>7, LedgerPassed
<1>9. KeptOnce(r.kept, T)
  BY <1>1, <1>3, <1>8, KeptOnceMore
<1>10. SampleWhole(r.sample, r.table)
  <2>1. <<"recent">> \notin K /\ <<"touched">> \notin K
    BY Tags DEF PassesEntry
  <2> QED
    BY <1>1, <1>2, <1>3, <2>1, SampleKept
<1>11. QuietRecent(r.table)
  BY <1>1, <1>2, <1>3, QuietCharge
<1> QED
  BY <1>1, <1>3, <1>8, <1>9, <1>10, <1>11 DEF Reading, r, T

\* A scan keeps the ledger of all tables together, whichever names it reads, in
\* whatever order, and whether it fails on the way.
LEMMA ScanKeeps ==
    ASSUME flags.depth \in Nat, NEW w, local[w] \in Locals, seenLinks \subseteq Inos,
           NEW o \in Tables, NEW t, t = AddTable(o, Joined(local[w].table)),
           NEW d \in queue, Ledger(t, queue, {}), KeptOnce(local[w].kept, t),
           SampleWhole(local[w].sample, local[w].table), QuietRecent(local[w].table),
           NEW n \in Nat, NEW names \in [1..n -> Children(d)],
           \A i, j \in 1..n : i # j => names[i] # names[j],
           NEW failing, NEW raises
    PROVE  Reading(Scanned(w, d, names, failing, raises), o, queue \ {d}, {}, TouchedWatched(t))
<1> DEFINE kept == KeepAll(local[w].kept, WatchCap, Path[d])
           watch == {WatchKey(kept, a) : a \in WatchedAncestors(d)}
           start == [table |-> local[w].table, kept |-> kept,
                     sample |-> local[w].sample, links |-> seenLinks, kids |-> {}]
           read == ReadAll(start, names, watch, failing)
           K == {<<"unreadable">>} \cup GoneKey(d, "gone_dir")
           Q == queue \ {d}
<1>1. /\ local[w].table \in Tables /\ local[w].kept \in Seq(Watched)
      /\ local[w].sample \in Seq(Files)
  BY DEF Locals
<1>2. d \in Entries /\ \A x \in Line(d) : Touched(t, x)
  <2>1. Frontier(t, queue, {})
    BY DEF Ledger
  <2> QED
    BY <2>1, RootFacts DEF Frontier
<1>3. kept \in Seq(Watched) /\ KeptOnce(kept, t)
  BY <1>1, <1>2, AncestorsKept
<1>4. WatchKeys(watch, d)
  BY WatchSlots
<1>5. Reading(start, o, Q, Children(d), TouchedWatched(t))
  <2> HIDE DEF kept
  <2>1. start \in Accs
    BY <1>1, <1>3 DEF Accs
  <2>2. /\ start.table = local[w].table /\ start.kept = kept
        /\ start.sample = local[w].sample /\ start.kids = {}
    OBVIOUS
  <2> HIDE DEF start
  <2>3. All(o, start) = t
    BY <2>2 DEF All
  <2>4. Ledger(t, Q, Children(d))
    BY LedgerTaken
  <2>5. Q \cup start.kids = Q
    BY <2>2
  <2> QED
    BY <1>3, <2>1, <2>2, <2>3, <2>4, <2>5 DEF Reading
<1> HIDE DEF start, watch, kept
<1>6. Reading(read, o, Q, {}, TouchedWatched(t))
  BY <1>2, <1>4, <1>5, ScanReads
<1>7. PassesEntry(K)
  <2>1. \A k \in K : k \in {<<"unreadable">>, <<"gone_dir">>}
    BY DEF GoneKey
  <2> HIDE DEF K
  <2> QED
    BY <2>1 DEF PassesEntry
<1> HIDE DEF K, read
<1>8. Reading(Bill(read, K, d), o, Q, {}, TouchedWatched(t))
  BY <1>2, <1>6, <1>7, RaisedKeeps
<1>9. Scanned(w, d, names, failing, raises) = IF raises THEN Bill(read, K, d) ELSE read
  BY DEF Scanned, ReadAll, read, watch, start, kept, K
<1> QED
  BY <1>6, <1>8, <1>9

-----------------------------------------------------------------------------
(* The inductive invariant of the walk.                                    *)

\* What a result is.
Results ==
    [table : Tables, kept : Seq(Watched), sample : Seq(Files),
     listed : Nat, dropped : Nat, watchedDropped : Nat]

\* The types of the walk's state.
Typed ==
    /\ flags \in Modes /\ threads \in Nat /\ seenLinks \subseteq Inos
    /\ local \in [Workers -> Locals] /\ merged \in [Workers -> BOOLEAN]
    /\ res \in Results /\ published \in BOOLEAN

\* What all the tables hold together.
Grand == Beside(res.table, local, Workers)

\* All tables together are a ledger; each worker's paths and sample are in order,
\* and so are the result's, from which nothing is lost when it is published.
TallyInv ==
    /\ Typed
    /\ Ledger(Grand, queue, {})
    /\ \A w \in Workers :
          /\ merged[w] => local[w] = NoLocal
          /\ KeptOnce(local[w].kept, Grand)
          /\ SampleWhole(local[w].sample, local[w].table) /\ QuietRecent(local[w].table)
    /\ KeptOnce(res.kept, Grand)
    /\ SampleWhole(res.sample, res.table) /\ QuietRecent(res.table)
    /\ UnreadableDirs = Count("unreadable")
    /\ published => WatchedSeen = Count("seen") /\ \A w \in Workers : merged[w]

\* The flags have their types.
LEMMA ModeFacts == flags \in Modes => flags.depth \in Nat /\ flags.count \in BOOLEAN
  BY FiguresAssumption

\* What a worker has keeps its type, field by field.
LEMMA LocalFields ==
    ASSUME NEW l \in Locals
    PROVE  l.table \in Tables /\ l.kept \in Seq(Watched) /\ l.sample \in Seq(Files)
  BY DEF Locals

\* The same of the result.
LEMMA ResultFields ==
    ASSUME NEW r \in Results
    PROVE  /\ r.table \in Tables /\ r.kept \in Seq(Watched) /\ r.sample \in Seq(Files)
           /\ r.listed \in Nat /\ r.dropped \in Nat /\ r.watchedDropped \in Nat
  BY DEF Results

\* There are finitely many workers.
LEMMA WorkersFinite == threads \in Nat => IsFiniteSet(Workers)
  BY FS_Interval DEF Workers

\* When no worker has anything left the result has all.
LEMMA AllMerged ==
    ASSUME TallyInv, \A w \in Workers : merged[w]
    PROVE  Grand = Joined(res.table)
<1>1. res.table \in Tables
  BY ResultFields DEF TallyInv, Typed
<1>2. IsFiniteSet(Workers)
  BY WorkersFinite DEF TallyInv, Typed
<1>3. \A v \in Workers : local[v].table = NoTable
  BY DEF TallyInv, NoLocal
<1> QED
  BY <1>1, <1>2, <1>3, BesideNone DEF Grand

-----------------------------------------------------------------------------
(* It holds at the start.                                                  *)

\* Every request gives at least one worker.
LEMMA ThreadsNat ==
    ASSUME NEW r \in Requests, NEW cheap \in BOOLEAN
    PROVE  ChooseThreads(r, cheap) \in Nat \ {0}
<1>1. /\ DefaultThreads \in Nat \ {0} /\ MaxThreads \in Nat /\ LocalThreads \in Nat \ {0}
      /\ r \in Nat \cup {Unset}
  BY FiguresAssumption
<1>2. CASE r # Unset
  <2>1. r \in Nat
    BY <1>1, <1>2
  <2>2. Min({r, MaxThreads}) \in Nat
    BY <1>1, <2>1, MinOfTwo
  <2>3. Max({1, Min({r, MaxThreads})}) \in Nat \ {0}
    BY <2>2, MaxOfTwo
  <2> QED
    BY <1>2, <2>3 DEF ChooseThreads
<1>3. CASE r = Unset
  BY <1>1, <1>3 DEF ChooseThreads
<1> QED
  BY <1>2, <1>3

\* A charge, slot by slot.
LEMMA ChargeOrNot ==
    ASSUME NEW t \in Tables, NEW K, NEW b \in Nat, NEW a \in Nat,
           NEW u, u = ChargeTo(t, K, b, a)
    PROVE  /\ u \in Tables
           /\ \A k \in Keys : IF k \in K THEN u[k].count = t[k].count + 1 /\ u[k].bytes = t[k].bytes + b
                               ELSE u[k] = t[k]
  BY ChargeFields

\* The table of the root alone.
LEMMA RootTable ==
    ASSUME NEW t, t = Joined(RootCharged)
    PROVE  /\ RootCharged \in Tables /\ t \in Tables
           /\ \A k \in Keys : k[1] \notin {"uid", "gid", "dev"} /\ k \notin {<<"dirs">>, <<"size">>}
                 => t[k] = NoSlot /\ (k[1] \notin {"watch", "over"} => RootCharged[k] = NoSlot)
           /\ t[<<"dirs">>].count = 1
           /\ t[<<"size">>].bytes = Blocks(Root)
           /\ ~flags.count =>
                /\ OneGains(NoTable, t, "uid", <<"uid", Attr[Root].uid>>, Blocks(Root))
                /\ OneGains(NoTable, t, "gid", <<"gid", Attr[Root].gid>>, Blocks(Root))
                /\ OneGains(NoTable, t, "dev", <<"dev", Attr[Root].dev>>, Blocks(Root))
<1> DEFINE K == Owners(Root)
           L == {<<"dirs">>} \cup (IF flags.count THEN {} ELSE {<<"size">>})
           b == Attr[Root].blocks
           a == Attr[Root].size
           m == ChargeTo(NoTable, K, b, a)
           u == ChargeTo(m, L, Blocks(Root), Length(Root))
<1>1. b \in Nat /\ a \in Nat /\ Blocks(Root) \in Nat /\ Length(Root) \in Nat
  BY FigureTypes, RootFacts
<1>2. NoTable \in Tables /\ \A k \in Keys : NoTable[k] = NoSlot
  BY NoTableType DEF NoTable
<1>3. /\ m \in Tables
      /\ \A k \in Keys : IF k \in K THEN m[k].count = 1 /\ m[k].bytes = b ELSE m[k] = NoSlot
  <2>1. NoTable \in Tables /\ b \in Nat /\ a \in Nat
    BY <1>1, <1>2
  <2> HIDE DEF K, b, a, L
  <2>2. m \in Tables /\ \A k \in Keys :
          IF k \in K THEN m[k].count = NoTable[k].count + 1 /\ m[k].bytes = NoTable[k].bytes + b
          ELSE m[k] = NoTable[k]
    BY <2>1, ChargeOrNot
  <2>3. \A k \in Keys : NoTable[k].count = 0 /\ NoTable[k].bytes = 0
    BY NoTableType
  <2> HIDE DEF m
  <2> QED
    BY <1>1, <1>2, <2>2, <2>3
<1> HIDE DEF m
<1>4. /\ u \in Tables
      /\ \A k \in Keys : IF k \in L THEN /\ u[k].count = m[k].count + 1
                                         /\ u[k].bytes = m[k].bytes + Blocks(Root)
                         ELSE u[k] = m[k]
  <2> HIDE DEF L
  <2> QED
    BY <1>1, <1>3, ChargeFields
<1>5. u = RootCharged
  BY DEF RootCharged, m
<1> HIDE DEF u
<1>6. t \in Tables
  BY <1>4, <1>5, JoinedFields
<1>7. \A k \in Keys : k[1] \notin {"watch", "over"} => t[k] = u[k]
  BY <1>4, <1>5, JoinedFields
<1>8. \A k \in K : k[1] \in {"uid", "gid", "dev"}
  BY DEF Owners
<1>9. \A k \in L : k \in {<<"dirs">>, <<"size">>}
  OBVIOUS
<1>10. ASSUME NEW k \in Keys, k[1] \notin {"uid", "gid", "dev"}, k \notin {<<"dirs">>, <<"size">>}
       PROVE  u[k] = NoSlot
  <2> HIDE DEF K, L
  <2> QED
    BY <1>3, <1>4, <1>8, <1>9, <1>10
<1>11. ASSUME NEW k \in Keys, k[1] \in {"watch", "over"} PROVE t[k] = NoSlot
  <2>1. k[2] \in Watched /\ k = <<k[1], k[2]>>
    BY <1>11, KeyKinds
  <2>2. \A x \in Watched : /\ <<"watch", x>> \in Keys /\ <<"over", x>> \in Keys
                           /\ u[<<"watch", x>>] = NoSlot /\ u[<<"over", x>>] = NoSlot
    <3> TAKE x \in Watched
    <3>1. <<"watch", x>> \in Keys /\ <<"over", x>> \in Keys
      BY KeysIn
    <3> QED
      BY <3>1, <1>10
  <2>3. t[k] = IF k[1] = "watch" THEN AddSlot(u[k], u[<<"over", k[2]>>]) ELSE NoSlot
    BY <1>5, <1>11 DEF Joined
  <2>4. AddSlot(NoSlot, NoSlot) = NoSlot
    BY DEF AddSlot, NoSlot
  <2> QED
    BY <1>11, <2>1, <2>2, <2>3, <2>4
<1>12. t[<<"dirs">>].count = 1
  <2>1. <<"dirs">> \in Keys /\ <<"dirs">> \notin K /\ <<"dirs">> \in L
    BY KeysIn DEF Owners
  <2>2. <<"dirs">>[1] \notin {"watch", "over"}
    OBVIOUS
  <2>3. m[<<"dirs">>] = NoSlot
    BY <1>3, <2>1
  <2> HIDE DEF L
  <2> QED
    BY <1>4, <1>7, <2>1, <2>2, <2>3 DEF NoSlot
<1>13. t[<<"size">>].bytes = Blocks(Root)
  <2>1. <<"size">> \in Keys /\ <<"size">> \notin K /\ (<<"size">> \in L <=> ~flags.count)
    BY KeysIn DEF Owners
  <2>2. <<"size">>[1] \notin {"watch", "over"}
    OBVIOUS
  <2>3. m[<<"size">>] = NoSlot
    BY <1>3, <2>1
  <2>4. flags.count => Blocks(Root) = 0
    BY DEF Blocks
  <2> HIDE DEF L
  <2> QED
    BY <1>1, <1>4, <1>7, <2>1, <2>2, <2>3, <2>4 DEF NoSlot
<1>14. ASSUME ~flags.count
       PROVE  /\ OneGains(NoTable, t, "uid", <<"uid", Attr[Root].uid>>, Blocks(Root))
              /\ OneGains(NoTable, t, "gid", <<"gid", Attr[Root].gid>>, Blocks(Root))
              /\ OneGains(NoTable, t, "dev", <<"dev", Attr[Root].dev>>, Blocks(Root))
  <2>1. b = Blocks(Root)
    BY <1>14 DEF Blocks
  <2>2. <<"uid", Attr[Root].uid>> \in Keys /\ <<"gid", Attr[Root].gid>> \in Keys
          /\ <<"dev", Attr[Root].dev>> \in Keys
    BY KeysIn, RootFacts DEF Uids, Gids, Devs
  <2>3. ASSUME NEW k \in Keys, k[1] \in {"uid", "gid", "dev"}
        PROVE  /\ k \in K => t[k].count = NoTable[k].count + 1 /\ t[k].bytes = NoTable[k].bytes + b
               /\ k \notin K => t[k] = NoTable[k]
    <3>1. k \notin L
      BY <1>9, <2>3
    <3>2. t[k] = m[k]
      BY <1>4, <1>7, <2>3, <3>1
    <3>3. NoTable[k].count = 0 /\ NoTable[k].bytes = 0 /\ NoTable[k] = NoSlot
      BY <1>2, NoTableType
    <3> HIDE DEF K, b
    <3> QED
      BY <1>1, <1>3, <3>2, <3>3
  <2>4. \A k \in K : \/ k = <<"uid", Attr[Root].uid>>
                     \/ k = <<"gid", Attr[Root].gid>>
                     \/ k = <<"dev", Attr[Root].dev>>
    BY DEF Owners
  <2>5. <<"uid", Attr[Root].uid>> \in K /\ <<"gid", Attr[Root].gid>> \in K
          /\ <<"dev", Attr[Root].dev>> \in K
    BY DEF Owners
  <2> HIDE DEF K, b, L
  <2>6. OneGains(NoTable, t, "uid", <<"uid", Attr[Root].uid>>, b)
    BY <2>2, <2>3, <2>4, <2>5, Tags DEF OneGains, Slotted
  <2>7. OneGains(NoTable, t, "gid", <<"gid", Attr[Root].gid>>, b)
    BY <2>2, <2>3, <2>4, <2>5, Tags DEF OneGains, Slotted
  <2>8. OneGains(NoTable, t, "dev", <<"dev", Attr[Root].dev>>, b)
    BY <2>2, <2>3, <2>4, <2>5, Tags DEF OneGains, Slotted
  <2> QED
    BY <2>1, <2>6, <2>7, <2>8
<1> QED
  BY <1>4, <1>5, <1>6, <1>7, <1>10, <1>11, <1>12, <1>13, <1>14

\* The empty table has no totals.
LEMMA NoTableTotals ==
    \A kind \in {"uid", "gid", "dev", "age"} :
        Total(NoTable, kind, "count") = 0 /\ Total(NoTable, kind, "bytes") = 0
<1> TAKE kind \in {"uid", "gid", "dev", "age"}
<1>1. IsFiniteSet(Slotted(kind)) /\ Slotted(kind) \subseteq Keys
  BY SlottedFinite DEF Slotted
<1> DEFINE c == [k \in Keys |-> NoTable[k]["count"]]
           b == [k \in Keys |-> NoTable[k]["bytes"]]
<1>2. \A k \in Slotted(kind) : c[k] = 0 /\ b[k] = 0
  BY <1>1, NoTableType
<1>3. Total(NoTable, kind, "count") = SumOver(c, Slotted(kind))
      /\ Total(NoTable, kind, "bytes") = SumOver(b, Slotted(kind))
  BY DEF Total, Slotted
<1> HIDE DEF c, b
<1>4. SumOver(c, Slotted(kind)) = 0 /\ SumOver(b, Slotted(kind)) = 0
  BY <1>1, <1>2, SumZero
<1> QED
  BY <1>3, <1>4

\* The root alone is a ledger, with itself to be scanned.
LEMMA RootLedger ==
    ASSUME flags.depth \in Nat
    PROVE  Ledger(Joined(RootCharged), {Root}, {})
<1> DEFINE t == Joined(RootCharged)
<1>1. /\ t \in Tables
      /\ \A k \in Keys : k[1] \notin {"uid", "gid", "dev"} /\ k \notin {<<"dirs">>, <<"size">>}
            => t[k] = NoSlot
      /\ t[<<"dirs">>].count = 1 /\ t[<<"size">>].bytes = Blocks(Root)
      /\ ~flags.count =>
           /\ OneGains(NoTable, t, "uid", <<"uid", Attr[Root].uid>>, Blocks(Root))
           /\ OneGains(NoTable, t, "gid", <<"gid", Attr[Root].gid>>, Blocks(Root))
           /\ OneGains(NoTable, t, "dev", <<"dev", Attr[Root].dev>>, Blocks(Root))
  BY RootTable
<1> HIDE DEF t
<1>2. Blocks(Root) \in Nat
  BY FigureTypes, RootFacts
<1>3. \A x \in Entries \ {Root} : t[<<"row", x>>] = NoSlot
  <2>1. \A x \in Entries \ {Root} : <<"row", x>> \in Keys
    BY KeysIn
  <2> QED
    BY <1>1, <2>1
<1>4. \A a \in Watched : t[<<"watch", a>>] = NoSlot
  <2>1. \A x \in Watched : <<"watch", x>> \in Keys
    BY KeysIn
  <2> QED
    BY <1>1, <2>1
<1>5. t[<<"files">>] = NoSlot /\ t[<<"extra">>] = NoSlot /\ t[<<"seen">>] = NoSlot
  <2>1. <<"files">> \in Keys /\ <<"extra">> \in Keys /\ <<"seen">> \in Keys
    BY KeysIn
  <2> QED
    BY <1>1, <2>1
<1>6. NoSlot.count = 0 /\ NoSlot.bytes = 0
  BY DEF NoSlot
<1>7. InodesOf(t) = 1
  BY <1>1, <1>5, <1>6 DEF InodesOf
<1>8. EmptyRows(t)
  BY <1>3, <1>6 DEF EmptyRows
<1>9. WatchedAsRows(t)
  <2>1. \A a \in Watched : a \in Entries \ {Root}
    BY RootFacts
  <2> QED
    BY <1>3, <1>4, <1>6, <2>1 DEF WatchedAsRows
<1>10. OwnedOnce(t)
  <2> SUFFICES ASSUME ~flags.count
               PROVE  /\ \A kind \in {"uid", "gid", "dev"} :
                            /\ Total(t, kind, "bytes") = t[<<"size">>].bytes
                            /\ Total(t, kind, "count") = InodesOf(t)
                      /\ Total(t, "age", "count") = t[<<"files">>].count - t[<<"extra">>].count
    BY DEF OwnedOnce
  <2>1. NoTable \in Tables
    BY NoTableType
  <2>2. ASSUME NEW kind \in {"uid", "gid", "dev"}
        PROVE  Total(t, kind, "bytes") = Blocks(Root) /\ Total(t, kind, "count") = 1
    <3>1. \E one : OneGains(NoTable, t, kind, one, Blocks(Root))
      BY <1>1
    <3>2. /\ Total(t, kind, "count") = Total(NoTable, kind, "count") + 1
          /\ Total(t, kind, "bytes") = Total(NoTable, kind, "bytes") + Blocks(Root)
      BY <1>1, <1>2, <2>1, <3>1, TotalGains
    <3> QED
      BY <1>2, <3>2, NoTableTotals
  <2>3. Total(t, "age", "count") = 0
    <3>1. \A k \in Slotted("age") : k \in Keys /\ k[1] = "age"
      BY DEF Slotted
    <3>2. \A k \in Keys : NoTable[k] = NoSlot
      BY DEF NoTable
    <3>3. \A k \in Slotted("age") : t[k] = NoTable[k]
      BY <1>1, <3>1, <3>2
    <3>4. Total(t, "age", "count") = Total(NoTable, "age", "count")
      BY <1>1, <2>1, <3>3, TotalSame
    <3> QED
      BY <3>4, NoTableTotals
  <2> QED
    BY <1>1, <1>5, <1>6, <1>7, <2>2, <2>3
<1>11. PackedOnce(t)
  <2>1. ASSUME NEW A \in SUBSET Watched
        PROVE  /\ SumOver(WatchFigures(t, "count"), A) = 0
               /\ SumOver(WatchFigures(t, "bytes"), A) = 0
    <3>1. IsFiniteSet(A)
      BY EntriesFinite, FS_Subset
    <3>2. \A a \in A : WatchFigures(t, "count")[a] = 0 /\ WatchFigures(t, "bytes")[a] = 0
      BY <1>1, <1>4, <1>6, WatchFigureTypes
    <3> QED
      BY <3>1, <3>2, SumZero
  <2> QED
    BY <1>1, <1>2, <1>7, <2>1 DEF PackedOnce
<1>12. RowsAdd(t)
  <2>1. ASSUME NEW d PROVE ChildSum(t, d, "count") = 0 /\ ChildSum(t, d, "bytes") = 0
    <3>1. \A x \in Children(d) : x \in Entries \ {Root}
      BY DEF Children
    <3>2. \A x \in Children(d) : t[<<"row", x>>].count = 0 /\ t[<<"row", x>>].bytes = 0
      BY <1>3, <1>6, <3>1
    <3> QED
      BY <1>1, <3>2, ChildSumZero
  <2>2. \A d \in Dirs : d # Root => t[<<"row", d>>].count = 0
    <3>1. \A d \in Dirs : d # Root => d \in Entries \ {Root}
      BY RootFacts
    <3> QED
      BY <1>3, <1>6, <3>1
  <2> QED
    BY <1>1, <1>2, <1>7, <2>1, <2>2 DEF RowsAdd
<1>13. SeenOnce(t)
  <2>1. TouchedWatched(t) = {}
    BY <1>4, <1>6 DEF TouchedWatched
  <2> QED
    BY <1>5, <1>6, <2>1, FS_EmptySet DEF SeenOnce
<1>14. Frontier(t, {Root}, {})
  <2>1. \A x \in Entries : x # Root => Untouched(t, x)
    <3>1. \A x \in Watched : x \in Entries
      BY RootFacts
    <3> QED
      BY <1>3, <1>4, <1>6 DEF Untouched
  <2>2. Line(Root) = {}
    BY RootLine
  <2> QED
    BY <2>1, <2>2, RootFacts DEF Frontier, Below
<1> QED
  BY <1>1, <1>8, <1>9, <1>10, <1>11, <1>12, <1>13, <1>14 DEF Ledger, t

\* To keep nothing is in order.
LEMMA EmptyKept == ASSUME NEW t PROVE KeptOnce(<<>>, t)
  BY DEF KeptOnce

\* The empty sample is whole where nothing is recent.
LEMMA EmptySample ==
    ASSUME NEW t \in Tables, t[<<"recent">>] = NoSlot, t[<<"touched">>] = NoSlot
    PROVE  SampleWhole(<<>>, t) /\ QuietRecent(t)
<1>1. NoSlot.count = 0 /\ NoSlot.bytes = 0 /\ NoSlot.apparent = 0
  BY DEF NoSlot
<1>2. QuietRecent(t)
  BY <1>1 DEF QuietRecent
<1>3. RecentCount(t) = 0 /\ RecentBytes(t) = 0
  BY <1>1 DEF RecentCount, RecentBytes
<1>4. SampleBlocks(<<>>) = 0
  <2> DEFINE w == [i \in 1..Len(<<>>) |-> Attr[<<>>[i]].blocks]
  <2>1. 1..Len(<<>>) = {}
    OBVIOUS
  <2>2. SampleBlocks(<<>>) = SumOver(w, {})
    BY <2>1 DEF SampleBlocks
  <2> HIDE DEF w
  <2> QED
    BY <2>2, SumEmpty
<1>5. SampleWhole(<<>>, t)
  BY <1>3, <1>4, CapNat DEF SampleWhole
<1> QED
  BY <1>2, <1>5

\* A worker that has nothing has its types.
LEMMA NoLocalType == NoLocal \in Locals /\ NoLocal.table = NoTable
                       /\ NoLocal.kept = <<>> /\ NoLocal.sample = <<>>
  BY NoTableType DEF NoLocal, Locals

\* The invariant holds at the start.
LEMMA TallyStarts == Init => TallyInv
<1> SUFFICES ASSUME Init PROVE TallyInv
  OBVIOUS
<1>1. flags.depth \in Nat
  BY ModeFacts DEF Init
<1>2. RootCharged \in Tables
  BY RootTable
<1>3. threads \in Nat
  BY ThreadsNat DEF Init
<1>4. /\ local = [w \in Workers |-> NoLocal] /\ merged = [w \in Workers |-> FALSE]
      /\ res = [table |-> RootCharged, kept |-> <<>>, sample |-> <<>>,
                listed |-> 0, dropped |-> 0, watchedDropped |-> 0]
      /\ queue = {Root} /\ seenLinks = {} /\ published = FALSE /\ flags \in Modes
  BY DEF Init
<1>5. /\ res.table = RootCharged /\ res.kept = <<>> /\ res.sample = <<>>
      /\ res.listed = 0 /\ res.dropped = 0
  BY <1>4
<1>6. Typed
  <2>1. res \in Results
    <3> HIDE DEF RootCharged
    <3>1. <<>> \in Seq(Watched) /\ <<>> \in Seq(Files)
      OBVIOUS
    <3> QED
      BY <1>2, <1>4, <3>1 DEF Results
  <2>2. local \in [Workers -> Locals]
    BY <1>4, NoLocalType
  <2>3. merged \in [Workers -> BOOLEAN]
    BY <1>4
  <2> QED
    BY <1>3, <1>4, <2>1, <2>2, <2>3 DEF Typed
<1>7. Grand = Joined(RootCharged)
  <2>1. \A v \in Workers : local[v].table = NoTable
    BY <1>4, NoLocalType
  <2> QED
    BY <1>2, <1>3, <1>5, <2>1, WorkersFinite, BesideNone DEF Grand
<1>8. Ledger(Grand, queue, {})
  BY <1>1, <1>4, <1>7, RootLedger
<1>9. SampleWhole(res.sample, res.table) /\ QuietRecent(res.table)
  <2>1. \A k \in {<<"recent">>, <<"touched">>, <<"unreadable">>} : k \in Keys
           /\ k[1] \notin {"uid", "gid", "dev", "watch", "over"} /\ k \notin {<<"dirs">>, <<"size">>}
    BY KeysIn
  <2>2. RootCharged[<<"recent">>] = NoSlot /\ RootCharged[<<"touched">>] = NoSlot
    BY <2>1, RootTable
  <2> QED
    BY <1>2, <1>5, <2>2, EmptySample
<1>10. UnreadableDirs = Count("unreadable")
  <2>1. <<"unreadable">> \in Keys /\ <<"unreadable">>[1] \notin {"uid", "gid", "dev", "watch", "over"}
          /\ <<"unreadable">> \notin {<<"dirs">>, <<"size">>}
    BY KeysIn
  <2>2. RootCharged[<<"unreadable">>] = NoSlot
    BY <2>1, RootTable
  <2> QED
    BY <1>5, <2>2 DEF UnreadableDirs, Count, NoSlot
<1>11. ASSUME NEW w \in Workers
       PROVE  /\ ~merged[w] /\ KeptOnce(local[w].kept, Grand)
              /\ SampleWhole(local[w].sample, local[w].table) /\ QuietRecent(local[w].table)
  <2>1. local[w] = NoLocal /\ ~merged[w]
    BY <1>4
  <2>2. NoTable \in Tables /\ NoTable[<<"recent">>] = NoSlot /\ NoTable[<<"touched">>] = NoSlot
    BY NoTableType, KeysIn DEF NoTable
  <2> QED
    BY <2>1, <2>2, NoLocalType, EmptySample, EmptyKept
<1>12. KeptOnce(res.kept, Grand)
  BY <1>5, EmptyKept
<1> QED
  BY <1>4, <1>6, <1>8, <1>9, <1>10, <1>11, <1>12 DEF TallyInv

-----------------------------------------------------------------------------
(* A scan keeps it.                                                        *)

\* The first n of the names of a directory, in some order.
LEMMA FirstNames ==
    ASSUME NEW d, NEW names \in SetToSeqs(Children(d)), NEW n \in 0..Len(names)
    PROVE  /\ n \in Nat /\ SubSeq(names, 1, n) \in [1..n -> Children(d)]
           /\ \A i, j \in 1..n : i # j => SubSeq(names, 1, n)[i] # SubSeq(names, 1, n)[j]
<1> DEFINE c == Cardinality(Children(d))
           C == Children(d)
           s == SubSeq(names, 1, n)
<1>1. c \in Nat
  BY EntriesFinite, FS_CardinalityType
<1>2. names \in [1..c -> C] /\ \A i, j \in 1..c : i # j => names[i] # names[j]
  BY DEF SetToSeqs
<1> HIDE DEF c, C
<1>3. names \in Seq(C) /\ Len(names) = c
  BY <1>1, <1>2
<1>4. n \in Nat /\ n <= c
  BY <1>1, <1>3
<1>5. s = [i \in 1..n |-> names[i]]
  <2>1. s = [i \in 1..(1 + n - 1) |-> names[1 + i - 1]]
    OBVIOUS
  <2>2. 1 + n - 1 = n
    BY <1>4
  <2>3. \A i \in 1..n : 1 + i - 1 = i
    OBVIOUS
  <2> HIDE DEF s
  <2> QED
    BY <2>1, <2>2, <2>3
<1>6. \A i \in 1..n : i \in 1..c
  BY <1>1, <1>4
<1>7. s \in [1..n -> C] /\ \A i \in 1..n : s[i] = names[i]
  BY <1>2, <1>5, <1>6
<1> HIDE DEF s
<1>8. \A i, j \in 1..n : i # j => s[i] # s[j]
  BY <1>2, <1>6, <1>7
<1> QED
  BY <1>4, <1>7, <1>8 DEF s, C

\* The ledger is a matter of the flags and the tables.
LEMMA LedgerFlags ==
    ASSUME flags' = flags
    PROVE  \A t, Q, U : Ledger(t, Q, U)' <=> Ledger(t, Q, U)
<1> TAKE t, Q, U
<1>1. \A e : Blocks(e)' = Blocks(e)
  BY DEF Blocks
<1>2. OwnedOnce(t)' <=> OwnedOnce(t)
  BY DEF OwnedOnce
<1>3. WatchedAsRows(t)' <=> WatchedAsRows(t)
  BY DEF WatchedAsRows
<1>4. RowsAdd(t)' <=> RowsAdd(t)
  BY <1>1 DEF RowsAdd
<1>5. Frontier(t, Q, U)' <=> Frontier(t, Q, U)
  <2>1. \A x : (Touched(t, x)' <=> Touched(t, x)) /\ (Untouched(t, x)' <=> Untouched(t, x))
    BY DEF Touched, Untouched
  <2> QED
    BY <2>1 DEF Frontier
<1> QED
  BY <1>2, <1>3, <1>4, <1>5 DEF Ledger

\* What a scan does to all tables together, to the links and to the queue.
ScanLeads(w, d, names, n, failing, raises) ==
    LET scan == Scanned(w, d, SubSeq(names, 1, n), failing, raises)
    IN  /\ Grand' = All(Beside(res.table, local, Workers \ {w}), scan)
        /\ seenLinks' = scan.links /\ queue' = (queue \ {d}) \cup scan.kids

\* The scan of a directory, by any worker, keeps the invariant.
LEMMA ScanStep ==
    ASSUME TallyInv, NEW w \in Workers, Scan(w)
    PROVE  /\ TallyInv'
           /\ \E d \in queue : \E names \in SetToSeqs(Children(d)),
                 failing \in SUBSET Children(d), raises \in BOOLEAN : \E n \in 0..Len(names) :
                    (~raises => n = Len(names)) /\ ScanLeads(w, d, names, n, failing, raises)
<1>1. /\ Typed /\ Ledger(Grand, queue, {})
      /\ \A v \in Workers : /\ merged[v] => local[v] = NoLocal
                            /\ KeptOnce(local[v].kept, Grand)
                            /\ SampleWhole(local[v].sample, local[v].table)
                            /\ QuietRecent(local[v].table)
      /\ KeptOnce(res.kept, Grand)
      /\ SampleWhole(res.sample, res.table) /\ QuietRecent(res.table)
      /\ UnreadableDirs = Count("unreadable")
      /\ published => WatchedSeen = Count("seen") /\ \A v \in Workers : merged[v]
  BY DEF TallyInv
<1>2. PICK d \in queue : \E names \in SetToSeqs(Children(d)),
          failing \in SUBSET {e \in Children(d) : MayFail(e)},
          raises \in {FALSE} \cup {u = d : u \in Unopenable} :
       \E n \in 0..Len(names) :
          /\ ~raises => n = Len(names)
          /\ LET scan == Scanned(w, d, SubSeq(names, 1, n), failing, raises)
             IN  /\ local' = [local EXCEPT ![w] =
                       [table |-> scan.table, kept |-> scan.kept,
                        sample |-> scan.sample]]
                 /\ seenLinks' = scan.links
                 /\ queue' = (queue \ {d}) \cup scan.kids
  BY Zenon DEF Scan
<1>3. PICK names \in SetToSeqs(Children(d)),
          failing \in SUBSET {e \in Children(d) : MayFail(e)},
          raises \in {FALSE} \cup {u = d : u \in Unopenable} :
       \E n \in 0..Len(names) :
          /\ ~raises => n = Len(names)
          /\ LET scan == Scanned(w, d, SubSeq(names, 1, n), failing, raises)
             IN  /\ local' = [local EXCEPT ![w] =
                       [table |-> scan.table, kept |-> scan.kept,
                        sample |-> scan.sample]]
                 /\ seenLinks' = scan.links
                 /\ queue' = (queue \ {d}) \cup scan.kids
  BY <1>2, Zenon
<1>4. PICK n \in 0..Len(names) :
          /\ ~raises => n = Len(names)
          /\ LET scan == Scanned(w, d, SubSeq(names, 1, n), failing, raises)
             IN  /\ local' = [local EXCEPT ![w] =
                       [table |-> scan.table, kept |-> scan.kept,
                        sample |-> scan.sample]]
                 /\ seenLinks' = scan.links
                 /\ queue' = (queue \ {d}) \cup scan.kids
  BY <1>3, Zenon
<1> DEFINE scan == Scanned(w, d, SubSeq(names, 1, n), failing, raises)
           mine == [table |-> scan.table, kept |-> scan.kept, sample |-> scan.sample]
           o == Beside(res.table, local, Workers \ {w})
<1>5. /\ local' = [local EXCEPT ![w] = mine] /\ seenLinks' = scan.links
      /\ queue' = (queue \ {d}) \cup scan.kids
  BY <1>4
<1>6. /\ ~merged[w] /\ flags' = flags /\ threads' = threads /\ merged' = merged
      /\ res' = res /\ published' = published /\ Workers' = Workers
  BY DEF Scan, Workers
<1>7. /\ flags.depth \in Nat /\ threads \in Nat /\ seenLinks \subseteq Inos
      /\ local \in [Workers -> Locals] /\ res \in Results
  BY <1>1, ModeFacts DEF Typed
<1>8. /\ IsFiniteSet(Workers) /\ IsFiniteSet(Workers \ {w})
      /\ res.table \in Tables
      /\ \A v \in Workers : local[v].table \in Tables
  <2>1. IsFiniteSet(Workers)
    BY <1>7, WorkersFinite
  <2>2. IsFiniteSet(Workers \ {w})
    BY <2>1, FS_Subset
  <2>3. \A v \in Workers : local[v].table \in Tables
    BY <1>7, LocalFields
  <2> QED
    BY <1>7, <2>1, <2>2, <2>3, ResultFields
<1>9. o \in Tables
  BY <1>8, BesideFields
<1>10. Grand = AddTable(o, Joined(local[w].table))
  BY <1>8, BesideSplit DEF Grand
<1> HIDE DEF scan, o
<1>11. Reading(scan, o, queue \ {d}, {}, TouchedWatched(Grand))
  <2>1. /\ n \in Nat /\ SubSeq(names, 1, n) \in [1..n -> Children(d)]
        /\ \A i, j \in 1..n : i # j => SubSeq(names, 1, n)[i] # SubSeq(names, 1, n)[j]
    BY FirstNames
  <2> DEFINE s == SubSeq(names, 1, n)
             G == Grand
  <2>2. /\ s \in [1..n -> Children(d)] /\ \A i, j \in 1..n : i # j => s[i] # s[j]
        /\ G = AddTable(o, Joined(local[w].table)) /\ Ledger(G, queue, {})
        /\ KeptOnce(local[w].kept, G)
        /\ SampleWhole(local[w].sample, local[w].table) /\ QuietRecent(local[w].table)
        /\ local[w] \in Locals
    BY <1>1, <1>7, <1>10, <2>1
  <2> HIDE DEF s, G
  <2>3. Reading(Scanned(w, d, s, failing, raises), o, queue \ {d}, {}, TouchedWatched(G))
    BY <1>7, <1>9, <2>1, <2>2, ScanKeeps
  <2> QED
    BY <2>3 DEF scan, s, G
<1>12. /\ scan \in Accs /\ Ledger(All(o, scan), queue', {})
       /\ KeptOnce(scan.kept, All(o, scan))
       /\ SampleWhole(scan.sample, scan.table) /\ QuietRecent(scan.table)
       /\ TouchedWatched(Grand) \subseteq TouchedWatched(All(o, scan))
  BY <1>5, <1>11 DEF Reading
<1>13. mine \in Locals /\ scan.table \in Tables /\ scan.links \subseteq Inos
  <2>1. /\ scan.table \in Tables /\ scan.kept \in Seq(Watched) /\ scan.sample \in Seq(Files)
        /\ scan.links \subseteq Inos
    BY <1>12, AccFields
  <2> QED
    BY <2>1 DEF Locals
<1>14. /\ mine.table = scan.table /\ mine.kept = scan.kept /\ mine.sample = scan.sample
  OBVIOUS
<1> HIDE DEF mine
<1>15. /\ local' \in [Workers -> Locals] /\ local'[w] = mine
       /\ \A v \in Workers : v # w => local'[v] = local[v]
  BY <1>5, <1>7, <1>13
<1>16. Typed'
  BY <1>1, <1>5, <1>6, <1>13, <1>15 DEF Typed
<1>17. Grand' = All(o, scan)
  <2>1. \A v \in Workers : local'[v].table \in Tables
    BY <1>8, <1>13, <1>14, <1>15
  <2>2. PICK l : l = local'
    OBVIOUS
  <2>3. \A v \in Workers : l[v].table \in Tables
    BY <2>2, <2>1
  <2>4. \A v \in Workers \ {w} : local[v].table = l[v].table
    BY <1>15, <2>2
  <2>5. l[w].table = scan.table
    BY <1>14, <1>15, <2>2
  <2>6. Grand' = Beside(res.table, l, Workers)
    BY <1>6, <2>2 DEF Grand
  <2>7. Beside(res.table, l, Workers)
          = AddTable(Beside(res.table, l, Workers \ {w}), Joined(l[w].table))
    <3>1. IsFiniteSet(Workers) /\ res.table \in Tables /\ w \in Workers
      BY <1>8
    <3> QED
      BY <2>3, <3>1, BesideSplit
  <2>8. Beside(res.table, l, Workers \ {w}) = o
    BY <2>4, BesideSame DEF o
  <2> QED
    BY <2>5, <2>6, <2>7, <2>8 DEF All
<1>18. Ledger(Grand, queue, {})'
  BY <1>6, <1>12, <1>17, LedgerFlags
<1>19. \A v \in Workers : /\ (merged[v] => local[v] = NoLocal)'
                          /\ KeptOnce(local[v].kept, Grand)'
                          /\ SampleWhole(local[v].sample, local[v].table)'
                          /\ QuietRecent(local[v].table)'
  <2> TAKE v \in Workers
  <2>1. CASE v = w
    BY <1>6, <1>12, <1>14, <1>15, <1>17, <2>1
  <2>2. CASE v # w
    <3>1. local'[v] = local[v]
      BY <1>15, <2>2
    <3>2. KeptOnce(local[v].kept, All(o, scan))
      BY <1>1, <1>12, KeptOnceMore
    <3> QED
      BY <1>1, <1>6, <1>17, <3>1, <3>2
  <2> QED
    BY <2>1, <2>2
<1>20. KeptOnce(res.kept, Grand)'
  <2>1. KeptOnce(res.kept, All(o, scan))
    BY <1>1, <1>12, KeptOnceMore
  <2> QED
    BY <1>6, <1>17, <2>1
<1>21. /\ SampleWhole(res.sample, res.table)' /\ QuietRecent(res.table)'
       /\ (UnreadableDirs = Count("unreadable"))'
  BY <1>1, <1>6 DEF UnreadableDirs, Count
<1>22. ~published'
  BY <1>1, <1>6
<1>23. TallyInv'
  BY <1>6, <1>16, <1>18, <1>19, <1>20, <1>21, <1>22 DEF TallyInv
<1>24. (~raises => n = Len(names)) /\ ScanLeads(w, d, names, n, failing, raises)
  BY <1>4, <1>5, <1>17 DEF ScanLeads, scan, o
<1>25. failing \in SUBSET Children(d) /\ raises \in BOOLEAN
  OBVIOUS
<1> QED
  BY <1>23, <1>24, <1>25

-----------------------------------------------------------------------------
(* Samples that are put together.                                          *)

\* The blocks of two samples add up.
LEMMA SampleConcat ==
    ASSUME NEW s \in Seq(Files), NEW m \in Seq(Files)
    PROVE  /\ s \o m \in Seq(Files) /\ Len(s \o m) = Len(s) + Len(m)
           /\ SampleBlocks(s \o m) = SampleBlocks(s) + SampleBlocks(m)
<1> DEFINE a == Len(s)
           b == Len(m)
           c == s \o m
           u == [i \in 1..a |-> Attr[s[i]].blocks]
           v == [i \in 1..b |-> Attr[m[i]].blocks]
           w == [i \in 1..Len(c) |-> Attr[c[i]].blocks]
<1>1. /\ a \in Nat /\ b \in Nat /\ c \in Seq(Files) /\ Len(c) = a + b
      /\ \A i \in 1..a : c[i] = s[i] /\ s[i] \in Files
      /\ \A i \in 1..b : c[a + i] = m[i] /\ m[i] \in Files
  OBVIOUS
<1>2. \A x \in Files : Attr[x].blocks \in Nat
  BY FigureTypes, RootFacts
<1>3. \A i \in 1..a : i \in 1..Len(c) /\ w[i] = u[i] /\ u[i] \in Nat
  BY <1>1, <1>2
<1>4. \A i \in 1..b : (a + i) \in 1..Len(c) /\ w[a + i] = v[i] /\ v[i] \in Nat
  BY <1>1, <1>2
<1>5. /\ SampleBlocks(s) = SumOver(u, 1..a) /\ SampleBlocks(m) = SumOver(v, 1..b)
      /\ SampleBlocks(c) = SumOver(w, 1..Len(c))
  BY DEF SampleBlocks
<1> HIDE DEF a, b, c, u, v, w
<1>6. \A n \in Nat : IsFiniteSet(1..n)
  BY FS_Interval
<1> DEFINE B == {k \in 0..b : SumOver(w, 1..(a + k)) # SumOver(u, 1..a) + SumOver(v, 1..k)}
<1>7. SumOver(u, 1..a) \in Nat
  BY <1>1, <1>3, <1>6, SumNat
<1>8. 0 \notin B
  <2>1. a + 0 = a /\ 1..0 = {}
    BY <1>1
  <2>2. SumOver(v, 1..0) = 0
    BY <2>1, SumEmpty
  <2>3. SumOver(w, 1..a) = SumOver(u, 1..a)
    BY <1>1, <1>3, <1>6, SumSame
  <2> QED
    BY <1>7, <2>1, <2>2, <2>3
<1>9. ASSUME NEW k \in 0..b, k # 0, (k - 1) \notin B PROVE k \notin B
  <2>1. k \in Nat /\ k \in 1..b /\ k - 1 \in Nat /\ k - 1 \in 0..b /\ a + k \in Nat
          /\ a + (k - 1) \in Nat
    BY <1>1, <1>9
  <2>2. /\ 1..k = (1..(k - 1)) \cup {k} /\ k \notin 1..(k - 1)
        /\ 1..(a + k) = (1..(a + (k - 1))) \cup {a + k} /\ (a + k) \notin 1..(a + (k - 1))
    BY <1>1, <2>1
  <2>3. \A i \in 1..k : v[i] \in Nat
    BY <1>1, <1>4, <2>1
  <2>4. \A i \in 1..(a + k) : w[i] \in Nat
    <3> TAKE i \in 1..(a + k)
    <3>1. CASE i \in 1..a
      BY <1>3, <3>1
    <3>2. CASE i \notin 1..a
      <4>1. (i - a) \in 1..b /\ a + (i - a) = i
        BY <1>1, <2>1, <3>2
      <4> QED
        BY <1>4, <4>1
    <3> QED
      BY <3>1, <3>2
  <2>5. SumOver(v, (1..(k - 1)) \cup {k}) = v[k] + SumOver(v, 1..(k - 1))
    BY <1>6, <2>1, <2>2, <2>3, SumAdd
  <2>6. SumOver(w, (1..(a + (k - 1))) \cup {a + k}) = w[a + k] + SumOver(w, 1..(a + (k - 1)))
    BY <1>6, <2>1, <2>2, <2>4, SumAdd
  <2>7. SumOver(w, 1..(a + (k - 1))) = SumOver(u, 1..a) + SumOver(v, 1..(k - 1))
    BY <1>9, <2>1
  <2>8. SumOver(v, 1..(k - 1)) \in Nat
    <3>1. \A i \in 1..(k - 1) : v[i] \in Nat
      BY <1>1, <1>4, <2>1
    <3> QED
      BY <1>6, <2>1, <3>1, SumNat
  <2>9. w[a + k] = v[k] /\ v[k] \in Nat
    BY <1>4, <2>1
  <2>10. SumOver(v, 1..k) = v[k] + SumOver(v, 1..(k - 1))
    BY <2>2, <2>5
  <2>11. SumOver(w, 1..(a + k)) = v[k] + (SumOver(u, 1..a) + SumOver(v, 1..(k - 1)))
    BY <2>2, <2>6, <2>7, <2>9
  <2> HIDE DEF B
  <2>12. SumOver(w, 1..(a + k)) = SumOver(u, 1..a) + SumOver(v, 1..k)
    BY <1>7, <2>8, <2>9, <2>10, <2>11
  <2> QED
    BY <2>12 DEF B
<1>10. B = {}
  <2> SUFFICES ASSUME B # {} PROVE FALSE
    OBVIOUS
  <2>1. IsFiniteSet(B) /\ B \subseteq 0..b
    BY <1>1, BoundedIsFinite
  <2>2. B \subseteq Int
    BY <1>1
  <2>3. Min(B) \in B /\ \A y \in B : Min(B) <= y
    BY <2>1, <2>2, MinIsLeast
  <2> DEFINE k == Min(B)
  <2>4. k \in 0..b /\ k # 0
    BY <1>8, <2>3
  <2>5. (k - 1) \notin B
    <3>1. k \in Int /\ k \in B /\ \A y \in B : k <= y
      BY <1>1, <2>3, <2>4
    <3> HIDE DEF k, B
    <3> QED
      BY <3>1
  <2> QED
    BY <1>9, <2>3, <2>4, <2>5
<1>11. SumOver(w, 1..(a + b)) = SumOver(u, 1..a) + SumOver(v, 1..b)
  BY <1>1, <1>10
<1> QED
  BY <1>1, <1>5, <1>11 DEF a, b, c

\* Cutting twice at a cap is cutting once.
LEMMA CutCount ==
    ASSUME NEW cap \in Nat, NEW p \in Nat, NEW q \in Nat, NEW n,
           n = IF cap <= (IF cap <= p THEN cap ELSE p) + (IF cap <= q THEN cap ELSE q) THEN cap
               ELSE (IF cap <= p THEN cap ELSE p) + (IF cap <= q THEN cap ELSE q)
    PROVE  /\ n = IF cap <= p + q THEN cap ELSE p + q
           /\ n = p + q => /\ (IF cap <= p THEN cap ELSE p) = p /\ (IF cap <= q THEN cap ELSE q) = q
                           /\ n = (IF cap <= p THEN cap ELSE p) + (IF cap <= q THEN cap ELSE q)
  OBVIOUS

\* Two samples that are whole make one, cut at the cap.
LEMMA SampleMerged ==
    ASSUME NEW s \in Seq(Files), NEW m \in Seq(Files), NEW t \in Tables, NEW u \in Tables,
           NEW T \in Tables, SampleWhole(s, t), SampleWhole(m, u),
           RecentCount(T) = RecentCount(t) + RecentCount(u),
           RecentBytes(T) = RecentBytes(t) + RecentBytes(u)
    PROVE  LET c == SubSeq(s \o m, 1, Min({SampleCap, Len(s \o m)}))
           IN  c \in Seq(Files) /\ SampleWhole(c, T)
<1> DEFINE x == s \o m
           n == Min({SampleCap, Len(x)})
           c == SubSeq(x, 1, n)
<1>1. /\ x \in Seq(Files) /\ Len(x) = Len(s) + Len(m)
      /\ SampleBlocks(x) = SampleBlocks(s) + SampleBlocks(m)
  BY SampleConcat
<1>2. Len(s) \in Nat /\ Len(m) \in Nat /\ SampleCap \in Nat
  BY CapNat
<1>3. /\ RecentCount(t) \in Nat /\ RecentCount(u) \in Nat
      /\ RecentBytes(t) \in Nat /\ RecentBytes(u) \in Nat
  BY RecentTypes
<1>4. /\ Len(s) = IF SampleCap <= RecentCount(t) THEN SampleCap ELSE RecentCount(t)
      /\ Len(s) = RecentCount(t) => SampleBlocks(s) = RecentBytes(t)
      /\ Len(m) = IF SampleCap <= RecentCount(u) THEN SampleCap ELSE RecentCount(u)
      /\ Len(m) = RecentCount(u) => SampleBlocks(m) = RecentBytes(u)
  BY DEF SampleWhole
<1> HIDE DEF x
<1>5. n = IF SampleCap <= Len(x) THEN SampleCap ELSE Len(x)
  BY <1>1, <1>2, MinOfTwo
<1> HIDE DEF n
<1>6. n \in 0..Len(x)
  BY <1>1, <1>2, <1>5
<1>7. c \in Seq(Files) /\ Len(c) = n
  BY <1>1, <1>6
<1>8. n = Len(x) => c = x
  BY <1>1, <1>6
<1> HIDE DEF c
<1> DEFINE p == RecentCount(t)
           q == RecentCount(u)
           ls == Len(s)
           lm == Len(m)
<1>9. /\ p \in Nat /\ q \in Nat /\ SampleCap \in Nat
      /\ ls = IF SampleCap <= p THEN SampleCap ELSE p
      /\ lm = IF SampleCap <= q THEN SampleCap ELSE q
      /\ n = IF SampleCap <= ls + lm THEN SampleCap ELSE ls + lm
      /\ RecentCount(T) = p + q
  BY <1>1, <1>2, <1>3, <1>4, <1>5
<1>10. /\ n = IF SampleCap <= p + q THEN SampleCap ELSE p + q
       /\ n = p + q => ls = p /\ lm = q /\ n = ls + lm
  <2> HIDE DEF p, q, ls, lm
  <2> QED
    BY <1>9, CutCount
<1>11. Len(c) = IF SampleCap <= RecentCount(T) THEN SampleCap ELSE RecentCount(T)
  BY <1>7, <1>9, <1>10
<1>12. ASSUME Len(c) = RecentCount(T) PROVE SampleBlocks(c) = RecentBytes(T)
  <2>1. Len(s) = RecentCount(t) /\ Len(m) = RecentCount(u) /\ n = Len(x)
    BY <1>1, <1>7, <1>12, <1>9, <1>10
  <2> QED
    BY <1>1, <1>4, <1>8, <2>1
<1>13. SampleWhole(c, T)
  BY <1>11, <1>12 DEF SampleWhole
<1> QED
  BY <1>7, <1>13 DEF c, n, x

-----------------------------------------------------------------------------
(* A merge keeps it.                                                       *)

\* A worker's table with the slots of the lost directories in the overflow.
MovedOver(t, lost) ==
    [k \in Keys |->
        CASE k[1] = "watch" /\ k[2] \in lost -> NoSlot
          [] k[1] = "over" /\ k[2] \in lost -> AddSlot(t[k], t[<<"watch", k[2]>>])
          [] OTHER -> t[k]]

\* What goes to the overflow is lost to nobody.
LEMMA MovedJoins ==
    ASSUME NEW t \in Tables, NEW lost \in SUBSET Watched, NEW m, m = MovedOver(t, lost)
    PROVE  /\ m \in Tables /\ Joined(m) = Joined(t)
           /\ \A k \in Keys : k[1] \notin {"watch", "over"} => m[k] = t[k]
<1>1. /\ NoSlot \in Slots
      /\ \A k \in Keys : t[k] \in Slots
      /\ \A a \in Watched : <<"watch", a>> \in Keys /\ <<"over", a>> \in Keys
  BY KeysIn, SlotFields DEF NoSlot, Slots
<1>2. ASSUME NEW k \in Keys
      PROVE  /\ m[k] \in Slots /\ (k[1] \notin {"watch", "over"} => m[k] = t[k])
             /\ k[1] = "watch" => m[k] = IF k[2] \in lost THEN NoSlot ELSE t[k]
             /\ k[1] = "over" => m[k] = IF k[2] \in lost THEN AddSlot(t[k], t[<<"watch", k[2]>>])
                                        ELSE t[k]
  <2> DEFINE s == CASE k[1] = "watch" /\ k[2] \in lost -> NoSlot
                    [] k[1] = "over" /\ k[2] \in lost -> AddSlot(t[k], t[<<"watch", k[2]>>])
                    [] OTHER -> t[k]
  <2>1. m[k] = s
    BY DEF MovedOver
  <2>2. CASE k[1] = "watch"
    <3>1. k[1] # "over"
      BY <2>2
    <3>2. s = IF k[2] \in lost THEN NoSlot ELSE t[k]
      BY <2>2, <3>1
    <3> HIDE DEF s
    <3> QED
      BY <1>1, <2>1, <2>2, <3>1, <3>2
  <2>3. CASE k[1] = "over"
    <3>1. k[1] # "watch"
      BY <2>3
    <3>2. s = IF k[2] \in lost THEN AddSlot(t[k], t[<<"watch", k[2]>>]) ELSE t[k]
      BY <2>3, <3>1
    <3> HIDE DEF s
    <3>3. k[2] \in lost => AddSlot(t[k], t[<<"watch", k[2]>>]) \in Slots
      BY <1>1, AddSlotFields
    <3> QED
      BY <1>1, <2>1, <2>3, <3>1, <3>2, <3>3
  <2>4. CASE k[1] \notin {"watch", "over"}
    <3>1. s = t[k]
      BY <2>4
    <3> HIDE DEF s
    <3> QED
      BY <1>1, <2>1, <2>4, <3>1
  <2> QED
    BY <2>2, <2>3, <2>4
<1>3. m \in Tables
  <2>1. m = [k \in Keys |-> m[k]]
    BY DEF MovedOver
  <2> QED
    BY <1>2, <2>1 DEF Tables
<1>4. ASSUME NEW k \in Keys
      PROVE  /\ Joined(m)[k].count = Joined(t)[k].count /\ Joined(m)[k].bytes = Joined(t)[k].bytes
             /\ Joined(m)[k].apparent = Joined(t)[k].apparent
  <2> DEFINE i == Joined(m)
             j == Joined(t)
  <2>1. CASE k[1] \notin {"watch", "over"}
    <3>1. i[k] = m[k] /\ j[k] = t[k]
      BY <1>3, <2>1, JoinedFields
    <3> QED
      BY <1>2, <2>1, <3>1
  <2>2. CASE k[1] = "over"
    <3>1. k[2] \in Watched /\ k = <<"over", k[2]>>
      BY <2>2, KeyKinds
    <3> DEFINE a == k[2]
    <3>2. a \in Watched /\ k = <<"over", a>>
      BY <3>1
    <3> HIDE DEF a
    <3>3. i[<<"over", a>>] = NoSlot /\ j[<<"over", a>>] = NoSlot
      BY <1>3, <3>2, JoinedFields
    <3> QED
      BY <3>2, <3>3
  <2>3. CASE k[1] = "watch"
    <3>1. k[2] \in Watched /\ k = <<"watch", k[2]>>
      BY <2>3, KeyKinds
    <3> DEFINE a == k[2]
               x == m[<<"watch", a>>]
               y == m[<<"over", a>>]
               p == t[<<"watch", a>>]
               q == t[<<"over", a>>]
    <3>2. a \in Watched /\ k = <<"watch", a>>
      BY <3>1
    <3>3. p \in Slots /\ q \in Slots /\ x \in Slots /\ y \in Slots
      BY <1>1, <1>2, <3>2
    <3>4. /\ x = IF a \in lost THEN NoSlot ELSE p
          /\ y = IF a \in lost THEN AddSlot(q, p) ELSE q
      <4>1. <<"watch", a>> \in Keys /\ <<"watch", a>>[1] = "watch" /\ <<"watch", a>>[2] = a
        BY <1>1, <3>2
      <4>2. <<"over", a>> \in Keys /\ <<"over", a>>[1] = "over" /\ <<"over", a>>[2] = a
        BY <1>1, <3>2
      <4> QED
        BY <1>2, <4>1, <4>2
    <3>5. /\ i[<<"watch", a>>].count = x.count + y.count
          /\ i[<<"watch", a>>].bytes = x.bytes + y.bytes
          /\ i[<<"watch", a>>].apparent = x.apparent + y.apparent
          /\ j[<<"watch", a>>].count = p.count + q.count
          /\ j[<<"watch", a>>].bytes = p.bytes + q.bytes
          /\ j[<<"watch", a>>].apparent = p.apparent + q.apparent
      BY <1>3, <3>2, JoinedFields
    <3>6. /\ AddSlot(q, p).count = q.count + p.count /\ AddSlot(q, p).bytes = q.bytes + p.bytes
          /\ AddSlot(q, p).apparent = q.apparent + p.apparent
      BY <3>3, AddSlotFields
    <3>7. NoSlot.count = 0 /\ NoSlot.bytes = 0 /\ NoSlot.apparent = 0
      BY DEF NoSlot
    <3>8. /\ p.count \in Nat /\ p.bytes \in Nat /\ p.apparent \in Nat
          /\ q.count \in Nat /\ q.bytes \in Nat /\ q.apparent \in Nat
      BY <3>3 DEF Slots
    <3> HIDE DEF i, j, x, y, p, q, a
    <3>9. /\ x.count + y.count = p.count + q.count /\ x.bytes + y.bytes = p.bytes + q.bytes
          /\ x.apparent + y.apparent = p.apparent + q.apparent
      <4>1. CASE a \in lost
        BY <3>4, <3>6, <3>7, <3>8, <4>1
      <4>2. CASE a \notin lost
        BY <3>4, <4>2
      <4> QED
        BY <4>1, <4>2
    <3> QED
      BY <3>2, <3>5, <3>9 DEF i, j
  <2> QED
    BY <2>1, <2>2, <2>3
<1>5. Joined(m) = Joined(t)
  <2>1. Joined(m) \in Tables /\ Joined(t) \in Tables
    BY <1>3, JoinedFields
  <2> QED
    BY <1>4, <2>1, TableEqual
<1> QED
  BY <1>2, <1>3, <1>5

\* An unreadable directory is listed or counted as dropped.
LEMMA ListedOrDropped ==
    ASSUME NEW listed \in Nat, NEW dropped \in Nat, NEW new \in Nat
    PROVE  LET l == listed + Min({new, Max({0, UnreadableCap - listed})})
               d == dropped + Dropped(listed, new)
           IN  l \in Nat /\ d \in Nat /\ l + d = listed + dropped + new
<1> DEFINE room == Max({0, UnreadableCap - listed})
           full == Max({listed, UnreadableCap})
<1>1. UnreadableCap \in Nat
  BY CapNat
<1>2. room = IF 0 >= UnreadableCap - listed THEN 0 ELSE UnreadableCap - listed
  BY <1>1, MaxOfTwo
<1>3. full = IF listed >= UnreadableCap THEN listed ELSE UnreadableCap
  BY <1>1, MaxOfTwo
<1> HIDE DEF room, full
<1>4. room \in Int /\ full \in Int
  BY <1>1, <1>2, <1>3
<1>5. Min({new, room}) = IF new <= room THEN new ELSE room
  BY <1>4, MinOfTwo
<1>6. Max({0, listed + new - full}) = IF 0 >= listed + new - full THEN 0 ELSE listed + new - full
  BY <1>4, MaxOfTwo
<1>7. Dropped(listed, new) = Max({0, listed + new - full})
  BY DEF Dropped, full
<1>8. /\ listed + Min({new, room}) \in Nat /\ dropped + Dropped(listed, new) \in Nat
      /\ (listed + Min({new, room})) + (dropped + Dropped(listed, new)) = listed + dropped + new
  BY <1>1, <1>2, <1>3, <1>5, <1>6, <1>7
<1> QED
  BY <1>8 DEF room

\* The merge of any worker, in any order, keeps the invariant, and all tables
\* together are what they were.
LEMMA MergeStep ==
    ASSUME TallyInv, NEW w \in Workers, Merge(w)
    PROVE  TallyInv' /\ Grand' = Grand
<1> DEFINE mine == local[w]
           kept == KeepAll(res.kept, WatchedCap, mine.kept)
           lost == {a \in ToSet(mine.kept) : a \notin ToSet(kept)}
           given == MovedOver(mine.table, lost)
           new == mine.table[<<"unreadable">>].count
           cat == res.sample \o mine.sample
           sample == SubSeq(cat, 1, Min({SampleCap, Len(cat)}))
           table == AddTable(res.table, given)
<1>1. /\ Typed /\ Ledger(Grand, queue, {})
      /\ \A v \in Workers : /\ merged[v] => local[v] = NoLocal
                            /\ KeptOnce(local[v].kept, Grand)
                            /\ SampleWhole(local[v].sample, local[v].table)
                            /\ QuietRecent(local[v].table)
      /\ KeptOnce(res.kept, Grand)
      /\ SampleWhole(res.sample, res.table) /\ QuietRecent(res.table)
      /\ UnreadableDirs = Count("unreadable")
      /\ published => WatchedSeen = Count("seen") /\ \A v \in Workers : merged[v]
  BY DEF TallyInv
<1>2. /\ ~merged[w] /\ merged' = [merged EXCEPT ![w] = TRUE]
      /\ res' = MergeSamples(MergeWatched(res, local[w]), local[w])
      /\ local' = [local EXCEPT ![w] = NoLocal]
      /\ flags' = flags /\ threads' = threads /\ queue' = queue
      /\ seenLinks' = seenLinks /\ published' = published /\ Workers' = Workers
  BY DEF Merge, Workers
<1>3. /\ threads \in Nat /\ local \in [Workers -> Locals] /\ res \in Results
      /\ merged \in [Workers -> BOOLEAN]
  BY <1>1 DEF Typed
<1>4. /\ IsFiniteSet(Workers) /\ IsFiniteSet(Workers \ {w})
      /\ res.table \in Tables /\ res.kept \in Seq(Watched) /\ res.sample \in Seq(Files)
      /\ res.listed \in Nat /\ res.dropped \in Nat /\ res.watchedDropped \in Nat
      /\ \A v \in Workers : local[v].table \in Tables
      /\ mine.kept \in Seq(Watched) /\ mine.sample \in Seq(Files) /\ mine.table \in Tables
  <2>1. IsFiniteSet(Workers)
    BY <1>3, WorkersFinite
  <2>2. IsFiniteSet(Workers \ {w})
    BY <2>1, FS_Subset
  <2>3. \A v \in Workers : local[v].table \in Tables
    BY <1>3, LocalFields
  <2> QED
    BY <1>3, <2>1, <2>2, <2>3, ResultFields, LocalFields
<1>5. kept \in Seq(Watched) /\ KeptOnce(kept, Grand)
  <2> DEFINE dirs == mine.kept
             n == Len(dirs)
             G == Grand
  <2>1. /\ n \in Nat /\ dirs \in [1..n -> Entries]
    <3>1. dirs \in Seq(Watched) /\ Watched \subseteq Entries
      BY <1>4, RootFacts
    <3> HIDE DEF dirs
    <3> QED
      BY <3>1
  <2>2. \A i \in 1..n : dirs[i] \in TouchedWatched(G)
    BY <1>1 DEF KeptOnce
  <2>3. res.kept \in Seq(Watched) /\ KeptOnce(res.kept, G)
    BY <1>1, <1>4
  <2> HIDE DEF dirs, n, G
  <2>4. KeepAll(res.kept, WatchedCap, dirs) \in Seq(Watched)
          /\ KeptOnce(KeepAll(res.kept, WatchedCap, dirs), G)
    BY <2>1, <2>2, <2>3, KeepAllOnce
  <2> QED
    BY <2>4 DEF dirs, G
<1> HIDE DEF kept
<1>6. lost \in SUBSET Watched
  BY <1>4 DEF ToSet
<1>7. /\ given \in Tables /\ Joined(given) = Joined(mine.table)
      /\ \A k \in Keys : k[1] \notin {"watch", "over"} => given[k] = mine.table[k]
  BY <1>4, <1>6, MovedJoins
<1>8. res' = [table |-> table, kept |-> kept, sample |-> sample,
              listed |-> res.listed + Min({new, Max({0, UnreadableCap - res.listed})}),
              dropped |-> res.dropped + Dropped(res.listed, new),
              watchedDropped |-> res.watchedDropped]
  <2>1. MergeWatched(res, mine) = [res EXCEPT !.kept = kept, !.table = table]
    BY <1>3 DEF MergeWatched, kept, MovedOver, Results
  <2> HIDE DEF lost, given, table, new
  <2>2. MergeWatched(res, mine) = [table |-> table, kept |-> kept, sample |-> res.sample,
              listed |-> res.listed, dropped |-> res.dropped,
              watchedDropped |-> res.watchedDropped]
    BY <1>3, <2>1 DEF Results
  <2> DEFINE r == MergeWatched(res, mine)
             l == res.listed + Min({new, Max({0, UnreadableCap - res.listed})})
             x == res.dropped + Dropped(res.listed, new)
  <2>3. /\ r.sample = res.sample /\ r.listed = res.listed /\ r.dropped = res.dropped
        /\ r.table = table /\ r.kept = kept /\ r.watchedDropped = res.watchedDropped
    BY <2>2
  <2>4. MergeSamples(r, mine) = [r EXCEPT
           !.sample = SubSeq(r.sample \o mine.sample, 1, Min({SampleCap, Len(r.sample \o mine.sample)})),
           !.listed = r.listed + Min({new, Max({0, UnreadableCap - r.listed})}),
           !.dropped = r.dropped + Dropped(r.listed, new)]
    <3> HIDE DEF r
    <3> QED
      BY Zenon DEF MergeSamples, new
  <2>5. r = [table |-> table, kept |-> kept, sample |-> res.sample,
              listed |-> res.listed, dropped |-> res.dropped,
              watchedDropped |-> res.watchedDropped]
    BY <2>2
  <2> HIDE DEF r
  <2>6. MergeSamples(r, mine) = [r EXCEPT !.sample = sample, !.listed = l, !.dropped = x]
    BY <2>3, <2>4
  <2> HIDE DEF l, x, sample
  <2>7. MergeSamples(r, mine) = [table |-> table, kept |-> kept, sample |-> sample,
              listed |-> l, dropped |-> x, watchedDropped |-> res.watchedDropped]
    BY <2>5, <2>6
  <2> QED
    BY <1>2, <2>7 DEF r, l, x, sample
<1>9. /\ sample \in Seq(Files) /\ table \in Tables
      /\ SampleWhole(sample, table) /\ QuietRecent(table)
  <2>1. table \in Tables /\ \A k \in {<<"recent">>, <<"touched">>} :
           /\ table[k].count = res.table[k].count + mine.table[k].count
           /\ table[k].bytes = res.table[k].bytes + mine.table[k].bytes
           /\ table[k].apparent = res.table[k].apparent + mine.table[k].apparent
    <3>1. \A k \in {<<"recent">>, <<"touched">>} : k \in Keys /\ k[1] \notin {"watch", "over"}
      BY KeysIn
    <3>2. \A k \in {<<"recent">>, <<"touched">>} : given[k] = mine.table[k]
      BY <1>7, <3>1
    <3> HIDE DEF given
    <3> QED
      BY <1>4, <1>7, <3>1, <3>2, AddTableFields
  <2>2. \A k \in {<<"recent">>, <<"touched">>} :
           /\ res.table[k].count \in Nat /\ res.table[k].bytes \in Nat /\ res.table[k].apparent \in Nat
           /\ mine.table[k].count \in Nat /\ mine.table[k].bytes \in Nat
           /\ mine.table[k].apparent \in Nat
    BY <1>4, RecentTypes
  <2>3. /\ SampleWhole(res.sample, res.table) /\ QuietRecent(res.table)
        /\ SampleWhole(mine.sample, mine.table) /\ QuietRecent(mine.table)
    BY <1>1
  <2> DEFINE t == res.table
             u == mine.table
  <2> HIDE DEF table
  <2>4. QuietRecent(table)
    <3> SUFFICES ASSUME NEW k \in {<<"recent">>, <<"touched">>}, table[k].count = 0
                 PROVE  table[k].bytes = 0 /\ table[k].apparent = 0
      BY DEF QuietRecent
    <3>1. res.table[k].count = 0 /\ mine.table[k].count = 0
      BY <2>1, <2>2
    <3>2. /\ res.table[k].bytes = 0 /\ res.table[k].apparent = 0
          /\ mine.table[k].bytes = 0 /\ mine.table[k].apparent = 0
      BY <2>3, <3>1 DEF QuietRecent
    <3> QED
      BY <2>1, <3>2
  <2>5. /\ RecentCount(table) = RecentCount(t) + RecentCount(u)
        /\ RecentBytes(table) = RecentBytes(t) + RecentBytes(u)
    BY <2>1, <2>2 DEF RecentCount, RecentBytes
  <2>6. t \in Tables /\ u \in Tables /\ res.sample \in Seq(Files) /\ mine.sample \in Seq(Files)
    BY <1>4
  <2>7. SampleWhole(res.sample, t) /\ SampleWhole(mine.sample, u)
    BY <2>3
  <2> HIDE DEF t, u, mine
  <2>8. sample \in Seq(Files) /\ SampleWhole(sample, table)
    BY <2>1, <2>5, <2>6, <2>7, SampleMerged
  <2> QED
    BY <2>1, <2>4, <2>8
<1>10. /\ res'.table = table /\ res'.kept = kept /\ res'.sample = sample
       /\ res' \in Results /\ res'.listed + res'.dropped = res.listed + res.dropped + new
  <2>1. new \in Nat
    BY <1>4, KeysIn, SlotFields
  <2> DEFINE l == res.listed + Min({new, Max({0, UnreadableCap - res.listed})})
             x == res.dropped + Dropped(res.listed, new)
  <2>2. l \in Nat /\ x \in Nat /\ l + x = res.listed + res.dropped + new
    <3>1. res.listed \in Nat /\ res.dropped \in Nat
      BY <1>4
    <3> HIDE DEF new
    <3> QED
      BY <2>1, <3>1, ListedOrDropped
  <2>3. res' = [table |-> table, kept |-> kept, sample |-> sample,
                listed |-> l, dropped |-> x, watchedDropped |-> res.watchedDropped]
    BY <1>8
  <2> HIDE DEF l, x, table, sample, new
  <2> QED
    BY <1>4, <1>5, <1>9, <2>2, <2>3 DEF Results
<1>11. (UnreadableDirs = Count("unreadable"))'
  <2>1. <<"unreadable">> \in Keys /\ <<"unreadable">>[1] \notin {"watch", "over"}
    BY KeysIn
  <2>2. given[<<"unreadable">>] = mine.table[<<"unreadable">>]
    BY <1>7, <2>1
  <2> HIDE DEF given
  <2>3. table[<<"unreadable">>].count = res.table[<<"unreadable">>].count + given[<<"unreadable">>].count
    BY <1>4, <1>7, <2>1, AddTableFields
  <2> HIDE DEF table
  <2>4. UnreadableDirs' = UnreadableDirs + new
    BY <1>10 DEF UnreadableDirs
  <2> QED
    BY <1>1, <1>10, <2>2, <2>3, <2>4 DEF Count
<1>12. /\ local'[w] = NoLocal /\ local' \in [Workers -> Locals]
       /\ \A v \in Workers : v # w => local'[v] = local[v]
  BY <1>2, <1>3, NoLocalType
<1>13. Grand' = Grand
  <2>1. PICK l : l = local'
    OBVIOUS
  <2>2. \A v \in Workers : l[v].table \in Tables
    BY <1>4, <1>12, <2>1, NoLocalType, NoTableType
  <2>3. Grand' = Beside(table, l, Workers)
    BY <1>2, <1>10, <2>1 DEF Grand
  <2> HIDE DEF given
  <2>4. Beside(table, l, Workers) = AddTable(Beside(res.table, l, Workers), Joined(given))
    BY <1>4, <1>7, <2>2, BesideMerge
  <2> DEFINE o == Beside(res.table, local, Workers \ {w})
  <2>5. Beside(res.table, l, Workers) = o
    <3>1. res.table \in Tables /\ IsFiniteSet(Workers) /\ w \in Workers
      BY <1>4
    <3>2. Beside(res.table, l, Workers)
            = AddTable(Beside(res.table, l, Workers \ {w}), Joined(l[w].table))
      BY <2>2, <3>1, BesideSplit
    <3>3. \A v \in Workers \ {w} : local[v].table = l[v].table
      BY <1>12, <2>1
    <3>4. Beside(res.table, l, Workers \ {w}) = o
      BY <3>3, BesideSame
    <3>5. o \in Tables
      BY <1>4, BesideFields
    <3>6. l[w].table = NoTable
      BY <1>12, <2>1, NoLocalType
    <3> HIDE DEF o
    <3> QED
      BY <3>2, <3>4, <3>5, <3>6, NoTableAdds
  <2>6. Grand = AddTable(o, Joined(mine.table))
    BY <1>4, BesideSplit DEF Grand
  <2> HIDE DEF o
  <2> QED
    BY <1>7, <2>3, <2>4, <2>5, <2>6
<1> HIDE DEF mine, lost, given, new, cat, sample, table
<1>14. Typed'
  BY <1>1, <1>2, <1>3, <1>10, <1>12 DEF Typed
<1>15. Ledger(Grand, queue, {})'
  BY <1>1, <1>2, <1>13, LedgerFlags
<1>16. \A v \in Workers : /\ (merged[v] => local[v] = NoLocal)'
                          /\ KeptOnce(local[v].kept, Grand)'
                          /\ SampleWhole(local[v].sample, local[v].table)'
                          /\ QuietRecent(local[v].table)'
  <2> TAKE v \in Workers
  <2>1. CASE v = w
    <3>1. NoTable \in Tables /\ NoTable[<<"recent">>] = NoSlot /\ NoTable[<<"touched">>] = NoSlot
      BY NoTableType, KeysIn DEF NoTable
    <3>2. KeptOnce(<<>>, Grand) /\ SampleWhole(<<>>, NoTable) /\ QuietRecent(NoTable)
      BY <3>1, EmptyKept, EmptySample
    <3> QED
      BY <1>12, <1>13, <2>1, <3>2, NoLocalType
  <2>2. CASE v # w
    <3>1. local'[v] = local[v] /\ merged'[v] = merged[v]
      BY <1>2, <1>3, <1>12, <2>2
    <3> QED
      BY <1>1, <1>13, <3>1
  <2> QED
    BY <2>1, <2>2
<1>17. KeptOnce(res.kept, Grand)' /\ SampleWhole(res.sample, res.table)' /\ QuietRecent(res.table)'
  BY <1>5, <1>9, <1>10, <1>13
<1>18. ~published'
  BY <1>1, <1>2
<1> QED
  BY <1>2, <1>11, <1>13, <1>14, <1>15, <1>16, <1>17, <1>18 DEF TallyInv

-----------------------------------------------------------------------------
(* The publication keeps it, and so does the rest.                         *)

\* No more paths are kept than directories were counted.
LEMMA KeptFew ==
    ASSUME NEW kept \in Seq(Watched), NEW t, KeptOnce(kept, t)
    PROVE  Len(kept) <= Cardinality(TouchedWatched(t))
<1> DEFINE n == Len(kept)
           S == TouchedWatched(t)
<1>1. n \in Nat /\ kept \in [1..n -> S]
  <2>1. n \in Nat /\ kept = [i \in 1..n |-> kept[i]]
    OBVIOUS
  <2> QED
    BY <2>1 DEF KeptOnce
<1>2. IsFiniteSet(S)
  BY EntriesFinite, FS_Subset DEF TouchedWatched
<1>3. IsFiniteSet(1..n) /\ Cardinality(1..n) = n
  BY <1>1, FS_Interval
<1>4. kept \in Injection(1..n, S)
  BY <1>1 DEF KeptOnce, Injection, IsInjective
<1>5. Cardinality(1..n) <= Cardinality(S)
  <2> HIDE DEF n, S
  <2> QED
    BY <1>2, <1>3, <1>4, FS_Injection
<1> QED
  BY <1>3, <1>5

\* The publication keeps the invariant.
LEMMA PublishStep ==
    ASSUME TallyInv, Publish
    PROVE  TallyInv'
<1>1. /\ Typed /\ Ledger(Grand, queue, {})
      /\ \A v \in Workers : /\ merged[v] => local[v] = NoLocal
                            /\ KeptOnce(local[v].kept, Grand)
                            /\ SampleWhole(local[v].sample, local[v].table)
                            /\ QuietRecent(local[v].table)
      /\ KeptOnce(res.kept, Grand)
      /\ SampleWhole(res.sample, res.table) /\ QuietRecent(res.table)
      /\ UnreadableDirs = Count("unreadable")
  BY DEF TallyInv
<1> DEFINE seen == res.table[<<"seen">>].count
           x == IF seen > Len(res.kept) THEN seen - Len(res.kept) ELSE 0
<1>2. /\ \A w \in Workers : merged[w]
      /\ res' = [res EXCEPT !.watchedDropped = x]
      /\ flags' = flags /\ threads' = threads /\ queue' = queue /\ local' = local
      /\ seenLinks' = seenLinks /\ merged' = merged /\ published' = TRUE /\ Workers' = Workers
  BY DEF Publish, Workers
<1>3. res \in Results /\ res.table \in Tables /\ res.kept \in Seq(Watched)
  BY <1>1, ResultFields DEF Typed
<1>4. seen \in Nat /\ Len(res.kept) \in Nat
  BY <1>3, KeysIn, SlotFields
<1>5. Len(res.kept) <= seen
  <2>1. Grand = Joined(res.table)
    BY <1>2, AllMerged
  <2>2. <<"seen">> \in Keys /\ <<"seen">>[1] \notin {"watch", "over"}
    BY KeysIn
  <2>3. Joined(res.table)[<<"seen">>] = res.table[<<"seen">>]
    BY <1>3, <2>2, JoinedFields
  <2> DEFINE G == Grand
  <2>4. seen = Cardinality(TouchedWatched(G))
    <3>1. SeenOnce(G)
      BY <1>1 DEF Ledger
    <3> QED
      BY <2>1, <2>3, <3>1 DEF SeenOnce
  <2>5. KeptOnce(res.kept, G)
    BY <1>1
  <2> HIDE DEF G, seen
  <2> QED
    BY <1>3, <2>4, <2>5, KeptFew
<1> HIDE DEF seen
<1>6. /\ res' \in Results /\ res'.table = res.table /\ res'.kept = res.kept
      /\ res'.sample = res.sample /\ res'.listed = res.listed /\ res'.dropped = res.dropped
      /\ res'.watchedDropped = x
  <2>1. x \in Nat
    BY <1>4
  <2> HIDE DEF x
  <2> QED
    BY <1>2, <1>3, <2>1 DEF Results
<1>7. (WatchedSeen = Count("seen"))'
  BY <1>4, <1>5, <1>6 DEF WatchedSeen, Count, seen
<1>8. Grand' = Grand
  BY <1>2, <1>6 DEF Grand
<1>9. Typed'
  BY <1>1, <1>2, <1>6 DEF Typed
<1>10. Ledger(Grand, queue, {})'
  BY <1>1, <1>2, <1>8, LedgerFlags
<1>11. (UnreadableDirs = Count("unreadable"))'
  BY <1>1, <1>6 DEF UnreadableDirs, Count
<1> QED
  BY <1>1, <1>2, <1>6, <1>7, <1>8, <1>9, <1>10, <1>11 DEF TallyInv

\* A step that leaves the walk as it is keeps the invariant.
LEMMA TallyStutters ==
    ASSUME TallyInv, UNCHANGED vars
    PROVE  TallyInv'
<1>1. /\ flags' = flags /\ threads' = threads /\ queue' = queue /\ local' = local
      /\ seenLinks' = seenLinks /\ merged' = merged /\ published' = published
      /\ res' = res /\ Workers' = Workers
  BY DEF vars, Workers
<1>2. Grand' = Grand
  BY <1>1 DEF Grand
<1>3. Typed'
  BY <1>1 DEF TallyInv, Typed
<1>4. Ledger(Grand, queue, {})'
  BY <1>1, <1>2, LedgerFlags DEF TallyInv
<1>5. (UnreadableDirs = Count("unreadable"))' /\ (published => WatchedSeen = Count("seen"))'
  BY <1>1 DEF TallyInv, UnreadableDirs, Count, WatchedSeen
<1> QED
  BY <1>1, <1>2, <1>3, <1>4, <1>5 DEF TallyInv

\* Every step keeps the invariant.
LEMMA TallySteps ==
    ASSUME TallyInv, [Next]_<<vars, settleVars>>
    PROVE  TallyInv'
<1>1. CASE Walking
  <2>1. CASE \E w \in Workers : Scan(w)
    BY <2>1, ScanStep
  <2>2. CASE \E w \in Workers : Merge(w)
    BY <2>2, MergeStep
  <2>3. CASE Publish
    BY <2>3, PublishStep
  <2> QED
    BY <1>1, <2>1, <2>2, <2>3 DEF Walking
<1>2. CASE Rechecking
  <2>1. UNCHANGED vars
    BY <1>2 DEF Rechecking, Reallocate, Unlink, StartRecheck, Restat
  <2> QED
    BY <2>1, TallyStutters
<1>3. CASE UNCHANGED <<vars, settleVars>>
  BY <1>3, TallyStutters
<1> QED
  BY <1>1, <1>2, <1>3 DEF Next

\* The tables of all workers and of the result hold together, from the first
\* scan to the report.
THEOREM TablesHoldTogether == Spec => []TallyInv
<1>1. SettleInit => TallyInv
  BY TallyStarts DEF SettleInit
<1>2. TallyInv /\ [Next]_<<vars, settleVars>> => TallyInv'
  BY TallySteps
<1> QED
  BY <1>1, <1>2, PTL DEF Spec

-----------------------------------------------------------------------------
(* What is published.                                                      *)

\* Once published, the result's table is the ledger but for the directories
\* whose path is not kept.
LEMMA Published ==
    ASSUME TallyInv, published
    PROVE  /\ res \in Results /\ res.table \in Tables
           /\ Ledger(Joined(res.table), queue, {})
           /\ flags.depth \in Nat \ {0}
           /\ \A k \in Keys : k[1] \notin {"watch", "over"} => Joined(res.table)[k] = res.table[k]
           /\ KeptOnce(res.kept, Joined(res.table))
<1>1. \A w \in Workers : merged[w]
  BY DEF TallyInv
<1>2. Grand = Joined(res.table)
  BY <1>1, AllMerged
<1>3. res \in Results /\ res.table \in Tables /\ flags \in Modes
  BY ResultFields DEF TallyInv, Typed
<1>4. flags.depth \in Nat \ {0}
  BY <1>3, FiguresAssumption
<1>5. \A k \in Keys : k[1] \notin {"watch", "over"} => Joined(res.table)[k] = res.table[k]
  BY <1>3, JoinedFields
<1>6. Ledger(Grand, queue, {}) /\ KeptOnce(res.kept, Grand)
  BY DEF TallyInv
<1> QED
  BY <1>2, <1>3, <1>4, <1>5, <1>6

\* What is published has the figures of the ledger.
LEMMA PublishedFigures ==
    ASSUME TallyInv, published, NEW G, G = Joined(res.table)
    PROVE  /\ Inodes = InodesOf(G) /\ Bytes("size") = G[<<"size">>].bytes
           /\ Count("files") - Count("extra") = G[<<"files">>].count - G[<<"extra">>].count
           /\ \A x \in Entries \ {Root} : G[<<"row", x>>] = res.table[<<"row", x>>]
           /\ RowFigures(res.table, "count") = RowFigures(G, "count")
           /\ RowFigures(res.table, "bytes") = RowFigures(G, "bytes")
<1>1. \A k \in Keys : k[1] \notin {"watch", "over"} => G[k] = res.table[k]
  BY Published
<1>2. /\ <<"files">> \in Keys /\ <<"dirs">> \in Keys /\ <<"extra">> \in Keys /\ <<"size">> \in Keys
      /\ \A x \in Entries \ {Root} : <<"row", x>> \in Keys
  BY KeysIn
<1>3. /\ G[<<"files">>] = res.table[<<"files">>] /\ G[<<"dirs">>] = res.table[<<"dirs">>]
      /\ G[<<"extra">>] = res.table[<<"extra">>] /\ G[<<"size">>] = res.table[<<"size">>]
      /\ \A x \in Entries \ {Root} : G[<<"row", x>>] = res.table[<<"row", x>>]
  BY <1>1, <1>2
<1> QED
  BY <1>3 DEF Inodes, InodesOf, Count, Bytes, RowFigures

\* TablesAgree is OwnedOnce of what is published.
LEMMA Agreement == TallyInv => TablesAgree
<1> SUFFICES ASSUME TallyInv, published, ~flags.count
             PROVE  /\ \A kind \in {"uid", "gid", "dev"} :
                          /\ Total(res.table, kind, "bytes") = Bytes("size")
                          /\ Total(res.table, kind, "count") = Inodes
                    /\ Total(res.table, "age", "count") = Count("files") - Count("extra")
  BY DEF TablesAgree
<1> DEFINE G == Joined(res.table)
<1>1. OwnedOnce(G) /\ G \in Tables /\ res.table \in Tables
  BY Published DEF Ledger
<1>2. \A k \in Keys : k[1] \notin {"watch", "over"} => G[k] = res.table[k]
  BY Published
<1>3. /\ Inodes = InodesOf(G) /\ Bytes("size") = G[<<"size">>].bytes
      /\ Count("files") - Count("extra") = G[<<"files">>].count - G[<<"extra">>].count
  BY PublishedFigures
<1> HIDE DEF G
<1>4. ASSUME NEW kind \in {"uid", "gid", "dev", "age"}
      PROVE  /\ Total(res.table, kind, "count") = Total(G, kind, "count")
             /\ Total(res.table, kind, "bytes") = Total(G, kind, "bytes")
  <2>1. \A k \in Slotted(kind) : k \in Keys /\ k[1] \notin {"watch", "over"}
    BY DEF Slotted
  <2>2. \A k \in Slotted(kind) : res.table[k] = G[k]
    BY <1>2, <2>1
  <2> QED
    BY <1>1, <2>2, TotalSame
<1> QED
  BY <1>1, <1>3, <1>4 DEF OwnedOnce

\* The tables by user, group and filesystem are one population, whichever
\* worker charged what (walk.py:527-566, 1605-1612).
THEOREM TablesAlwaysAgree == Spec => []TablesAgree
  BY TablesHoldTogether, Agreement, PTL

\* RowsPartition is RowsAdd of what is published.
LEMMA Partitioned == TallyInv => RowsPartition
<1> SUFFICES ASSUME TallyInv, published, NEW d \in Dirs, Level(d) < flags.depth
             PROVE  LET sum(field) == SumOver(RowFigures(res.table, field), Children(d))
                        own == IF d = Root THEN [count |-> Inodes, bytes |-> Bytes("size")]
                               ELSE res.table[<<"row", d>>]
                    IN  own.count > 0 =>
                          /\ own.count = 1 + sum("count")
                          /\ own.bytes = Blocks(d) + sum("bytes")
  BY DEF RowsPartition
<1> DEFINE G == Joined(res.table)
<1>1. RowsAdd(G)
  BY Published DEF Ledger
<1>2. /\ Inodes = InodesOf(G) /\ Bytes("size") = G[<<"size">>].bytes
      /\ \A x \in Entries \ {Root} : G[<<"row", x>>] = res.table[<<"row", x>>]
      /\ RowFigures(res.table, "count") = RowFigures(G, "count")
      /\ RowFigures(res.table, "bytes") = RowFigures(G, "bytes")
  BY PublishedFigures
<1> HIDE DEF G
<1>3. IF d = Root
        THEN /\ InodesOf(G) = 1 + ChildSum(G, d, "count")
             /\ G[<<"size">>].bytes = Blocks(d) + ChildSum(G, d, "bytes")
        ELSE G[<<"row", d>>].count > 0 =>
               /\ G[<<"row", d>>].count = 1 + ChildSum(G, d, "count")
               /\ G[<<"row", d>>].bytes = Blocks(d) + ChildSum(G, d, "bytes")
  BY <1>1 DEF RowsAdd
<1>4. d # Root => d \in Entries \ {Root}
  BY RootFacts
<1> QED
  BY <1>2, <1>3, <1>4 DEF ChildSum

\* The rows partition the tree, whoever scanned what (walk.py:441-473).
THEOREM RowsAlwaysPartition == Spec => []RowsPartition
  BY TablesHoldTogether, Partitioned, PTL

\* WatchedSummedOnce is WatchedAsRows of what is published.
LEMMA WatchedOnce == TallyInv => WatchedSummedOnce
<1> SUFFICES ASSUME TallyInv, published, NEW a \in Watched, Level(a) <= flags.depth
             PROVE  LET both == AddSlot(res.table[<<"watch", a>>], res.table[<<"over", a>>])
                        row  == res.table[<<"row", a>>]
                    IN  both.count = row.count /\ both.bytes = row.bytes
  BY DEF WatchedSummedOnce
<1> DEFINE G == Joined(res.table)
<1>1. WatchedAsRows(G) /\ res.table \in Tables
  BY Published DEF Ledger
<1>2. G[<<"row", a>>] = res.table[<<"row", a>>]
  BY PublishedFigures, RootFacts
<1>3. /\ G[<<"watch", a>>].count = res.table[<<"watch", a>>].count + res.table[<<"over", a>>].count
      /\ G[<<"watch", a>>].bytes = res.table[<<"watch", a>>].bytes + res.table[<<"over", a>>].bytes
  BY <1>1, JoinedFields
<1>4. res.table[<<"watch", a>>] \in Slots /\ res.table[<<"over", a>>] \in Slots
  BY <1>1, KeysIn, SlotFields
<1> HIDE DEF G
<1>5. G[<<"watch", a>>].count = G[<<"row", a>>].count /\ G[<<"watch", a>>].bytes = G[<<"row", a>>].bytes
  BY <1>1 DEF WatchedAsRows
<1> QED
  BY <1>2, <1>3, <1>4, <1>5, AddSlotFields

\* No cap and no order of the merges loses or repeats a byte of a watched
\* directory (walk.py:567-604, 1325-1337, 1829-1843).
THEOREM WatchedAlwaysOnce == Spec => []WatchedSummedOnce
  BY TablesHoldTogether, WatchedOnce, PTL

\* CountsSurviveCaps follows from what is counted beside each list.
LEMMA CapsCount == TallyInv => CountsSurviveCaps
<1> SUFFICES ASSUME TallyInv, published
             PROVE  /\ WatchedSeen = Count("seen")
                    /\ UnreadableDirs = Count("unreadable")
                    /\ Len(res.sample) = Min({SampleCap, Count("recent") + Count("touched")})
  BY DEF CountsSurviveCaps
<1>1. WatchedSeen = Count("seen") /\ UnreadableDirs = Count("unreadable")
      /\ SampleWhole(res.sample, res.table)
  BY DEF TallyInv
<1>2. RecentCount(res.table) \in Nat /\ SampleCap \in Nat
  BY Published, RecentTypes, CapNat
<1>3. Count("recent") + Count("touched") = RecentCount(res.table)
  BY DEF Count, RecentCount
<1>4. Min({SampleCap, RecentCount(res.table)})
        = IF SampleCap <= RecentCount(res.table) THEN SampleCap ELSE RecentCount(res.table)
  BY <1>2, MinOfTwo
<1> QED
  BY <1>1, <1>3, <1>4 DEF SampleWhole

\* What a cap leaves out of a list stays in its count, and a sample that is cut
\* short is full (walk.py:605-626, 697-704, 1817-1824).
THEOREM CountsAlwaysSurvive == Spec => []CountsSurviveCaps
  BY TablesHoldTogether, CapsCount, PTL

-----------------------------------------------------------------------------
(* What is off the root's filesystem.                                      *)

\* What is still to be read: all below the directories Q, and the entries U with
\* all below them.
Unread(Q, U) ==
    {x \in Entries : (\E q \in Q : Below(x, q)) \/ (\E u \in U : u \in Line(x))}
ReadOf(Q, U) == Entries \ Unread(Q, U)

\* Reading the next entry leaves the rest to be read: what is below a directory,
\* that joins Q, and nothing below a file.
LEMMA UnreadNext ==
    ASSUME NEW t, NEW Q, NEW U, Frontier(t, Q, U), NEW e \in U
    PROVE  /\ e \in Entries /\ e \notin ReadOf(Q, U)
           /\ ReadOf(IF e \in Dirs THEN Q \cup {e} ELSE Q, U \ {e}) = ReadOf(Q, U) \cup {e}
<1> DEFINE R == IF e \in Dirs THEN Q \cup {e} ELSE Q
           V == U \ {e}
<1>1. e \in Entries \ {Root} /\ e \in Line(e)
  <2>1. e \in Entries \ {Root}
    BY DEF Frontier
  <2> QED
    BY <2>1, LineIn
<1>2. (\A q \in Q : ~Below(e, q)) /\ (\A v \in V : v \notin Line(e))
  BY DEF Frontier
<1>3. ASSUME NEW x \in Entries \ {Root}
      PROVE  /\ Parent[x] \in Entries /\ Line(x) = Line(Parent[x]) \cup {x}
             /\ x \notin Line(Parent[x])
  <2>1. /\ Parent[x] \in Entries /\ Line(x) = Line(Parent[x]) \cup {x}
        /\ Level(x) = Level(Parent[x]) + 1 /\ Level(Parent[x]) \in Nat
    BY LineStep, RootFacts
  <2>2. x \in Line(Parent[x]) => Level(x) \in 1..Level(Parent[x])
    BY <2>1, LineLevels
  <2> QED
    BY <2>1, <2>2
<1>4. ASSUME NEW x \in Entries, e \in Line(x), x # e PROVE Below(x, e) /\ e \in Dirs
  <2>1. x # Root
    BY <1>4, RootLine
  <2>2. e \in Line(Parent[x]) /\ Parent[x] \in Entries
    BY <1>3, <1>4, <2>1
  <2>3. e \in Dirs
    <3>1. CASE e = Parent[x]
      BY <2>1, <3>1, RootFacts
    <3>2. CASE e # Parent[x]
      <4>1. PICK c \in Line(Parent[x]) : Parent[c] = e
        BY <2>2, <3>2, ChildToward
      <4>2. c \in Entries \ {Root}
        BY <2>2, LineIn
      <4> QED
        BY <4>1, <4>2, RootFacts
    <3> QED
      BY <3>1, <3>2
  <2> QED
    BY <2>1, <2>2, <2>3 DEF Below
<1>5. ASSUME NEW x \in Entries, Below(x, e) PROVE e \in Line(x) /\ x # e
  <2>1. x # Root /\ e \in Line(Parent[x])
    BY <1>1, <1>5 DEF Below
  <2> QED
    BY <1>3, <2>1
<1>6. ASSUME NEW x \in Entries PROVE x \in Unread(R, V) <=> x \in Unread(Q, U) /\ x # e
  <2>1. (\E q \in R : Below(x, q)) <=> (\E q \in Q : Below(x, q)) \/ (e \in Dirs /\ Below(x, e))
    OBVIOUS
  <2>2. (\E u \in U : u \in Line(x)) <=> (\E v \in V : v \in Line(x)) \/ e \in Line(x)
    OBVIOUS
  <2> HIDE DEF R, V
  <2> QED
    BY <1>1, <1>2, <1>4, <1>5, <2>1, <2>2 DEF Unread
<1>7. e \in Unread(Q, U)
  BY <1>1 DEF Unread
<1> HIDE DEF R, V
<1>8. ReadOf(R, V) = ReadOf(Q, U) \cup {e}
  BY <1>1, <1>6, <1>7 DEF ReadOf
<1> QED
  BY <1>1, <1>7, <1>8 DEF ReadOf, R, V

\* What is below a directory is at or below an entry in it.
LEMMA UnreadTaken ==
    ASSUME NEW Q \in SUBSET Dirs, NEW d \in Q
    PROVE  ReadOf(Q \ {d}, Children(d)) = ReadOf(Q, {})
<1>1. d \in Entries
  BY RootFacts
<1>2. ASSUME NEW x \in Entries, Below(x, d) PROVE \E u \in Children(d) : u \in Line(x)
  <2>1. x \in Entries \ {Root} /\ (d = Root \/ d \in Line(Parent[x]))
    BY <1>2 DEF Below
  <2>2. /\ Parent[x] \in Entries /\ Line(x) = Line(Parent[x]) \cup {x}
        /\ Level(x) = Level(Parent[x]) + 1 /\ Level(Parent[x]) \in Nat
    BY <2>1, LineStep, RootFacts
  <2>3. d # x
    <3>1. d \in Line(Parent[x]) => Level(d) \in 1..Level(Parent[x])
      BY <2>2, LineLevels
    <3> QED
      BY <2>1, <2>2, <3>1
  <2>4. d \in Line(x) \cup {Root}
    BY <2>1, <2>2
  <2>5. PICK c \in Line(x) : Parent[c] = d
    BY <2>3, <2>4, ChildToward
  <2>6. c \in Entries \ {Root}
    BY LineIn
  <2> QED
    BY <2>5, <2>6 DEF Children
<1>3. ASSUME NEW x \in Entries, NEW u \in Children(d), u \in Line(x) PROVE Below(x, d)
  <2>1. u \in Entries \ {Root} /\ Parent[u] = d /\ x \in Entries \ {Root}
    BY <1>3, RootLine DEF Children
  <2>2. Line(u) = Line(d) \cup {u} /\ (d = Root \/ d \in Line(d))
    BY <1>1, <2>1, LineStep, LineIn
  <2>3. Line(x) = Line(Parent[x]) \cup {x} /\ Parent[x] \in Entries
    BY <2>1, LineStep, RootFacts
  <2>4. CASE u = x
    BY <2>1, <2>2, <2>4 DEF Below
  <2>5. CASE u # x
    <3>1. u \in Line(Parent[x])
      BY <1>3, <2>3, <2>5
    <3>2. Line(u) \subseteq Line(Parent[x])
      BY <2>3, <3>1, LineBelow
    <3> QED
      BY <2>1, <2>2, <3>2 DEF Below
  <2> QED
    BY <2>4, <2>5
<1>4. \A x \in Entries : x \in Unread(Q \ {d}, Children(d)) <=> x \in Unread(Q, {})
  BY <1>2, <1>3 DEF Unread
<1> QED
  BY <1>4 DEF ReadOf

\* Of the entries A, the inodes that are off the root's filesystem, and those of
\* the files with more than one name.
OffInodes(A) == {Attr[e].inode : e \in {x \in A : Attr[x].dev # Attr[Root].dev}}
LinkedInodes(A) == {Attr[f].inode : f \in {x \in A \cap Files : Attr[x].links > 1}}

\* They are finitely many.
LEMMA OffInodesFinite ==
    ASSUME NEW A \in SUBSET Entries
    PROVE  IsFiniteSet(OffInodes(A)) /\ Cardinality(OffInodes(A)) \in Nat
<1> DEFINE B == {x \in A : Attr[x].dev # Attr[Root].dev}
           f == [e \in B |-> Attr[e].inode]
<1>1. f \in Surjection(B, OffInodes(A))
  BY DEF Surjection, OffInodes
<1>2. IsFiniteSet(B)
  BY EntriesFinite, FS_Subset
<1> HIDE DEF f, B
<1>3. IsFiniteSet(OffInodes(A))
  BY <1>1, <1>2, FS_Surjection
<1> QED
  BY <1>3, FS_CardinalityType

\* What one more entry adds to them.  Its inode is among them before only when it
\* is a file with more names, of which one is in A.
LEMMA OffInodesMore ==
    ASSUME HardLinksOnly, NEW A \in SUBSET Entries, NEW e \in Entries, e \notin A
    PROVE  /\ OffInodes(A \cup {e}) = IF Attr[e].dev # Attr[Root].dev
                                        THEN OffInodes(A) \cup {Attr[e].inode} ELSE OffInodes(A)
           /\ LinkedInodes(A \cup {e}) = IF e \in Files /\ Attr[e].links > 1
                                           THEN LinkedInodes(A) \cup {Attr[e].inode}
                                           ELSE LinkedInodes(A)
           /\ Attr[e].inode \in OffInodes(A) =>
                 e \in Files /\ Attr[e].links > 1 /\ Attr[e].inode \in LinkedInodes(A)
           /\ Attr[e].inode \in LinkedInodes(A) /\ Attr[e].dev # Attr[Root].dev =>
                 Attr[e].inode \in OffInodes(A)
<1>1. \A f \in A : Attr[e].inode = Attr[f].inode =>
          /\ e \in Files /\ f \in Files /\ Attr[e].links > 1 /\ Attr[f].links > 1
          /\ Attr[e].dev = Attr[f].dev
  BY DEF HardLinksOnly
<1> QED
  BY <1>1 DEF OffInodes, LinkedInodes

\* The inodes that a table has off the root's filesystem.
OffCount(t) == Total(t, "dev", "count") - t[<<"dev", Attr[Root].dev>>].count

\* An entry that is counted is one inode more of them when it is off the root's
\* filesystem, and a charge that counts nothing is none.
LEMMA OffCountMoves ==
    ASSUME ~flags.count, NEW t, NEW u
    PROVE  /\ t \in Tables => OffCount(t) \in Int
           /\ \A e \in Entries \ {Root} : Gains(t, u, e) =>
                 OffCount(u) = OffCount(t) + (IF Attr[e].dev # Attr[Root].dev THEN 1 ELSE 0)
           /\ Same(t, u) => OffCount(u) = OffCount(t)
<1> DEFINE home == <<"dev", Attr[Root].dev>>
<1>1. home \in Slotted("dev") /\ home \in Keys
  BY RootFacts, SlottedFinite DEF Slotted, Devs
<1>2. ASSUME NEW x \in Tables PROVE Total(x, "dev", "count") \in Nat /\ x[home].count \in Nat
  <2> DEFINE c == [k \in Keys |-> x[k].count]
             D == Slotted("dev")
  <2>1. \A k \in D : c[k] \in Nat
    BY SlotFields DEF Slotted
  <2>2. IsFiniteSet(D)
    BY SlottedFinite
  <2>3. Total(x, "dev", "count") = SumOver(c, D)
    BY DEF Total, Slotted
  <2> HIDE DEF c, D
  <2>4. SumOver(c, D) \in Nat
    BY <2>1, <2>2, SumNat
  <2> QED
    BY <1>1, <2>3, <2>4, SlotFields
<1>3. t \in Tables => OffCount(t) \in Int
  BY <1>2 DEF OffCount
<1>4. ASSUME NEW e \in Entries \ {Root}, Gains(t, u, e)
      PROVE  OffCount(u) = OffCount(t) + (IF Attr[e].dev # Attr[Root].dev THEN 1 ELSE 0)
  <2> DEFINE one == <<"dev", Attr[e].dev>>
  <2>1. t \in Tables /\ u \in Tables /\ Blocks(e) \in Nat
    BY <1>4, FigureTypes DEF Gains
  <2>2. one \in Slotted("dev") /\ \A k \in Slotted("dev") : k[2] \in Devs /\ k = <<"dev", k[2]>>
    BY SlottedFinite DEF Devs
  <2>3. OneGains(t, u, "dev", one, Blocks(e))
    BY <1>4, <2>2 DEF Gains, OneGains
  <2>4. Total(u, "dev", "count") = Total(t, "dev", "count") + 1
    BY <2>1, <2>3, TotalGains
  <2>5. (home = one) <=> (Attr[e].dev = Attr[Root].dev)
    OBVIOUS
  <2> HIDE DEF one
  <2>6. IF home = one THEN u[home].count = t[home].count + 1 ELSE u[home] = t[home]
    BY <1>1, <2>3 DEF OneGains
  <2> QED
    BY <1>2, <2>1, <2>4, <2>5, <2>6 DEF OffCount
<1>5. ASSUME Same(t, u) PROVE OffCount(u) = OffCount(t)
  <2>1. t \in Tables /\ u \in Tables
    BY <1>5 DEF Same
  <2>2. \A k \in Slotted("dev") : u[k] = t[k]
    BY <1>5, SlottedFinite DEF Same
  <2>3. Total(u, "dev", "count") = Total(t, "dev", "count")
    BY <2>1, <2>2, TotalSame
  <2> QED
    BY <1>1, <2>2, <2>3 DEF OffCount
<1> QED
  BY <1>3, <1>4, <1>5

\* While nothing has failed, in a walk that stays on no filesystem, what is
\* counted off the root's are the inodes that have been read there, and the links
\* that are known are those of all files that have been read.
OffAgrees(t, links, Q, U) ==
    /\ ~flags.ofs /\ ~flags.count
    /\ t[<<"unstat">>].count = 0 /\ t[<<"unreadable">>].count = 0
    => /\ OffCount(t) = Cardinality(OffInodes(ReadOf(Q, U)))
       /\ links = LinkedInodes(ReadOf(Q, U))

\* A failure that was counted stays counted, and one that is charged is counted.
LEMMA FailuresStay ==
    ASSUME NEW t \in Tables, NEW K, NEW b \in Nat, NEW a \in Nat,
           NEW k \in {<<"unstat">>, <<"unreadable">>},
           ChargeTo(t, JoinedKeys(K), b, a)[k].count = 0
    PROVE  t[k].count = 0 /\ k \notin K
<1>1. k \in Keys /\ k[1] \notin {"watch", "over"}
  BY KeysIn
<1>2. k \in JoinedKeys(K) <=> k \in K
  BY <1>1, JoinedKeysIn
<1>3. t[k].count \in Nat
  BY <1>1, SlotFields
<1> QED
  BY <1>1, <1>2, <1>3, ChargeFields

\* Each reading keeps the two in agreement.
LEMMA OffRead ==
    ASSUME HardLinksOnly, flags.depth \in Nat, NEW o \in Tables, NEW acc, NEW Q, NEW U, NEW seen,
           Reading(acc, o, Q, U, seen), OffAgrees(All(o, acc), acc.links, Q \cup acc.kids, U),
           NEW e \in U, NEW watch, WatchKeys(watch, Parent[e]), NEW failing,
           NEW r, r = Read(acc, e, watch, failing)
    PROVE  OffAgrees(All(o, r), r.links, Q \cup r.kids, U \ {e})
<1> DEFINE K == ReadKeys(acc, e, watch, failing)
           t == All(o, acc)
           T == All(o, r)
           A == ReadOf(Q \cup acc.kids, U)
           B == ReadOf(Q \cup r.kids, U \ {e})
<1>1. /\ acc \in Accs /\ t \in Tables /\ Frontier(t, Q \cup acc.kids, U)
      /\ e \in Entries \ {Root}
  BY DEF Reading, Ledger, Frontier
<1>2. ReadGives(acc, e, watch, failing)
  BY <1>1, ReadFields
<1>3. /\ T = ChargeTo(t, JoinedKeys(K), Blocks(e), Length(e))
      /\ IF Counted(e, acc.links, failing) THEN Gains(t, T, e) ELSE Same(t, T)
  BY <1>1, ReadCharges
<1> HIDE DEF t, T, K
<1>4. SUFFICES ASSUME ~flags.ofs, ~flags.count, T[<<"unstat">>].count = 0,
                      T[<<"unreadable">>].count = 0
               PROVE  OffCount(T) = Cardinality(OffInodes(B)) /\ r.links = LinkedInodes(B)
  BY DEF OffAgrees, T
<1>5. Blocks(e) \in Nat /\ Length(e) \in Nat
  BY <1>1, FigureTypes
<1>6. t[<<"unstat">>].count = 0 /\ t[<<"unreadable">>].count = 0 /\ <<"unstat">> \notin K
  BY <1>1, <1>3, <1>4, <1>5, FailuresStay
<1>7. e \notin failing /\ ~Skipped(e)
  BY <1>4, <1>6 DEF K, ReadKeys, Skipped
<1>8. OffCount(t) = Cardinality(OffInodes(A)) /\ acc.links = LinkedInodes(A)
  BY <1>4, <1>6 DEF OffAgrees, t
<1>9. r.kids = IF e \in Dirs THEN acc.kids \cup {e} ELSE acc.kids
  BY <1>2, <1>7, RootFacts DEF ReadGives, Counted
<1>10. B = A \cup {e} /\ e \notin A /\ e \in Entries /\ A \subseteq Entries
  <2> DEFINE R == Q \cup acc.kids
  <2>1. (Q \cup r.kids = IF e \in Dirs THEN R \cup {e} ELSE R) /\ Frontier(t, R, U)
    BY <1>1, <1>9
  <2> HIDE DEF R
  <2>2. /\ e \in Entries /\ e \notin ReadOf(R, U)
        /\ ReadOf(IF e \in Dirs THEN R \cup {e} ELSE R, U \ {e}) = ReadOf(R, U) \cup {e}
    BY <2>1, UnreadNext
  <2>3. ReadOf(R, U) \subseteq Entries
    BY DEF ReadOf
  <2> QED
    BY <2>1, <2>2, <2>3 DEF R
<1> HIDE DEF A, B
<1>11. /\ OffInodes(B) = IF Attr[e].dev # Attr[Root].dev
                           THEN OffInodes(A) \cup {Attr[e].inode} ELSE OffInodes(A)
       /\ LinkedInodes(B) = IF e \in Files /\ Attr[e].links > 1
                              THEN LinkedInodes(A) \cup {Attr[e].inode} ELSE LinkedInodes(A)
       /\ Attr[e].inode \in OffInodes(A) =>
             e \in Files /\ Attr[e].links > 1 /\ Attr[e].inode \in LinkedInodes(A)
       /\ Attr[e].inode \in LinkedInodes(A) /\ Attr[e].dev # Attr[Root].dev =>
             Attr[e].inode \in OffInodes(A)
  BY <1>10, OffInodesMore
<1>12. CASE Counted(e, acc.links, failing)
  <2>1. e \in Files => ~(Attr[e].links > 1 /\ Attr[e].inode \in LinkedInodes(A))
    BY <1>4, <1>8, <1>12 DEF Counted, Duplicate
  <2>2. Attr[e].inode \notin OffInodes(A)
    BY <1>11, <2>1
  <2>3. /\ IsFiniteSet(OffInodes(A)) /\ Cardinality(OffInodes(A)) \in Nat
    BY <1>10, OffInodesFinite
  <2>4. Cardinality(OffInodes(B)) = Cardinality(OffInodes(A))
                                      + (IF Attr[e].dev # Attr[Root].dev THEN 1 ELSE 0)
    <3> DEFINE S == OffInodes(A)
               i == Attr[e].inode
    <3>1. i \notin S /\ IsFiniteSet(S)
      BY <2>2, <2>3
    <3> HIDE DEF S, i
    <3>2. Cardinality(S \cup {i}) = Cardinality(S) + 1
      BY <3>1, FS_AddElement
    <3> QED
      BY <1>11, <2>3, <3>2 DEF S, i
  <2>5. OffCount(T) = OffCount(t) + (IF Attr[e].dev # Attr[Root].dev THEN 1 ELSE 0)
    BY <1>1, <1>3, <1>4, <1>12, OffCountMoves
  <2>6. r.links = LinkedInodes(B)
    BY <1>2, <1>4, <1>8, <1>11, <1>12 DEF ReadGives
  <2> QED
    BY <1>8, <2>4, <2>5, <2>6
<1>13. CASE ~Counted(e, acc.links, failing)
  <2>1. e \in Files /\ Attr[e].links > 1 /\ Attr[e].inode \in LinkedInodes(A)
    BY <1>7, <1>8, <1>13 DEF Counted, Duplicate
  <2>2. OffInodes(B) = OffInodes(A) /\ LinkedInodes(B) = LinkedInodes(A)
    BY <1>11, <2>1
  <2>3. OffCount(T) = OffCount(t)
    BY <1>3, <1>4, <1>13, OffCountMoves
  <2>4. r.links = acc.links
    BY <1>2, <1>13 DEF ReadGives
  <2> QED
    BY <1>8, <2>2, <2>3, <2>4
<1> QED
  BY <1>12, <1>13

\* What is in a directory beyond the first n of its names.
Beyond(d, names, n) == Children(d) \ {names[i] : i \in 1..n}

\* A scan keeps them in agreement, for the names that it has read.
LEMMA OffReads ==
    ASSUME HardLinksOnly, flags.depth \in Nat, NEW o \in Tables, NEW start, NEW Q,
           NEW d \in Entries, NEW seen, Reading(start, o, Q, Children(d), seen),
           OffAgrees(All(o, start), start.links, Q \cup start.kids, Children(d)),
           NEW n \in Nat, NEW names \in [1..n -> Children(d)],
           \A i, j \in 1..n : i # j => names[i] # names[j],
           NEW watch, WatchKeys(watch, d), NEW failing,
           NEW read, read = ReadAll(start, names, watch, failing)
    PROVE  OffAgrees(All(o, read), read.links, Q \cup read.kids, Beyond(d, names, n))
<1> DEFINE C == Children(d)
           Left(s) == C \ {names[i] : i \in s}
           Holds(s, acc) == /\ Reading(acc, o, Q, Left(s), seen)
                            /\ OffAgrees(All(o, acc), acc.links, Q \cup acc.kids, Left(s))
           P == {p \in (SUBSET (1..n)) \X Accs : Holds(p[1], p[2])}
<1>1. start \in Accs
  BY DEF Reading
<1>2. <<{}, start>> \in P
  <2>1. Left({}) = C
    OBVIOUS
  <2> HIDE DEF Left
  <2> QED
    BY <1>1, <2>1
<1>3. ASSUME NEW s \in SUBSET (1..n), NEW acc \in Accs, s # {}, <<s \ {Max(s)}, acc>> \in P
      PROVE  <<s, Read(acc, names[Max(s)], watch, failing)>> \in P
  <2> DEFINE m == Max(s)
             e == names[m]
             U == Left(s \ {m})
             r == Read(acc, e, watch, failing)
  <2>1. Holds(s \ {m}, acc)
    <3> HIDE DEF Holds, m
    <3> QED
      BY <1>3 DEF m
  <2>2. /\ Reading(acc, o, Q, U, seen)
        /\ OffAgrees(All(o, acc), acc.links, Q \cup acc.kids, U)
    BY <2>1
  <2>3. m \in s
    BY <1>3, MaxPicksIndex DEF MaxPicks
  <2> HIDE DEF m, Holds
  <2>4. e \in C
    BY <2>3
  <2>5. e \in U
    BY <2>3, <2>4
  <2>6. U \ {e} = Left(s)
    BY <2>3
  <2>7. Parent[e] = d
    BY <2>4 DEF Children
  <2> HIDE DEF e, U, C, Left
  <2>8. Reading(r, o, Q, U \ {e}, seen)
    BY <2>2, <2>5, <2>7, ReadKeeps
  <2>9. OffAgrees(All(o, r), r.links, Q \cup r.kids, U \ {e})
    BY <2>2, <2>5, <2>7, OffRead
  <2>10. r \in Accs
    BY <2>8 DEF Reading
  <2> HIDE DEF r
  <2>11. Holds(s, r)
    BY <2>6, <2>8, <2>9 DEF Holds
  <2>12. <<s, r>> \in P
    BY <2>10, <2>11
  <2> QED
    BY <2>12 DEF r, e, m
<1> HIDE DEF P
<1>4. read \in Accs /\ <<1..n, read>> \in P
  BY <1>1, <1>2, <1>3, ReadFold
<1> HIDE DEF Holds
<1>5. Holds(1..n, read)
  BY <1>4 DEF P
<1> QED
  BY <1>5 DEF Holds, Beyond

\* A scan that reads to the end reads all that is in the directory.
LEMMA AllNames ==
    ASSUME NEW d, NEW names \in SetToSeqs(Children(d))
    PROVE  Beyond(d, SubSeq(names, 1, Len(names)), Len(names)) = {}
<1> DEFINE c == Cardinality(Children(d))
           C == Children(d)
<1>1. c \in Nat /\ IsFiniteSet(C)
  BY EntriesFinite, FS_CardinalityType
<1>2. names \in [1..c -> C] /\ \A i, j \in 1..c : i # j => names[i] # names[j]
  BY DEF SetToSeqs
<1>3. IsFiniteSet(1..c) /\ Cardinality(1..c) = c
  BY <1>1, FS_Interval
<1>4. names \in Injection(1..c, C)
  BY <1>2 DEF Injection, IsInjective
<1>5. c = Cardinality(C)
  OBVIOUS
<1> HIDE DEF c, C
<1>6. names \in Surjection(1..c, C)
  BY <1>1, <1>3, <1>4, <1>5, FS_Injection
<1>7. \A x \in C : \E i \in 1..c : names[i] = x
  BY <1>6 DEF Surjection
<1>8. names \in Seq(C) /\ Len(names) = c
  BY <1>1, <1>2
<1>9. SubSeq(names, 1, Len(names)) = names
  BY <1>1, <1>2, <1>8
<1> QED
  BY <1>7, <1>8, <1>9 DEF Beyond, C

\* The scan of a directory keeps them in agreement, whichever names it reads, in
\* whatever order, and whether it fails on the way.
LEMMA OffScan ==
    ASSUME HardLinksOnly, TallyInv, OffAgrees(Grand, seenLinks, queue, {}), NEW w \in Workers,
           NEW d \in queue, NEW names \in SetToSeqs(Children(d)), NEW n \in 0..Len(names),
           NEW failing, NEW raises \in BOOLEAN, ~raises => n = Len(names),
           NEW o, o = Beside(res.table, local, Workers \ {w}),
           NEW scan, scan = Scanned(w, d, SubSeq(names, 1, n), failing, raises)
    PROVE  OffAgrees(All(o, scan), scan.links, (queue \ {d}) \cup scan.kids, {})
<1> DEFINE kept == KeepAll(local[w].kept, WatchCap, Path[d])
           watch == {WatchKey(kept, a) : a \in WatchedAncestors(d)}
           start == [table |-> local[w].table, kept |-> kept,
                     sample |-> local[w].sample, links |-> seenLinks, kids |-> {}]
           s == SubSeq(names, 1, n)
           read == ReadAll(start, s, watch, failing)
           K == {<<"unreadable">>} \cup GoneKey(d, "gone_dir")
           Q == queue \ {d}
           seen == TouchedWatched(Grand)
<1>1. /\ Typed /\ Ledger(Grand, queue, {}) /\ KeptOnce(local[w].kept, Grand)
      /\ SampleWhole(local[w].sample, local[w].table) /\ QuietRecent(local[w].table)
  BY DEF TallyInv
<1>2. /\ flags.depth \in Nat /\ threads \in Nat /\ seenLinks \subseteq Inos
      /\ local \in [Workers -> Locals] /\ res.table \in Tables
      /\ local[w].table \in Tables /\ local[w].kept \in Seq(Watched)
      /\ local[w].sample \in Seq(Files)
  BY <1>1, ModeFacts, ResultFields, LocalFields DEF Typed
<1>3. o \in Tables /\ Grand = AddTable(o, Joined(local[w].table))
  <2>1. IsFiniteSet(Workers) /\ IsFiniteSet(Workers \ {w})
    BY <1>2, WorkersFinite, FS_Subset
  <2>2. \A v \in Workers : local[v].table \in Tables
    BY <1>2, LocalFields
  <2> QED
    BY <1>2, <2>1, <2>2, BesideFields, BesideSplit DEF Grand
<1>4. queue \subseteq Dirs /\ d \in Entries /\ \A x \in Line(d) : Touched(Grand, x)
  <2>1. Frontier(Grand, queue, {})
    BY <1>1 DEF Ledger
  <2> QED
    BY <2>1, RootFacts DEF Frontier
<1>5. kept \in Seq(Watched) /\ KeptOnce(kept, Grand)
  BY <1>1, <1>2, <1>4, AncestorsKept
<1>6. WatchKeys(watch, d)
  BY WatchSlots
<1>7. /\ start \in Accs /\ start.table = local[w].table /\ start.kept = kept
      /\ start.sample = local[w].sample /\ start.kids = {} /\ start.links = seenLinks
  BY <1>2, <1>5 DEF Accs
<1>8. Scanned(w, d, s, failing, raises) = IF raises THEN Bill(read, K, d) ELSE read
  BY DEF Scanned, ReadAll
<1> HIDE DEF start, watch, kept, s
<1>9. Reading(start, o, Q, Children(d), seen)
  <2>1. All(o, start) = Grand
    BY <1>3, <1>7 DEF All
  <2>2. Ledger(Grand, Q, Children(d))
    BY <1>1, LedgerTaken
  <2>3. Q \cup start.kids = Q
    BY <1>7
  <2> QED
    BY <1>1, <1>5, <1>7, <2>1, <2>2, <2>3 DEF Reading
<1>10. OffAgrees(All(o, start), start.links, Q \cup start.kids, Children(d))
  <2>1. All(o, start) = Grand /\ start.links = seenLinks /\ Q \cup start.kids = Q
    BY <1>3, <1>7 DEF All
  <2>2. ReadOf(Q, Children(d)) = ReadOf(queue, {})
    BY <1>4, UnreadTaken
  <2> HIDE DEF Q
  <2> QED
    BY <2>1, <2>2 DEF OffAgrees
<1>11. /\ n \in Nat /\ s \in [1..n -> Children(d)]
       /\ \A i, j \in 1..n : i # j => s[i] # s[j]
  BY FirstNames DEF s
<1> HIDE DEF Q, seen, K
<1>12. Reading(read, o, Q, {}, seen)
  BY <1>2, <1>3, <1>4, <1>6, <1>9, <1>11, ScanReads
<1>13. OffAgrees(All(o, read), read.links, Q \cup read.kids, Beyond(d, s, n))
  <2>1. read = ReadAll(start, s, watch, failing)
    OBVIOUS
  <2> HIDE DEF read
  <2> QED
    BY <1>2, <1>3, <1>4, <1>6, <1>9, <1>10, <1>11, <2>1, OffReads
<1>14. scan = IF raises THEN Bill(read, K, d) ELSE read
  BY <1>8 DEF s
<1> HIDE DEF read
<1>15. CASE ~raises
  <2>1. scan = read /\ n = Len(names)
    BY <1>14, <1>15
  <2>2. Beyond(d, s, n) = {}
    BY <2>1, AllNames DEF s
  <2> QED
    BY <1>13, <2>1, <2>2 DEF Q
<1>16. CASE raises
  <2>1. read \in Accs /\ All(o, read) \in Tables
    BY <1>12 DEF Reading, Ledger
  <2>2. read.table \in Tables /\ Blocks(d) \in Nat /\ Length(d) \in Nat
    BY <1>4, <2>1, AccFields, FigureTypes
  <2>3. scan.table = ChargeTo(read.table, K, Blocks(d), Length(d))
    BY <1>4, <1>14, <1>16, <2>1, BillFields
  <2>4. PassesEntry(K) /\ <<"unreadable">> \in K
    <3>1. (\A k \in K : k \in {<<"unreadable">>, <<"gone_dir">>}) /\ <<"unreadable">> \in K
      BY DEF GoneKey, K
    <3> QED
      BY <3>1 DEF PassesEntry
  <2>5. All(o, scan) = ChargeTo(All(o, read), JoinedKeys(K), Blocks(d), Length(d))
    <3>1. \A x \in Watched : ~(<<"watch", x>> \in K /\ <<"over", x>> \in K)
      BY <2>4, JoinedPasses
    <3> QED
      BY <1>3, <2>2, <2>3, <3>1, AllCharge DEF All
  <2>6. All(o, scan)[<<"unreadable">>].count # 0
    BY <2>1, <2>2, <2>4, <2>5, FailuresStay
  <2> QED
    BY <2>6 DEF OffAgrees
<1> QED
  BY <1>15, <1>16

\* It is a matter of the flags.
LEMMA OffFlags ==
    ASSUME flags' = flags
    PROVE  \A t, links, Q, U : OffAgrees(t, links, Q, U)' <=> OffAgrees(t, links, Q, U)
  BY DEF OffAgrees

\* All along the walk the tables agree with what has been read, and a worker
\* merges only when nothing is queued.
OffInv ==
    /\ threads # 0
    /\ published \/ (\E w \in Workers : merged[w]) => queue = {}
    /\ OffAgrees(Grand, seenLinks, queue, {})

\* They agree on the root.
LEMMA OffStarts == Init => OffInv
<1> SUFFICES ASSUME Init PROVE OffInv
  OBVIOUS
<1>1. threads \in Nat \ {0}
  BY ThreadsNat DEF Init
<1>2. /\ local = [w \in Workers |-> NoLocal] /\ merged = [w \in Workers |-> FALSE]
      /\ queue = {Root} /\ seenLinks = {} /\ published = FALSE /\ res.table = RootCharged
  BY DEF Init
<1> DEFINE t == Joined(RootCharged)
<1>3. Grand = t
  <2>1. \A v \in Workers : local[v].table = NoTable
    BY <1>2, NoLocalType
  <2>2. RootCharged \in Tables
    BY RootTable
  <2> QED
    BY <1>1, <1>2, <2>1, <2>2, WorkersFinite, BesideNone DEF Grand
<1>4. t \in Tables /\ (~flags.count =>
                          OneGains(NoTable, t, "dev", <<"dev", Attr[Root].dev>>, Blocks(Root)))
  BY RootTable
<1> HIDE DEF t
<1>5. ReadOf({Root}, {}) = {Root}
  <2>1. \A x \in Entries : x \in Unread({Root}, {}) <=> x # Root
    BY RootFacts, RootLine DEF Unread, Below
  <2> QED
    BY <2>1, RootFacts DEF ReadOf
<1>6. OffInodes({Root}) = {} /\ LinkedInodes({Root}) = {}
  BY RootFacts DEF OffInodes, LinkedInodes
<1>7. Cardinality(OffInodes({Root})) = 0
  BY <1>6, FS_EmptySet
<1>8. ~flags.count => OffCount(t) = 0
  <2> DEFINE home == <<"dev", Attr[Root].dev>>
  <2>1. Blocks(Root) \in Nat
    BY FigureTypes, RootFacts
  <2>2. NoTable \in Tables /\ NoTable[home].count = 0 /\ home \in Slotted("dev")
    <3>1. home \in Slotted("dev") /\ home \in Keys
      BY RootFacts, SlottedFinite DEF Slotted, Devs
    <3> QED
      BY <3>1, NoTableType
  <2> HIDE DEF home
  <2>3. ASSUME ~flags.count
        PROVE  Total(t, "dev", "count") = 1 /\ t[home].count = 1
    <3>1. OneGains(NoTable, t, "dev", home, Blocks(Root))
      BY <1>4, <2>3 DEF home
    <3>2. Total(t, "dev", "count") = Total(NoTable, "dev", "count") + 1
      BY <1>4, <2>1, <2>2, <3>1, TotalGains
    <3>3. Total(NoTable, "dev", "count") = 0
      BY NoTableTotals
    <3>4. t[home].count = NoTable[home].count + 1
      BY <2>2, <3>1 DEF OneGains
    <3> QED
      BY <2>2, <3>2, <3>3, <3>4
  <2> QED
    BY <2>3 DEF OffCount, home
<1>9. OffAgrees(Grand, seenLinks, queue, {})
  BY <1>2, <1>3, <1>5, <1>6, <1>7, <1>8 DEF OffAgrees
<1> QED
  BY <1>1, <1>2, <1>9 DEF OffInv

\* Every step keeps them in agreement: a scan by what it reads, and a merge since
\* all tables together stay what they are.
LEMMA OffSteps ==
    ASSUME HardLinksOnly, TallyInv, OffInv, [Next]_<<vars, settleVars>>
    PROVE  OffInv'
<1>1. /\ threads \in Nat \ {0} /\ merged \in [Workers -> BOOLEAN]
      /\ published \/ (\E w \in Workers : merged[w]) => queue = {}
      /\ OffAgrees(Grand, seenLinks, queue, {})
  BY DEF TallyInv, Typed, OffInv
<1>2. ASSUME NEW w \in Workers, Scan(w) PROVE OffInv'
  <2>1. /\ flags' = flags /\ threads' = threads /\ merged' = merged
        /\ published' = published /\ Workers' = Workers
    BY <1>2 DEF Scan, Workers
  <2>2. PICK d \in queue : \E names \in SetToSeqs(Children(d)),
            failing \in SUBSET Children(d), raises \in BOOLEAN : \E n \in 0..Len(names) :
               (~raises => n = Len(names)) /\ ScanLeads(w, d, names, n, failing, raises)
    BY <1>2, ScanStep
  <2>3. PICK names \in SetToSeqs(Children(d)), failing \in SUBSET Children(d), raises \in BOOLEAN :
            \E n \in 0..Len(names) :
               (~raises => n = Len(names)) /\ ScanLeads(w, d, names, n, failing, raises)
    BY <2>2
  <2>4. PICK n \in 0..Len(names) :
            (~raises => n = Len(names)) /\ ScanLeads(w, d, names, n, failing, raises)
    BY <2>3
  <2>5. PICK o : o = Beside(res.table, local, Workers \ {w})
    OBVIOUS
  <2>6. PICK scan : scan = Scanned(w, d, SubSeq(names, 1, n), failing, raises)
    OBVIOUS
  <2>7. Grand' = All(o, scan) /\ seenLinks' = scan.links /\ queue' = (queue \ {d}) \cup scan.kids
    BY <2>4, <2>5, <2>6 DEF ScanLeads
  <2>8. OffAgrees(All(o, scan), scan.links, (queue \ {d}) \cup scan.kids, {})
    BY <1>1, <2>4, <2>5, <2>6, OffScan
  <2>9. ~published /\ \A v \in Workers : ~merged[v]
    BY <1>1
  <2>10. OffAgrees(Grand, seenLinks, queue, {})'
    BY <2>1, <2>7, <2>8, OffFlags
  <2> QED
    BY <1>1, <2>1, <2>9, <2>10 DEF OffInv
<1>3. ASSUME NEW w \in Workers, Merge(w) PROVE OffInv'
  <2>1. /\ flags' = flags /\ threads' = threads /\ queue = {} /\ queue' = queue
        /\ seenLinks' = seenLinks
    BY <1>3 DEF Merge
  <2>2. Grand' = Grand
    BY <1>3, MergeStep
  <2>3. OffAgrees(Grand, seenLinks, queue, {})'
    BY <1>1, <2>1, <2>2, OffFlags
  <2> QED
    BY <1>1, <2>1, <2>3 DEF OffInv
<1>4. ASSUME Publish PROVE OffInv'
  <2>1. /\ \A w \in Workers : merged[w]
        /\ flags' = flags /\ threads' = threads /\ queue' = queue /\ local' = local
        /\ seenLinks' = seenLinks /\ merged' = merged /\ Workers' = Workers
        /\ res' = [res EXCEPT !.watchedDropped = res'.watchedDropped]
    BY <1>4 DEF Publish, Workers
  <2>2. 1 \in Workers
    BY <1>1 DEF Workers
  <2>3. queue = {}
    BY <1>1, <2>1, <2>2
  <2>4. Grand' = Grand
    BY <2>1 DEF TallyInv, Typed, Results, Grand
  <2>5. OffAgrees(Grand, seenLinks, queue, {})'
    BY <1>1, <2>1, <2>4, OffFlags
  <2> QED
    BY <1>1, <2>1, <2>3, <2>5 DEF OffInv
<1>5. ASSUME UNCHANGED vars PROVE OffInv'
  <2>1. /\ flags' = flags /\ threads' = threads /\ queue' = queue /\ local' = local
        /\ seenLinks' = seenLinks /\ merged' = merged /\ published' = published
        /\ res' = res /\ Workers' = Workers
    BY <1>5 DEF vars, Workers
  <2>2. Grand' = Grand
    BY <2>1 DEF Grand
  <2>3. OffAgrees(Grand, seenLinks, queue, {})'
    BY <1>1, <2>1, <2>2, OffFlags
  <2> QED
    BY <1>1, <2>1, <2>3 DEF OffInv
<1>6. CASE Walking
  BY <1>2, <1>3, <1>4, <1>6 DEF Walking
<1>7. CASE Rechecking
  <2>1. UNCHANGED vars
    BY <1>7 DEF Rechecking, Reallocate, Unlink, StartRecheck, Restat
  <2> QED
    BY <1>5, <2>1
<1> QED
  BY <1>5, <1>6, <1>7 DEF Next

\* While a tree that has hard links but no other inode with two names is walked,
\* what the tables have off the root's filesystem is what has been read there,
\* as long as no stat and no listing failed.
THEOREM OffRootIsCounted == ASSUME HardLinksOnly PROVE Spec => [](TallyInv /\ OffInv)
<1>1. SettleInit => TallyInv /\ OffInv
  BY TallyStarts, OffStarts DEF SettleInit
<1>2. TallyInv /\ OffInv /\ [Next]_<<vars, settleVars>> => (TallyInv /\ OffInv)'
  BY TallySteps, OffSteps
<1> QED
  BY <1>1, <1>2, PTL DEF Spec

\* An entry with a name of another filesystem on its path is itself on another.
LEMMA ForeignBelow ==
    ASSUME NothingMountedBack
    PROVE  \A e \in Entries : (\E i \in DOMAIN Path[e] : Attr[Path[e][i]].dev # Attr[Root].dev)
                                <=> Attr[e].dev # Attr[Root].dev
<1> DEFINE Off(x) == Attr[x].dev # Attr[Root].dev
<1>1. ASSUME NEW e \in Entries
      PROVE  (\E i \in DOMAIN Path[e] : Off(Path[e][i])) <=> \E x \in Line(e) : Off(x)
  <2>1. DOMAIN Path[e] = 1..Level(e)
    BY PathType DEF Level
  <2> QED
    BY <2>1, LineIn
<1>2. \A e \in Entries : \A x \in Line(e) : Off(x) => Off(e)
  <2> DEFINE bad == {e \in Entries \ {Root} : \E x \in Line(e) : Off(x) /\ ~Off(e)}
  <2>1. ASSUME bad # {} PROVE FALSE
    <3>1. PICK e \in bad : Parent[e] \in Entries /\ Parent[e] \notin bad
      BY <2>1, FirstInTree
    <3>2. PICK x \in Line(e) : Off(x) /\ ~Off(e)
      BY <3>1
    <3>3. e \in Entries \ {Root} /\ Line(e) = Line(Parent[e]) \cup {e}
      BY <3>1, LineStep
    <3>4. ~Off(Parent[e])
      BY <3>2, <3>3 DEF NothingMountedBack
    <3>5. x \in Line(Parent[e])
      BY <3>2, <3>3
    <3>6. Parent[e] # Root
      BY <3>5, RootLine
    <3> QED
      BY <3>1, <3>2, <3>4, <3>5, <3>6
  <2> QED
    BY <2>1, RootLine
<1>3. \A e \in Entries : Off(e) => \E x \in Line(e) : Off(x)
  BY LineIn
<1> HIDE DEF Off
<1>4. \A e \in Entries : (\E i \in DOMAIN Path[e] : Off(Path[e][i])) <=> Off(e)
  BY <1>1, <1>2, <1>3
<1> QED
  BY <1>4 DEF Off

\* OffRootIsLeftOut is that agreement when all has been read.
LEMMA LeftOut == NothingMountedBack /\ TallyInv /\ OffInv => OffRootIsLeftOut
<1> DEFINE foreign == {e \in Entries : \E i \in DOMAIN Path[e] :
                           Attr[Path[e][i]].dev # Attr[Root].dev}
<1> SUFFICES ASSUME NothingMountedBack, TallyInv, OffInv,
                    published, Complete, ~flags.ofs, ~flags.count
             PROVE  OffRoot("count") = Cardinality({Attr[e].inode : e \in foreign})
  BY DEF OffRootIsLeftOut
<1>1. queue = {} /\ OffAgrees(Grand, seenLinks, {}, {})
  BY DEF OffInv
<1>2. /\ res.table \in Tables /\ Joined(res.table) \in Tables
      /\ \A k \in Keys : k[1] \notin {"watch", "over"} => Joined(res.table)[k] = res.table[k]
  BY Published, JoinedFields
<1>3. Grand = Joined(res.table)
  BY AllMerged DEF TallyInv
<1>4. Grand[<<"unstat">>].count = 0 /\ Grand[<<"unreadable">>].count = 0
  <2>1. /\ <<"unstat">> \in Keys /\ <<"unstat">>[1] \notin {"watch", "over"}
        /\ <<"unreadable">> \in Keys /\ <<"unreadable">>[1] \notin {"watch", "over"}
    BY KeysIn
  <2>2. Count("unstat") = 0 /\ Count("unreadable") = 0
    BY DEF Complete, TallyInv
  <2> QED
    BY <1>2, <1>3, <2>1, <2>2 DEF Count
<1>5. OffCount(Grand) = Cardinality(OffInodes(Entries))
  <2>1. ReadOf({}, {}) = Entries
    BY DEF ReadOf, Unread
  <2> QED
    BY <1>1, <1>4, <2>1 DEF OffAgrees
<1>6. OffRoot("count") = OffCount(Grand)
  <2>1. \A k \in Slotted("dev") : Grand[k] = res.table[k]
    BY <1>2, <1>3 DEF Slotted
  <2>2. <<"dev", Attr[Root].dev>> \in Slotted("dev")
    BY RootFacts, SlottedFinite DEF Devs
  <2>3. Total(Grand, "dev", "count") = Total(res.table, "dev", "count")
    BY <1>2, <1>3, <2>1, TotalSame
  <2> QED
    BY <2>1, <2>2, <2>3 DEF OffRoot, OffCount
<1>7. foreign = {e \in Entries : Attr[e].dev # Attr[Root].dev}
  BY ForeignBelow
<1>8. OffInodes(Entries) = {Attr[e].inode : e \in foreign}
  <2> HIDE DEF foreign
  <2> QED
    BY <1>7 DEF OffInodes
<1> QED
  BY <1>5, <1>6, <1>8

\* What a walk reports off the root's filesystem is every inode at or below an
\* entry of another one, whatever the order of the scans and the merges: each
\* counted once, under all its names, by whichever worker came first
\* (walk.py:725-741).
THEOREM OffRootAlwaysLeftOut ==
    ASSUME HardLinksOnly, NothingMountedBack
    PROVE  Spec => []OffRootIsLeftOut
<1>1. TallyInv /\ OffInv => OffRootIsLeftOut
  BY LeftOut
<1> QED
  BY <1>1, OffRootIsCounted, PTL

-----------------------------------------------------------------------------
(* What could be reclaimed.                                                *)

\* The groups hold the matches that are in no other.
LEMMA GroupsAreHits ==
    UNION Range(ReclaimableGroups) = {a \in Matched : ~Nested(a)}
<1> DEFINE hits == {a \in Matched : ~Nested(a)}
           g == [rule \in {Pattern[a] : a \in hits} |-> {a \in hits : Pattern[a] = rule}]
<1>1. ReclaimableGroups = g
  BY DEF ReclaimableGroups
<1>2. Range(g) = {{a \in hits : Pattern[a] = rule} : rule \in {Pattern[a] : a \in hits}}
  <2> HIDE DEF hits
  <2> QED
    BY DEF Range
<1> HIDE DEF hits, g
<1>3. UNION Range(g) = hits
  BY <1>2
<1> QED
  BY <1>1, <1>3 DEF hits

\* MatchesCountOnce follows from PackedOnce: matches in no other are apart, and
\* each is worth no more than its watched slot.
LEMMA MatchedOnce == TallyInv => MatchesCountOnce
<1> SUFFICES ASSUME TallyInv, published
             PROVE  GroupsTotal("bytes") <= Bytes("size") /\ GroupsTotal("count") <= Inodes
  BY DEF MatchesCountOnce, JustPublished
<1> DEFINE G == Joined(res.table)
           hits == {a \in Matched : ~Nested(a)}
           c == [a \in Watched |-> Worth(a)["count"]]
           b == [a \in Watched |-> Worth(a)["bytes"]]
<1>1. /\ PackedOnce(G) /\ WatchedAsRows(G) /\ G \in Tables
      /\ res.table \in Tables /\ res.kept \in Seq(Watched)
  BY Published, ResultFields DEF Ledger
<1>2. /\ Inodes = InodesOf(G) /\ Bytes("size") = G[<<"size">>].bytes
      /\ \A x \in Entries \ {Root} : G[<<"row", x>>] = res.table[<<"row", x>>]
  BY PublishedFigures
<1>3. \A a \in Watched :
         /\ G[<<"watch", a>>].count = res.table[<<"watch", a>>].count + res.table[<<"over", a>>].count
         /\ G[<<"watch", a>>].bytes = res.table[<<"watch", a>>].bytes + res.table[<<"over", a>>].bytes
  BY <1>1, JoinedFields
<1> HIDE DEF G
<1>4. hits \subseteq Watched
  BY ReportAssumption DEF Matched
<1>5. Apart(hits)
  <2> SUFFICES ASSUME NEW x \in hits, NEW y \in hits, x \in Line(y), x # y PROVE FALSE
    BY DEF Apart
  <2>1. x \in Matched \ {y} /\ ~Nested(y)
    OBVIOUS
  <2>2. x \in ToSet(Path[y])
    BY DEF Line
  <2> QED
    BY <2>1, <2>2 DEF Nested
<1>6. ASSUME NEW a \in Watched
      PROVE  /\ c[a] \in Nat /\ b[a] \in Nat
             /\ c[a] <= G[<<"watch", a>>].count /\ b[a] <= G[<<"watch", a>>].bytes
  <2>1. /\ res.table[<<"watch", a>>].count \in Nat /\ res.table[<<"watch", a>>].bytes \in Nat
        /\ res.table[<<"over", a>>].count \in Nat /\ res.table[<<"over", a>>].bytes \in Nat
        /\ res.table[<<"row", a>>].count \in Nat /\ res.table[<<"row", a>>].bytes \in Nat
        /\ G[<<"watch", a>>].count \in Nat /\ G[<<"watch", a>>].bytes \in Nat
    BY <1>1, KeysIn, RootFacts, SlotFields
  <2>2. c[a] = Worth(a).count /\ b[a] = Worth(a).bytes
    OBVIOUS
  <2> HIDE DEF c, b
  <2>3. CASE a \in ToSet(res.kept)
    <3>1. Worth(a) = res.table[<<"watch", a>>]
      BY <2>3 DEF Worth
    <3> QED
      BY <1>3, <2>1, <2>2, <3>1
  <2>4. CASE a \notin ToSet(res.kept)
    <3>1. Worth(a) = G[<<"row", a>>]
      BY <1>2, <2>4, RootFacts DEF Worth, Row
    <3>2. G[<<"row", a>>].count \in Nat /\ G[<<"row", a>>].bytes \in Nat
      BY <1>2, <2>1, RootFacts
    <3>3. IF Level(a) <= flags.depth
            THEN /\ G[<<"watch", a>>].count = G[<<"row", a>>].count
                 /\ G[<<"watch", a>>].bytes = G[<<"row", a>>].bytes
            ELSE G[<<"row", a>>].count = 0 /\ G[<<"row", a>>].bytes = 0
      BY <1>1 DEF WatchedAsRows
    <3> QED
      BY <2>1, <2>2, <3>1, <3>2, <3>3
  <2> QED
    BY <2>3, <2>4
<1>7. GroupsTotal("count") = SumOver(c, hits) /\ GroupsTotal("bytes") = SumOver(b, hits)
  BY GroupsAreHits DEF GroupsTotal
<1> HIDE DEF c, b, hits
<1>8. IsFiniteSet(hits)
  BY <1>4, EntriesFinite, FS_Subset
<1> DEFINE p == WatchFigures(G, "count")
           q == WatchFigures(G, "bytes")
<1>9. \A a \in hits : /\ c[a] \in Nat /\ p[a] \in Nat /\ c[a] <= p[a]
                      /\ b[a] \in Nat /\ q[a] \in Nat /\ b[a] <= q[a]
  BY <1>1, <1>4, <1>6, WatchFigureTypes
<1>10. SumOver(p, hits) <= InodesOf(G) /\ SumOver(q, hits) <= G[<<"size">>].bytes
  BY <1>1, <1>4, <1>5 DEF PackedOnce
<1> HIDE DEF p, q
<1>11. SumOver(c, hits) <= SumOver(p, hits)
  <2>1. \A a \in hits : c[a] \in Nat /\ p[a] \in Nat /\ c[a] <= p[a]
    BY <1>9
  <2> QED
    BY <1>8, <2>1, SumAtMost
<1>12. SumOver(b, hits) <= SumOver(q, hits)
  <2>1. \A a \in hits : b[a] \in Nat /\ q[a] \in Nat /\ b[a] <= q[a]
    BY <1>9
  <2> QED
    BY <1>8, <2>1, SumAtMost
<1>13. /\ SumOver(c, hits) \in Nat /\ SumOver(p, hits) \in Nat
       /\ SumOver(b, hits) \in Nat /\ SumOver(q, hits) \in Nat
  BY <1>8, <1>9, SumNat
<1>14. InodesOf(G) \in Int /\ G[<<"size">>].bytes \in Nat
  BY <1>1, TableFigures
<1> QED
  BY <1>2, <1>7, <1>10, <1>11, <1>12, <1>13, <1>14

\* The matches that are listed are worth no more than the tree
\* (report.py:945-998).
THEOREM MatchesAlwaysCountOnce == Spec => []MatchesCountOnce
  BY TablesHoldTogether, MatchedOnce, PTL

-----------------------------------------------------------------------------
(* What is not listed.                                                     *)

\* An entry that is no row has no figures.
LEMMA RowFacts ==
    ASSUME TallyInv, published
    PROVE  /\ IsFiniteSet(Rows) /\ Rows \subseteq Entries \ {Root}
           /\ \A e \in Entries \ {Root} : /\ Row(e) = res.table[<<"row", e>>]
                                          /\ Row(e).count \in Nat /\ Row(e).bytes \in Nat
                                          /\ e \notin Rows => Row(e).count = 0 /\ Row(e).bytes = 0
<1>1. res.table \in Tables /\ EmptyRows(Joined(res.table))
  BY Published DEF Ledger
<1>2. \A e \in Entries \ {Root} : Joined(res.table)[<<"row", e>>] = res.table[<<"row", e>>]
  BY PublishedFigures
<1>3. \A e \in Entries \ {Root} : Row(e) = res.table[<<"row", e>>]
  BY DEF Row
<1>4. \A e \in Entries \ {Root} : Row(e).count \in Nat /\ Row(e).bytes \in Nat
  BY <1>1, <1>3, RowFigureTypes
<1>5. \A e \in Entries \ {Root} : Row(e).count = 0 => Row(e).bytes = 0
  BY <1>1, <1>2, <1>3 DEF EmptyRows
<1>6. \A e \in Entries \ {Root} : e \notin Rows => Row(e).count = 0
  BY <1>4 DEF Rows
<1>7. Rows \subseteq Entries \ {Root} /\ IsFiniteSet(Rows)
  BY EntriesFinite, FS_Subset DEF Rows
<1> QED
  BY <1>3, <1>4, <1>5, <1>6, <1>7

\* When the rows are a partition, what is not in some of them is in the others
\* or is the root itself.
LEMMA RestOfPartition ==
    ASSUME TallyInv, published, Partition, NEW shown \in SUBSET Rows
    PROVE  /\ RestOf(shown).count = 1 + SumRows(Rows \ shown, "count")
           /\ RestOf(shown).bytes = Blocks(Root) + SumRows(Rows \ shown, "bytes")
           /\ SumRows(Rows \ shown, "count") \in Nat /\ SumRows(Rows \ shown, "bytes") \in Nat
<1> DEFINE G == Joined(res.table)
           C == Children(Root)
           p == RowFigures(res.table, "count")
           q == RowFigures(res.table, "bytes")
           hidden == Rows \ shown
<1>1. RowsAdd(G) /\ flags.depth \in Nat \ {0} /\ G \in Tables
  BY Published DEF Ledger
<1>2. /\ Inodes = InodesOf(G) /\ Bytes("size") = G[<<"size">>].bytes
      /\ p = RowFigures(G, "count") /\ q = RowFigures(G, "bytes")
  BY PublishedFigures
<1>3. Level(Root) < flags.depth
  <2>1. Level(Root) = 0
    BY RootLine
  <2> QED
    BY <1>1, <2>1
<1>4. /\ InodesOf(G) = 1 + ChildSum(G, Root, "count")
      /\ G[<<"size">>].bytes = Blocks(Root) + ChildSum(G, Root, "bytes")
  BY <1>1, <1>3, RootFacts DEF RowsAdd
<1>5. ChildSum(G, Root, "count") = SumOver(p, C) /\ ChildSum(G, Root, "bytes") = SumOver(q, C)
  BY <1>2 DEF ChildSum
<1> HIDE DEF G
<1>6. \A e \in Entries \ {Root} : /\ p[e] \in Nat /\ q[e] \in Nat
                                  /\ e \notin Rows => p[e] = 0 /\ q[e] = 0
  BY RowFacts DEF RowFigures
<1>7. Rows \subseteq C
  BY RowFacts DEF Partition, Children
<1>8. C \subseteq Entries \ {Root} /\ IsFiniteSet(C)
  BY EntriesFinite DEF Children
<1> HIDE DEF p, q, C
<1>9. /\ IsFiniteSet(Rows) /\ IsFiniteSet(C \ Rows) /\ IsFiniteSet(shown) /\ IsFiniteSet(hidden)
      /\ shown \cap hidden = {} /\ shown \cup hidden = Rows
      /\ Rows \cap (C \ Rows) = {} /\ Rows \cup (C \ Rows) = C
  BY <1>7, <1>8, FS_Subset
<1>10. /\ \A i \in Rows \cup (C \ Rows) : p[i] \in Nat
       /\ \A i \in Rows \cup (C \ Rows) : q[i] \in Nat
       /\ \A i \in shown \cup hidden : p[i] \in Nat
       /\ \A i \in shown \cup hidden : q[i] \in Nat
       /\ \A i \in C \ Rows : p[i] = 0
       /\ \A i \in C \ Rows : q[i] = 0
  BY <1>6, <1>7, <1>8, <1>9
<1> HIDE DEF hidden
<1>11. /\ SumOver(p, C) = SumOver(p, Rows) + SumOver(p, C \ Rows)
       /\ SumOver(q, C) = SumOver(q, Rows) + SumOver(q, C \ Rows)
  <2> DEFINE Z == C \ Rows
  <2>1. /\ \A i \in Rows \cup Z : p[i] \in Nat
        /\ IsFiniteSet(Rows) /\ IsFiniteSet(Z) /\ Rows \cap Z = {} /\ Rows \cup Z = C
    BY <1>9, <1>10
  <2>2. \A i \in Rows \cup Z : q[i] \in Nat
    BY <1>10
  <2> HIDE DEF Z
  <2>3. SumOver(p, Rows \cup Z) = SumOver(p, Rows) + SumOver(p, Z)
    BY <2>1, SumUnion
  <2>4. SumOver(q, Rows \cup Z) = SumOver(q, Rows) + SumOver(q, Z)
    BY <2>1, <2>2, SumUnion
  <2> QED
    BY <2>1, <2>3, <2>4 DEF Z
<1>12. SumOver(p, C \ Rows) = 0 /\ SumOver(q, C \ Rows) = 0
  BY <1>9, <1>10, SumZero
<1>13. /\ SumOver(p, Rows) = SumOver(p, shown) + SumOver(p, hidden)
       /\ SumOver(q, Rows) = SumOver(q, shown) + SumOver(q, hidden)
  BY <1>9, <1>10, SumUnion
<1>14. /\ SumOver(p, shown) \in Nat /\ SumOver(p, hidden) \in Nat
       /\ SumOver(q, shown) \in Nat /\ SumOver(q, hidden) \in Nat
  <2>1. /\ \A i \in shown : p[i] \in Nat
        /\ \A i \in hidden : p[i] \in Nat
        /\ \A i \in shown : q[i] \in Nat
        /\ \A i \in hidden : q[i] \in Nat
    BY <1>10
  <2> QED
    BY <1>9, <2>1, SumNat
<1>15. Blocks(Root) \in Nat
  BY FigureTypes, RootFacts
<1>16. /\ SumRows(shown, "count") = SumOver(p, shown) /\ SumRows(shown, "bytes") = SumOver(q, shown)
       /\ SumRows(hidden, "count") = SumOver(p, hidden) /\ SumRows(hidden, "bytes") = SumOver(q, hidden)
  BY DEF SumRows, p, q
<1>17. /\ Inodes = 1 + SumOver(p, shown) + SumOver(p, hidden)
       /\ Bytes("size") = Blocks(Root) + SumOver(q, shown) + SumOver(q, hidden)
  BY <1>2, <1>4, <1>5, <1>11, <1>12, <1>13, <1>14, <1>15
<1>18. /\ Inodes - SumOver(p, shown) = 1 + SumOver(p, hidden)
       /\ Bytes("size") - SumOver(q, shown) = Blocks(Root) + SumOver(q, hidden)
  BY <1>14, <1>15, <1>17
<1>19. /\ Max({0, Inodes - SumOver(p, shown)}) = 1 + SumOver(p, hidden)
       /\ Max({0, Bytes("size") - SumOver(q, shown)}) = Blocks(Root) + SumOver(q, hidden)
  <2> DEFINE i == 1 + SumOver(p, hidden)
             j == Blocks(Root) + SumOver(q, hidden)
  <2>1. i \in Int /\ i >= 0 /\ j \in Int /\ j >= 0
    BY <1>14, <1>15
  <2> HIDE DEF i, j
  <2>2. Max({0, i}) = i /\ Max({0, j}) = j
    BY <2>1, MaxOfTwo
  <2> QED
    BY <1>18, <2>2 DEF i, j
<1>20. RestOf(shown).count = 1 + SumOver(p, hidden)
       /\ RestOf(shown).bytes = Blocks(Root) + SumOver(q, hidden)
  BY <1>16, <1>19 DEF RestOf, Rest
<1> QED
  BY <1>14, <1>16, <1>20 DEF hidden

\* A ranking lists rows.
LEMMA TopDirsIn ==
    ASSUME NEW n, NEW key
    PROVE  TopDirs(n, key) \subseteq Rows
  BY DEF TopDirs

\* The rows that are not shown, in number.
LEMMA OtherIs ==
    ASSUME TallyInv, published, NEW shown \in SUBSET Rows
    PROVE  /\ OtherCount(shown) = Cardinality(Rows) - Cardinality(shown)
           /\ OtherCount(shown) = Cardinality(Rows \ shown)
           /\ OtherCount(shown) \in Nat /\ Cardinality(Rows) \in Nat /\ Cardinality(shown) \in Nat
           /\ OtherCount(shown) = 0 <=> Rows \ shown = {}
<1>1. IsFiniteSet(Rows) /\ IsFiniteSet(shown) /\ IsFiniteSet(Rows \ shown)
  BY RowFacts, FS_Subset
<1>2. /\ Cardinality(Rows) \in Nat /\ Cardinality(shown) \in Nat /\ Cardinality(Rows \ shown) \in Nat
      /\ Cardinality(Rows \ shown) = 0 <=> Rows \ shown = {}
  BY <1>1, FS_CardinalityType, FS_EmptySet
<1>3. Cardinality(shown \cup (Rows \ shown))
        = Cardinality(shown) + Cardinality(Rows \ shown) - Cardinality(shown \cap (Rows \ shown))
  BY <1>1, FS_Union
<1>4. shown \cup (Rows \ shown) = Rows /\ shown \cap (Rows \ shown) = {}
  OBVIOUS
<1>5. Cardinality(Rows) - Cardinality(shown) = Cardinality(Rows \ shown)
  <2>1. Cardinality({}) = 0
    BY FS_EmptySet
  <2> DEFINE all == Cardinality(Rows)
             in == Cardinality(shown)
             out == Cardinality(Rows \ shown)
  <2>2. all = in + out - 0
    BY <1>3, <1>4, <2>1
  <2>3. all \in Nat /\ in \in Nat /\ out \in Nat
    BY <1>2
  <2> HIDE DEF all, in, out
  <2>4. all - in = out
    BY <2>2, <2>3
  <2> QED
    BY <2>4 DEF all, in, out
<1>6. Max({0, Cardinality(Rows) - Cardinality(shown)}) = Cardinality(Rows) - Cardinality(shown)
  BY <1>2, <1>5, MaxOfTwo
<1> QED
  BY <1>2, <1>5, <1>6 DEF OtherCount

\* RestIsWhatIsHidden follows, as the rest is only given for a partition.
LEMMA RestHidden == TallyInv => RestIsWhatIsHidden
<1> SUFFICES ASSUME TallyInv, published, NEW top \in Tops, NEW sort \in SortKeys,
                    EntryRows(top, SortKey(sort)).showRest
             PROVE  LET rows == EntryRows(top, SortKey(sort))
                        unlisted == Rows \ rows.shown
                    IN  /\ rows.hidden = Cardinality(unlisted)
                        /\ rows.rest.count = 1 + SumRows(unlisted, "count")
                        /\ rows.rest.bytes = Blocks(Root) + SumRows(unlisted, "bytes")
  BY DEF RestIsWhatIsHidden, JustPublished
<1> DEFINE key == SortKey(sort)
           shown == TopDirs(Limit(top), key)
           hidden == IF shown = {} THEN 0 ELSE OtherCount(shown)
<1>1. /\ EntryRows(top, key).shown = shown /\ EntryRows(top, key).hidden = hidden
      /\ EntryRows(top, key).rest = RestOf(shown)
      /\ hidden > 0 /\ Partition
  BY DEF EntryRows
<1>2. shown \in SUBSET Rows
  BY TopDirsIn
<1> HIDE DEF shown
<1>3. hidden = OtherCount(shown)
  BY <1>1
<1> QED
  BY <1>1, <1>2, <1>3, OtherIs, RestOfPartition

\* The row for the rest is worth the rows that are not listed and the root,
\* under every ranking (report.py:1375-1416, 1827).
THEOREM RestAlwaysWhatIsHidden == Spec => []RestIsWhatIsHidden
  BY TablesHoldTogether, RestHidden, PTL

-----------------------------------------------------------------------------
(* Nothing is hidden without a word.                                       *)

\* The ranking by files or by size, as a relation.
Order(key) == {p \in Rows \X Rows : Ahead(p[1], p[2], key)}

\* It is a strict order in which any two rows compare.
LEMMA OrderRanks ==
    ASSUME TallyInv, published, NEW key \in {"files", "size"}
    PROVE  Ranked(Order(key), Rows)
<1> DEFINE x(e) == IF key = "files" THEN Row(e).count ELSE Row(e).bytes
           y(e) == IF key = "files" THEN Row(e).bytes ELSE Row(e).count
           ahead(a, b) == \/ x(a) > x(b)
                          \/ x(a) = x(b) /\ y(a) > y(b)
                          \/ x(a) = x(b) /\ y(a) = y(b) /\ Place[a] < Place[b]
<1>1. \A e \in Rows : x(e) \in Nat /\ y(e) \in Nat /\ Place[e] \in Nat
  BY RowFacts, ReportAssumption
<1>2. \A a, b \in Rows : Place[a] = Place[b] => a = b
  BY RowFacts, ReportAssumption
<1>3. \A a, b : Merit(a, b, key) = <<x(a), y(a)>>
  BY DEF Merit
<1>4. \A a, b \in Rows : Ahead(a, b, key) <=> ahead(a, b)
  <2> TAKE a, b \in Rows
  <2>1. Merit(a, b, key) = <<x(a), y(a)>> /\ Merit(b, a, key) = <<x(b), y(b)>>
    BY <1>3
  <2> HIDE DEF x, y
  <2> QED
    BY <2>1 DEF Ahead
<1> HIDE DEF x, y
<1>5. \A a, b \in Rows : <<a, b>> \in Order(key) <=> ahead(a, b)
  BY <1>4 DEF Order
<1>6. \A a \in Rows : ~ahead(a, a)
  BY <1>1
<1>7. \A a, b, c \in Rows : ahead(a, b) /\ ahead(b, c) => ahead(a, c)
  BY <1>1
<1>8. \A a, b \in Rows : a = b \/ ahead(a, b) \/ ahead(b, a)
  BY <1>1, <1>2
<1> HIDE DEF ahead
<1> QED
  BY <1>5, <1>6, <1>7, <1>8 DEF Ranked

\* A limit is a positive number.
LEMMA LimitNat ==
    ASSUME NEW top \in Nat
    PROVE  /\ Limit(top) \in Nat \ {0} /\ Cardinality(Entries) \in Nat
           /\ Limit(0) = Cardinality(Entries)
<1>1. Cardinality(Entries) \in Nat /\ Cardinality(Entries) # 0
  BY EntriesFinite, RootFacts, FS_CardinalityType, FS_EmptySet
<1> QED
  BY <1>1 DEF Limit

\* As many rows are listed as there is room for, by size and by files alike.
LEMMA TopCount ==
    ASSUME TallyInv, published, NEW key \in {"files", "size"}, NEW n \in Nat
    PROVE  Cardinality(TopDirs(n, key))
             = IF n <= Cardinality(Rows) THEN n ELSE Cardinality(Rows)
<1> DEFINE lt == Order(key)
<1>1. {e \in Rows : Qualifies(e, key)} = Rows
  BY DEF Qualifies
<1>2. \A e \in Rows : {b \in Rows : Ahead(b, e, key)} = Prior(lt, Rows, e)
  BY DEF Prior, Order
<1>3. TopDirs(n, key) = Best(lt, Rows, n)
  BY <1>1, <1>2 DEF TopDirs, Best
<1>4. Ranked(lt, Rows) /\ IsFiniteSet(Rows)
  BY OrderRanks, RowFacts
<1> HIDE DEF lt
<1> QED
  BY <1>3, <1>4, RankCount

\* A limit as large as the tree lists every row that qualifies.
LEMMA TopAll ==
    ASSUME TallyInv, published, NEW top \in Nat
    PROVE  TopDirs(Limit(top), "density") \subseteq TopDirs(Limit(0), "density")
<1> DEFINE R == {e \in Rows : Qualifies(e, "density")}
<1>1. R \subseteq Entries \ {Root}
  BY RowFacts
<1>2. ASSUME NEW e \in R
      PROVE  Cardinality({b \in R : Ahead(b, e, "density")}) < Cardinality(Entries)
  <2> DEFINE A == {b \in R : Ahead(b, e, "density")}
             E == Entries \ {Root}
  <2>1. A \subseteq E
    BY <1>1
  <2>2. Root \in Entries /\ IsFiniteSet(Entries) /\ IsFiniteSet(E)
    BY EntriesFinite, RootFacts, FS_Subset
  <2>3. Cardinality(E) = Cardinality(Entries) - 1
    BY <2>2, FS_RemoveElement
  <2> HIDE DEF A, E
  <2>4. Cardinality(A) <= Cardinality(E) /\ IsFiniteSet(A)
    BY <2>1, <2>2, FS_Subset
  <2>5. Cardinality(A) \in Nat /\ Cardinality(E) \in Nat /\ Cardinality(Entries) \in Nat
    BY <2>2, <2>4, FS_CardinalityType
  <2>6. Cardinality(A) < Cardinality(Entries)
    BY <2>3, <2>4, <2>5
  <2> QED
    BY <2>6 DEF A
<1>3. TopDirs(Limit(0), "density") = R
  BY <1>2, LimitNat DEF TopDirs
<1> QED
  BY <1>3 DEF TopDirs

\* NothingHiddenUnsaid follows: the rankings by files and by size are as long.
LEMMA Unsaid == TallyInv => NothingHiddenUnsaid
<1> SUFFICES ASSUME TallyInv, published, NEW top \in Tops, NEW sort \in SortKeys
             PROVE  LET key  == SortKey(sort)
                        rows == EntryRows(top, key)
                        note == DensityNote(top)
                        json == TopHidden(top)
                        unlisted == Cardinality(Rows) - Cardinality(rows.shown)
                    IN  IF key = "density" THEN unlisted = note.below + note.truncated
                        ELSE /\ rows.showRest \/ rows.sayHidden <=> unlisted > 0
                             /\ unlisted = json.count
                             /\ rows.showRest <=> json.known
                             /\ rows.rest = (IF key = "files" THEN json.files ELSE json.size)
  BY DEF NothingHiddenUnsaid, JustPublished
<1> DEFINE key == SortKey(sort)
           shown == TopDirs(Limit(top), key)
           all == Cardinality(Rows)
<1>1. top \in Nat /\ Limit(top) \in Nat \ {0}
  BY ReportAssumption, LimitNat
<1>2. /\ OtherCount(shown) = all - Cardinality(shown)
      /\ OtherCount(shown) \in Nat /\ all \in Nat /\ Cardinality(shown) \in Nat
      /\ OtherCount(shown) = 0 <=> Rows \ shown = {}
  BY TopDirsIn, OtherIs
<1>3. EntryRows(top, key).shown = shown
  BY DEF EntryRows
<1>4. CASE key = "density"
  <2> DEFINE some == TopDirs(Limit(0), key)
             q == Cardinality(some)
             s == Cardinality(shown)
  <2>1. shown \subseteq some /\ some \subseteq Rows /\ IsFiniteSet(Rows)
    BY <1>1, <1>4, TopAll, TopDirsIn, RowFacts
  <2> HIDE DEF some, shown
  <2>2. IsFiniteSet(some) /\ q <= all /\ s <= q
    BY <2>1, FS_Subset
  <2>3. q \in Nat /\ s \in Nat
    BY <1>2, <2>2, FS_CardinalityType
  <2> HIDE DEF q, s, all
  <2>4. all - q \in Int /\ q - s \in Int /\ all - q >= 0 /\ q - s >= 0
    BY <1>2, <2>2, <2>3
  <2>5. Max({0, all - q}) = all - q /\ Max({0, q - s}) = q - s
    BY <2>4, MaxOfTwo
  <2>6. DensityNote(top).below = Max({0, all - q}) /\ DensityNote(top).truncated = Max({0, q - s})
    BY <1>4 DEF DensityNote, all, q, s, some, shown
  <2>7. all - s = DensityNote(top).below + DensityNote(top).truncated
    BY <1>2, <2>3, <2>5, <2>6
  <2> QED
    BY <1>3, <1>4, <2>7 DEF all, s
<1>5. CASE key # "density"
  <2>1. key \in {"files", "size"} /\ SortKey("size") \in {"files", "size"}
        /\ (key = "size" => SortKey("size") = "size")
    BY <1>5 DEF SortKey, SortKeys
  <2> DEFINE bySize == TopDirs(Limit(top), SortKey("size"))
             byFiles == TopDirs(Limit(top), "files")
             hidden == IF shown = {} THEN 0 ELSE OtherCount(shown)
  <2>2. /\ Cardinality(shown) = Cardinality(bySize)
        /\ Cardinality(shown) = IF Limit(top) <= all THEN Limit(top) ELSE all
    BY <1>1, <2>1, TopCount
  <2>3. OtherCount(bySize) = all - Cardinality(bySize)
    <3>1. bySize \in SUBSET Rows
      BY TopDirsIn
    <3> HIDE DEF bySize
    <3> QED
      BY <3>1, OtherIs
  <2>4. hidden = OtherCount(shown)
    <3>1. ASSUME shown = {} PROVE OtherCount(shown) = 0
      <4>1. Cardinality(shown) = 0
        BY <3>1, FS_EmptySet
      <4> HIDE DEF shown, all
      <4> QED
        BY <1>1, <1>2, <2>2, <4>1
    <3> HIDE DEF shown
    <3> QED
      BY <3>1
  <2>5. Partition => RestOf(shown).count > 0
    <3>1. shown \in SUBSET Rows
      BY TopDirsIn
    <3> HIDE DEF shown
    <3>2. ASSUME Partition PROVE RestOf(shown).count > 0
      <4> DEFINE r == SumRows(Rows \ shown, "count")
      <4>1. RestOf(shown).count = 1 + r /\ r \in Nat
        BY <3>1, <3>2, RestOfPartition
      <4> HIDE DEF r
      <4> QED
        BY <4>1
    <3> QED
      BY <3>2
  <2>6. shown = IF key = "files" THEN byFiles ELSE bySize
    BY <2>1
  <2>7. /\ EntryRows(top, key).rest = RestOf(shown)
        /\ EntryRows(top, key).showRest <=>
             /\ hidden > 0 /\ (RestOf(shown).bytes > 0 \/ RestOf(shown).count > 0)
             /\ key # "density" /\ Partition
        /\ EntryRows(top, key).sayHidden = SaysHidden(hidden, EntryRows(top, key).showRest, key)
    BY DEF EntryRows
  <2>8. /\ TopHidden(top).count = OtherCount(bySize)
        /\ TopHidden(top).known <=> OtherCount(bySize) > 0 /\ Partition
        /\ TopHidden(top).size = RestOf(bySize) /\ TopHidden(top).files = RestOf(byFiles)
    BY DEF TopHidden
  <2> HIDE DEF shown, bySize, byFiles, key
  <2>9. EntryRows(top, key).showRest <=> OtherCount(shown) > 0 /\ Partition
    BY <1>5, <2>4, <2>5, <2>7
  <2>10. EntryRows(top, key).showRest \/ EntryRows(top, key).sayHidden <=> OtherCount(shown) > 0
    BY <1>5, <2>4, <2>7, <2>9 DEF SaysHidden
  <2>11. EntryRows(top, key).rest = (IF key = "files" THEN TopHidden(top).files ELSE TopHidden(top).size)
    BY <2>6, <2>7, <2>8
  <2>12. OtherCount(shown) = OtherCount(bySize)
    BY <1>2, <2>2, <2>3
  <2> HIDE DEF hidden, all
  <2>13. TopHidden(top).count = OtherCount(shown)
         /\ (EntryRows(top, key).showRest <=> TopHidden(top).known)
    BY <2>8, <2>9, <2>12
  <2> QED
    BY <1>2, <1>3, <1>5, <2>10, <2>11, <2>13 DEF key, shown, all
<1> QED
  BY <1>4, <1>5

\* No row is hidden without a word, and the JSON document has the figures the
\* table has (report.py:1416-1428, 1552-1625, 3696-3826).
THEOREM NothingEverHiddenUnsaid == Spec => []NothingHiddenUnsaid
  BY TablesHoldTogether, Unsaid, PTL

-----------------------------------------------------------------------------
(* The re-stat.                                                            *)

\* What a SettleCheck is.
Checks ==
    [ran : BOOLEAN, gap : Nat, sampledOf : Nat, checked : Nat,
     gone : Nat, goneBytes : Nat, before : Nat, after : Nat]

\* The SettleCheck before the re-stat.
NoCheck ==
    [ran |-> FALSE, gap |-> 0, sampledOf |-> 0, checked |-> 0,
     gone |-> 0, goneBytes |-> 0, before |-> 0, after |-> 0]

\* What the walk charged for the first n files of the sample.
ChargedFor(n) == SumOver([i \in 1..Len(res.sample) |-> Attr[res.sample[i]].blocks], 1..n)

\* The check accounts for the sample so far, one way or the other.
Accounted ==
    /\ pos <= Len(res.sample) + 1
    /\ chk.checked + chk.gone = pos - 1
    /\ chk.before + chk.goneBytes = ChargedFor(pos - 1)
    /\ IF flags.count THEN ~chk.ran
       ELSE chk.sampledOf = Population /\ (res.sample = <<>> => chk.gap = 0)

\* The invariant of the re-stat.
SettleInv ==
    /\ pos \in Nat /\ chk \in Checks /\ blocks \in [Inos -> Nat]
    /\ chk.gone = 0 => chk.goneBytes = 0
    /\ ~published => pos = 0
    /\ pos = 0 => chk = NoCheck
    /\ pos > 0 => Accounted
    /\ \A f \in Files : Attr[f].inode \notin moved => blocks[Attr[f].inode] = Attr[f].blocks
    /\ chk.after = chk.before \/ \E f \in Sampled : Attr[f].inode \in moved

\* The fields of a check have their types.
LEMMA CheckFields ==
    ASSUME NEW c \in Checks
    PROVE  /\ c.ran \in BOOLEAN /\ c.gap \in Nat /\ c.sampledOf \in Nat /\ c.checked \in Nat
           /\ c.gone \in Nat /\ c.goneBytes \in Nat /\ c.before \in Nat /\ c.after \in Nat
  BY DEF Checks

\* Before the re-stat a check has measured nothing.
LEMMA NoCheckFields ==
    /\ NoCheck \in Checks /\ ~NoCheck.ran /\ NoCheck.checked = 0 /\ NoCheck.gone = 0
    /\ NoCheck.goneBytes = 0 /\ NoCheck.before = 0 /\ NoCheck.after = 0
  BY DEF NoCheck, Checks

\* The sample is of files, and is whole.
LEMMA SampleFacts ==
    ASSUME TallyInv
    PROVE  /\ res.sample \in Seq(Files) /\ Len(res.sample) \in Nat
           /\ Sampled = {res.sample[i] : i \in 1..Len(res.sample)} /\ Sampled \subseteq Files
           /\ Population = RecentCount(res.table) /\ Population \in Nat
           /\ SampleWhole(res.sample, res.table)
<1>1. res.sample \in Seq(Files) /\ res.table \in Tables
  BY ResultFields DEF TallyInv, Typed
<1>2. Population = RecentCount(res.table)
  BY DEF Population, Count, RecentCount
<1>3. Population \in Nat
  BY <1>1, <1>2, RecentTypes
<1>4. SampleWhole(res.sample, res.table)
  BY DEF TallyInv
<1>5. Sampled = {res.sample[i] : i \in 1..Len(res.sample)}
  BY <1>1 DEF Sampled, ToSet
<1> QED
  BY <1>1, <1>2, <1>3, <1>4, <1>5

\* One more file of the sample adds what it was charged with.
LEMMA ChargedTypes ==
    ASSUME TallyInv, NEW n \in 0..Len(res.sample)
    PROVE  /\ ChargedFor(n) \in Nat /\ ChargedFor(0) = 0
           /\ n < Len(res.sample) =>
                ChargedFor(n + 1) = ChargedFor(n) + Attr[res.sample[n + 1]].blocks
<1> DEFINE w == [i \in 1..Len(res.sample) |-> Attr[res.sample[i]].blocks]
           m == Len(res.sample)
<1>1. m \in Nat /\ \A i \in 1..m : res.sample[i] \in Files
  BY SampleFacts
<1>2. \A i \in 1..m : w[i] \in Nat /\ w[i] = Attr[res.sample[i]].blocks
  BY <1>1, FigureTypes, RootFacts
<1>3. \A i \in Nat : ChargedFor(i) = SumOver(w, 1..i)
  BY DEF ChargedFor
<1> HIDE DEF w
<1>4. n \in Nat /\ 1..n \subseteq 1..m /\ IsFiniteSet(1..n)
  BY <1>1, FS_Interval
<1>5. SumOver(w, 1..n) \in Nat
  <2>1. \A i \in 1..n : w[i] \in Nat
    BY <1>2, <1>4
  <2> QED
    BY <1>4, <2>1, SumNat
<1>6. SumOver(w, 1..0) = 0
  <2>1. 1..0 = {}
    OBVIOUS
  <2> QED
    BY <2>1, SumEmpty
<1>7. ASSUME n < m PROVE SumOver(w, 1..(n + 1)) = SumOver(w, 1..n) + w[n + 1]
  <2> DEFINE S == 1..n
             x == n + 1
  <2>1. x \notin S /\ 1..(n + 1) = S \cup {x} /\ \A i \in S \cup {x} : w[i] \in Nat
    BY <1>1, <1>2, <1>4, <1>7
  <2>2. IsFiniteSet(S) /\ w[x] \in Nat /\ SumOver(w, S) \in Nat
    BY <1>4, <1>5, <2>1
  <2> HIDE DEF S, x
  <2>3. SumOver(w, S \cup {x}) = w[x] + SumOver(w, S)
    BY <2>1, <2>2, SumAdd
  <2>4. w[x] + SumOver(w, S) = SumOver(w, S) + w[x]
    BY <2>2
  <2>5. SumOver(w, 1..(n + 1)) = SumOver(w, S) + w[x]
    BY <2>1, <2>3, <2>4
  <2> QED
    BY <2>5 DEF S, x
<1> QED
  BY <1>1, <1>2, <1>3, <1>4, <1>5, <1>6, <1>7

-----------------------------------------------------------------------------
(* It holds at the start, and every step keeps it.                         *)

\* An inode has what any of its names was charged with.
LEMMA InodeBlocks ==
    ASSUME NEW i \in Inos
    PROVE  /\ InoBlocks(i) \in Nat
           /\ \A f \in Files : Attr[f].inode = i => InoBlocks(i) = Attr[f].blocks
<1>1. PICK f \in Files : Attr[f].inode = i
  BY DEF Inos
<1>2. Attr[f].blocks \in Allocations
  BY DEF Allocations
<1>3. InoBlocks(i) \in Allocations /\ \E g \in Files : Attr[g].inode = i /\ Attr[g].blocks = InoBlocks(i)
  BY <1>1, <1>2 DEF InoBlocks
<1>4. Allocations \subseteq Nat
  BY FigureTypes, RootFacts DEF Allocations
<1> QED
  BY <1>3, <1>4, SettleAssumption

\* The invariant of the re-stat holds at the start.
LEMMA SettleStarts == SettleInit => SettleInv
<1> SUFFICES ASSUME SettleInit PROVE SettleInv
  OBVIOUS
<1>1. pos = 0 /\ chk = NoCheck /\ moved = {} /\ blocks = [i \in Inos |-> InoBlocks(i)]
  BY DEF SettleInit, NoCheck
<1>2. blocks \in [Inos -> Nat]
  BY <1>1, InodeBlocks
<1>3. \A f \in Files : blocks[Attr[f].inode] = Attr[f].blocks
  BY <1>1, InodeBlocks DEF Inos
<1> QED
  BY <1>1, <1>2, <1>3, NoCheckFields DEF SettleInv

\* The walk is over when its result is published.
LEMMA WalkOver ==
    ASSUME TallyInv, Walking
    PROVE  ~published
<1>1. published => \A w \in Workers : merged[w]
  BY DEF TallyInv
<1>2. \A w \in Workers : ~((Scan(w) \/ Merge(w)) /\ merged[w])
  BY DEF Scan, Merge
<1>3. Publish => ~published
  BY DEF Publish
<1> QED
  BY <1>1, <1>2, <1>3 DEF Walking

\* A step of the walk keeps it.
LEMMA WalkingKeeps ==
    ASSUME TallyInv, SettleInv, Walking, UNCHANGED settleVars
    PROVE  SettleInv'
<1>1. ~published
  BY WalkOver
<1>2. pos = 0 /\ chk = NoCheck
  BY <1>1 DEF SettleInv
<1>3. pos' = pos /\ chk' = chk /\ blocks' = blocks /\ moved' = moved
  BY DEF settleVars, treeVars
<1> QED
  BY <1>2, <1>3, NoCheckFields DEF SettleInv

\* With the result as it is, what the check has to account for is too.
LEMMA SameResult ==
    ASSUME UNCHANGED vars
    PROVE  /\ res' = res /\ published' = published /\ flags' = flags /\ Sampled' = Sampled
           /\ Population' = Population
           /\ (pos' = pos /\ chk' = chk => (Accounted' <=> Accounted))
<1>1. res' = res /\ published' = published /\ flags' = flags
  BY DEF vars
<1>2. Sampled' = Sampled /\ Population' = Population
  BY <1>1 DEF Sampled, Population, Count
<1> QED
  BY <1>1, <1>2 DEF Accounted, ChargedFor

\* A file whose allocation changes keeps it.
LEMMA ReallocateKeeps ==
    ASSUME TallyInv, SettleInv, Reallocate
    PROVE  SettleInv'
<1>1. PICK f \in Sampled \ removed, b \in Allocations :
        /\ b # blocks[Attr[f].inode]
        /\ blocks' = [blocks EXCEPT ![Attr[f].inode] = b]
        /\ moved' = moved \cup {Attr[f].inode}
  BY Zenon DEF Reallocate
<1>2. UNCHANGED vars /\ pos' = pos /\ chk' = chk
  BY DEF Reallocate
<1>3. b \in Nat
  BY FigureTypes, RootFacts DEF Allocations
<1>4. blocks' \in [Inos -> Nat]
  BY <1>1, <1>3 DEF SettleInv
<1>5. \A g \in Files : Attr[g].inode \notin moved' => blocks'[Attr[g].inode] = Attr[g].blocks
  BY <1>1 DEF SettleInv, Inos
<1>6. /\ published' = published /\ Sampled' = Sampled /\ moved \subseteq moved'
      /\ (Accounted' <=> Accounted)
  BY <1>1, <1>2, SameResult
<1> QED
  BY <1>2, <1>4, <1>5, <1>6 DEF SettleInv

\* A file that goes keeps it.
LEMMA UnlinkKeeps ==
    ASSUME SettleInv, Unlink
    PROVE  SettleInv'
<1>1. UNCHANGED vars /\ pos' = pos /\ chk' = chk /\ blocks' = blocks /\ moved' = moved
  BY DEF Unlink
<1>2. published' = published /\ Sampled' = Sampled /\ (Accounted' <=> Accounted)
  BY <1>1, SameResult
<1> QED
  BY <1>1, <1>2 DEF SettleInv

\* The start of the re-stat keeps it.
LEMMA StartKeeps ==
    ASSUME TallyInv, SettleInv, NEW wait \in Waits, StartRecheck(wait)
    PROVE  SettleInv'
<1>1. /\ published /\ pos = 0 /\ pos' = 1 /\ UNCHANGED vars
      /\ blocks' = blocks /\ moved' = moved
      /\ chk' = IF flags.count THEN chk
                ELSE [chk EXCEPT !.ran = TRUE, !.sampledOf = Population,
                                 !.gap = IF res.sample = <<>> THEN 0 ELSE wait]
  BY DEF StartRecheck, treeVars
<1>2. chk = NoCheck
  BY <1>1 DEF SettleInv
<1> DEFINE gap == IF res.sample = <<>> THEN 0 ELSE wait
<1>3. gap \in Nat /\ Population \in Nat
  BY SampleFacts, SettleAssumption
<1> HIDE DEF gap
<1>4. /\ chk' \in Checks
      /\ IF flags.count THEN ~chk'.ran ELSE chk'.sampledOf = Population /\ chk'.gap = gap
      /\ chk'.checked = 0 /\ chk'.gone = 0 /\ chk'.goneBytes = 0
      /\ chk'.before = 0 /\ chk'.after = 0
  <2>1. CASE flags.count
    BY <1>1, <1>2, <2>1, NoCheckFields
  <2>2. CASE ~flags.count
    BY <1>1, <1>2, <1>3, <2>2 DEF NoCheck, Checks, gap
  <2> QED
    BY <2>1, <2>2
<1>5. ChargedFor(0) = 0 /\ Len(res.sample) \in Nat
  <2>1. 0 \in 0..Len(res.sample) /\ Len(res.sample) \in Nat
    BY SampleFacts
  <2> QED
    BY <2>1, ChargedTypes
<1>6. res' = res /\ published' = published /\ flags' = flags /\ Population' = Population
  BY <1>1, SameResult
<1>7. ChargedFor(pos - 1)' = 0
  <2>1. ChargedFor(0)' = ChargedFor(0)
    BY <1>6 DEF ChargedFor
  <2> QED
    BY <1>1, <1>5, <2>1
<1>8. Accounted'
  BY <1>1, <1>4, <1>5, <1>6, <1>7 DEF Accounted, gap
<1> QED
  BY <1>1, <1>4, <1>6, <1>8 DEF SettleInv

\* What a file that is gone adds to the check.
LEMMA GoneFields ==
    ASSUME NEW c \in Checks, NEW b \in Nat, NEW d, d = GoneFile(c, b)
    PROVE  /\ d \in Checks
           /\ d.gone = c.gone + 1 /\ d.goneBytes = c.goneBytes + b
           /\ d.checked = c.checked /\ d.before = c.before /\ d.after = c.after
           /\ d.ran = c.ran /\ d.sampledOf = c.sampledOf /\ d.gap = c.gap
<1>1. c.gone + 1 \in Nat /\ c.goneBytes + b \in Nat
  BY CheckFields
<1> DEFINE x == c.gone + 1
           y == c.goneBytes + b
<1>2. d = [c EXCEPT !.gone = x, !.goneBytes = y]
  BY DEF GoneFile
<1> HIDE DEF x, y
<1>3. d \in Checks /\ d.gone = x /\ d.goneBytes = y
      /\ d.checked = c.checked /\ d.before = c.before /\ d.after = c.after
      /\ d.ran = c.ran /\ d.sampledOf = c.sampledOf /\ d.gap = c.gap
  <2>1. x \in Nat /\ y \in Nat
    BY <1>1 DEF x, y
  <2> QED
    BY <1>2, <2>1 DEF Checks
<1> QED
  BY <1>3 DEF x, y

\* What a file that is there adds to the check.
MeasuredFile(c, then, now) ==
    [c EXCEPT !.checked = @ + 1, !.before = @ + then, !.after = @ + now]

\* The same, field by field.
MeasuredGives(c, b, a, d) ==
    /\ d \in Checks
    /\ d.checked = c.checked + 1 /\ d.before = c.before + b /\ d.after = c.after + a
    /\ d.gone = c.gone /\ d.goneBytes = c.goneBytes
    /\ d.ran = c.ran /\ d.sampledOf = c.sampledOf /\ d.gap = c.gap

\* A file that is there adds that.
LEMMA MeasuredFields ==
    ASSUME NEW c \in Checks, NEW b \in Nat, NEW a \in Nat
    PROVE  MeasuredGives(c, b, a, MeasuredFile(c, b, a))
<1> DEFINE d == MeasuredFile(c, b, a)
<1>1. c.checked + 1 \in Nat /\ c.before + b \in Nat /\ c.after + a \in Nat
  BY CheckFields
<1> DEFINE x == c.checked + 1
           y == c.before + b
           z == c.after + a
<1>2. d = [c EXCEPT !.checked = x, !.before = y, !.after = z]
  BY DEF MeasuredFile
<1> HIDE DEF x, y, z
<1>3. d \in Checks /\ d.checked = x /\ d.before = y /\ d.after = z
      /\ d.gone = c.gone /\ d.goneBytes = c.goneBytes
      /\ d.ran = c.ran /\ d.sampledOf = c.sampledOf /\ d.gap = c.gap
  <2>1. x \in Nat /\ y \in Nat /\ z \in Nat
    BY <1>1 DEF x, y, z
  <2> QED
    BY <1>2, <2>1 DEF Checks
<1> QED
  BY <1>3 DEF x, y, z, MeasuredGives

\* The re-stat of one file keeps it.
LEMMA RestatKeeps ==
    ASSUME TallyInv, SettleInv, Restat
    PROVE  SettleInv'
<1> DEFINE f == res.sample[pos]
           m == Len(res.sample)
<1>1. /\ pos \in DOMAIN res.sample /\ pos' = pos + 1 /\ UNCHANGED vars
      /\ blocks' = blocks /\ moved' = moved
      /\ chk' = IF f \in removed THEN GoneFile(chk, Attr[f].blocks)
                ELSE [chk EXCEPT !.checked = @ + 1,
                                 !.before = @ + Attr[f].blocks,
                                 !.after = @ + blocks[Attr[f].inode]]
  BY DEF Restat, treeVars
<1>2. /\ m \in Nat /\ pos \in 1..m /\ f \in Files /\ f \in Sampled
      /\ Sampled = {res.sample[i] : i \in 1..m}
  BY <1>1, SampleFacts
<1>3. /\ pos \in Nat /\ chk \in Checks /\ blocks \in [Inos -> Nat] /\ Accounted /\ published
      /\ Attr[f].inode \notin moved => blocks[Attr[f].inode] = Attr[f].blocks
      /\ chk.after = chk.before \/ \E g \in Sampled : Attr[g].inode \in moved
  BY <1>2 DEF SettleInv
<1> DEFINE then == Attr[f].blocks
           now == blocks[Attr[f].inode]
<1>4. then \in Nat /\ now \in Nat
  BY <1>2, <1>3, FigureTypes, RootFacts DEF Inos
<1>5. /\ res' = res /\ published' = published /\ flags' = flags /\ Population' = Population
      /\ Sampled' = Sampled
  BY <1>1, SameResult
<1>6. /\ pos - 1 \in 0..m /\ pos - 1 < m /\ (pos - 1) + 1 = pos
  BY <1>2
<1>7. /\ ChargedFor(pos - 1) \in Nat
      /\ ChargedFor(pos) = ChargedFor(pos - 1) + then
  <2> DEFINE n == pos - 1
  <2>1. n \in 0..m /\ n < m /\ n + 1 = pos
    BY <1>6
  <2> HIDE DEF n
  <2>2. ChargedFor(n) \in Nat /\ ChargedFor(n + 1) = ChargedFor(n) + Attr[res.sample[n + 1]].blocks
    BY <2>1, ChargedTypes
  <2>3. ChargedFor(n) \in Nat /\ ChargedFor(pos) = ChargedFor(n) + then
    BY <2>1, <2>2
  <2> QED
    BY <2>3 DEF n
<1>8. /\ chk.checked + chk.gone = pos - 1 /\ chk.before + chk.goneBytes = ChargedFor(pos - 1)
      /\ IF flags.count THEN ~chk.ran
         ELSE chk.sampledOf = Population /\ (res.sample = <<>> => chk.gap = 0)
  BY <1>3 DEF Accounted
<1>9. ChargedFor(pos - 1)' = ChargedFor(pos)
  <2>1. pos' - 1 = pos
    BY <1>1, <1>2
  <2> QED
    BY <1>5, <2>1 DEF ChargedFor
<1>10. /\ chk.checked \in Nat /\ chk.gone \in Nat /\ chk.goneBytes \in Nat /\ chk.before \in Nat
       /\ chk.after \in Nat
  BY <1>3, CheckFields
<1> HIDE DEF then, now, f
<1>11. CASE f \in removed
  <2>1. chk' = GoneFile(chk, then)
    BY <1>1, <1>11 DEF then, f
  <2>2. /\ chk' \in Checks
        /\ chk'.gone = chk.gone + 1 /\ chk'.goneBytes = chk.goneBytes + then
        /\ chk'.checked = chk.checked /\ chk'.before = chk.before /\ chk'.after = chk.after
        /\ chk'.ran = chk.ran /\ chk'.sampledOf = chk.sampledOf /\ chk'.gap = chk.gap
    BY <1>3, <1>4, <2>1, GoneFields
  <2>3. chk'.checked + chk'.gone = pos /\ chk'.before + chk'.goneBytes = ChargedFor(pos)
    <3> DEFINE old == ChargedFor(pos - 1)
               new == ChargedFor(pos)
    <3>1. /\ chk.before + chk.goneBytes = old /\ new = old + then /\ old \in Nat
          /\ chk.checked + chk.gone = pos - 1 /\ pos \in Nat
      BY <1>2, <1>7, <1>8
    <3> HIDE DEF old, new
    <3>2. chk'.checked + chk'.gone = pos
      BY <1>10, <2>2, <3>1
    <3>3. chk'.before + chk'.goneBytes = new
      BY <1>4, <1>10, <2>2, <3>1
    <3> QED
      BY <3>2, <3>3 DEF new
  <2>4. Accounted'
    BY <1>1, <1>2, <1>5, <1>8, <1>9, <2>2, <2>3 DEF Accounted
  <2>5. chk'.gone # 0
    BY <1>10, <2>2
  <2> QED
    BY <1>1, <1>2, <1>3, <1>5, <2>2, <2>4, <2>5 DEF SettleInv
<1>12. CASE f \notin removed
  <2>1. chk' = MeasuredFile(chk, then, now)
    BY <1>1, <1>12 DEF then, now, f, MeasuredFile
  <2>2. /\ chk' \in Checks
        /\ chk'.checked = chk.checked + 1 /\ chk'.before = chk.before + then
        /\ chk'.after = chk.after + now
        /\ chk'.gone = chk.gone /\ chk'.goneBytes = chk.goneBytes
        /\ chk'.ran = chk.ran /\ chk'.sampledOf = chk.sampledOf /\ chk'.gap = chk.gap
    <3>1. MeasuredGives(chk, then, now, chk')
      BY <1>3, <1>4, <2>1, MeasuredFields
    <3> QED
      BY <3>1 DEF MeasuredGives
  <2>3. chk'.checked + chk'.gone = pos /\ chk'.before + chk'.goneBytes = ChargedFor(pos)
    <3> DEFINE old == ChargedFor(pos - 1)
               new == ChargedFor(pos)
    <3>1. /\ chk.before + chk.goneBytes = old /\ new = old + then /\ old \in Nat
          /\ chk.checked + chk.gone = pos - 1 /\ pos \in Nat
      BY <1>2, <1>7, <1>8
    <3> HIDE DEF old, new
    <3>2. chk'.checked + chk'.gone = pos
      BY <1>10, <2>2, <3>1
    <3>3. chk'.before + chk'.goneBytes = new
      BY <1>4, <1>10, <2>2, <3>1
    <3> QED
      BY <3>2, <3>3 DEF new
  <2>4. Accounted'
    BY <1>1, <1>2, <1>5, <1>8, <1>9, <2>2, <2>3 DEF Accounted
  <2>5. chk'.after = chk'.before \/ \E g \in Sampled : Attr[g].inode \in moved
    <3>1. CASE Attr[f].inode \in moved
      BY <1>2, <3>1
    <3>2. CASE Attr[f].inode \notin moved
      <4>1. now = then
        BY <1>3, <3>2 DEF now, then
      <4> QED
        BY <1>3, <2>2, <4>1
    <3> QED
      BY <3>1, <3>2
  <2> QED
    BY <1>1, <1>2, <1>3, <1>5, <1>10, <2>2, <2>4, <2>5 DEF SettleInv
<1> QED
  BY <1>11, <1>12

\* Every step keeps the invariant of the re-stat.
LEMMA SettleSteps ==
    ASSUME TallyInv, SettleInv, [Next]_<<vars, settleVars>>
    PROVE  SettleInv'
<1>1. CASE Walking /\ UNCHANGED settleVars
  BY <1>1, WalkingKeeps
<1>2. CASE Rechecking
  <2>1. CASE Reallocate
    BY <2>1, ReallocateKeeps
  <2>2. CASE Unlink
    BY <2>2, UnlinkKeeps
  <2>3. CASE \E wait \in Waits : StartRecheck(wait)
    BY <2>3, StartKeeps
  <2>4. CASE Restat
    BY <2>4, RestatKeeps
  <2> QED
    BY <1>2, <2>1, <2>2, <2>3, <2>4 DEF Rechecking
<1>3. CASE UNCHANGED <<vars, settleVars>>
  <2>1. UNCHANGED vars /\ pos' = pos /\ chk' = chk /\ blocks' = blocks /\ moved' = moved
    BY <1>3 DEF settleVars, treeVars
  <2>2. published' = published /\ Sampled' = Sampled /\ (Accounted' <=> Accounted)
    BY <2>1, SameResult
  <2> QED
    BY <2>1, <2>2 DEF SettleInv
<1> QED
  BY <1>1, <1>2, <1>3 DEF Next

\* The re-stat accounts for every file of the sample once, as measured or as
\* gone, and for what the walk had charged for it (walk.py:2140-2160).
THEOREM SampleAlwaysAccounted == Spec => []SettleInv
<1>1. SettleInit => SettleInv
  BY SettleStarts
<1>2. TallyInv /\ SettleInv /\ [Next]_<<vars, settleVars>> => SettleInv'
  BY SettleSteps
<1> QED
  BY <1>1, <1>2, TablesHoldTogether, PTL DEF Spec

\* DriftIsMovement is part of it.
LEMMA MovementIsReal == SettleInv => DriftIsMovement
<1> SUFFICES ASSUME SettleInv, Moved PROVE \E f \in Sampled : Attr[f].inode \in moved
  BY DEF DriftIsMovement
<1>1. chk.after \in Nat /\ chk.before \in Nat
  BY CheckFields DEF SettleInv
<1>2. chk.after # chk.before
  BY <1>1 DEF Moved, Drift
<1> QED
  BY <1>2 DEF SettleInv

\* The check reports movement only if an inode of the sample has moved
\* (walk.py:1967-1978).
THEOREM DriftIsAlwaysMovement == Spec => []DriftIsMovement
  BY SampleAlwaysAccounted, MovementIsReal, PTL

\* NullIsMeasured follows: a gap that counts as long was a wait for some sample.
LEMMA NullMeasured == TallyInv /\ SettleInv => NullIsMeasured
<1> SUFFICES ASSUME TallyInv, SettleInv, Rechecked, Conclusive, ~Moved
             PROVE  /\ chk.checked > 0
                    /\ chk.gone = 0 /\ ~SampledOnly => chk.after = Bytes("recent") + Bytes("touched")
  BY DEF NullIsMeasured
<1> DEFINE m == Len(res.sample)
<1>1. /\ m \in Nat /\ SampleWhole(res.sample, res.table)
      /\ Population = RecentCount(res.table) /\ Population \in Nat
  BY SampleFacts
<1>2. chk \in Checks /\ pos \in Nat /\ pos > m
  BY DEF SettleInv, Rechecked
<1>3. /\ chk.checked \in Nat /\ chk.gone \in Nat /\ chk.goneBytes \in Nat /\ chk.before \in Nat
      /\ chk.after \in Nat /\ chk.gap \in Nat /\ chk.sampledOf \in Nat
  BY <1>2, CheckFields
<1>4. Accounted
  BY <1>1, <1>2 DEF SettleInv
<1>5. /\ pos = m + 1 /\ chk.checked + chk.gone = m
      /\ chk.before + chk.goneBytes = ChargedFor(m)
  <2>1. pos = m + 1
    BY <1>1, <1>2, <1>4 DEF Accounted
  <2>2. pos - 1 = m
    BY <1>1, <2>1
  <2> QED
    BY <1>4, <2>1, <2>2 DEF Accounted
<1>6. /\ chk.ran /\ chk.gap >= MinGap /\ ~MeasuredNothing
  BY DEF Conclusive
<1>7. chk.sampledOf = Population /\ (res.sample = <<>> => chk.gap = 0)
  BY <1>4, <1>6 DEF Accounted
<1>8. m > 0
  <2>1. res.sample # <<>>
    BY <1>3, <1>6, <1>7, SettleAssumption
  <2>2. m # 0
    BY <2>1, SampleFacts
  <2> QED
    BY <1>1, <2>2
<1>9. chk.checked > 0
  BY <1>1, <1>3, <1>5, <1>6, <1>8 DEF MeasuredNothing
<1>10. ASSUME chk.gone = 0, ~SampledOnly PROVE chk.after = Bytes("recent") + Bytes("touched")
  <2>1. chk.checked = m /\ Population <= m
    BY <1>1, <1>3, <1>5, <1>7, <1>10 DEF SampledOnly
  <2>2. m = Population
    <3>1. m = IF SampleCap <= Population THEN SampleCap ELSE Population
      BY <1>1 DEF SampleWhole
    <3>2. SampleCap \in Nat
      BY CapNat
    <3> HIDE DEF m
    <3> QED
      BY <1>1, <2>1, <3>1, <3>2
  <2>3. SampleBlocks(res.sample) = RecentBytes(res.table)
    BY <1>1, <2>2 DEF SampleWhole
  <2>4. ChargedFor(m) = SampleBlocks(res.sample)
    BY DEF ChargedFor, SampleBlocks
  <2>5. chk.goneBytes = 0
    BY <1>10 DEF SettleInv
  <2>6. chk.after = chk.before
    BY <1>3 DEF Moved, Drift
  <2>7. RecentBytes(res.table) = Bytes("recent") + Bytes("touched")
    BY DEF RecentBytes, Bytes
  <2> QED
    BY <1>3, <1>5, <2>3, <2>4, <2>5, <2>6, <2>7
<1> QED
  BY <1>9, <1>10

\* A null result that may be believed was measured, and if nothing was left out
\* it is about all that was recent (walk.py:1989-2036, 2081-2088).
THEOREM NullIsAlwaysMeasured == Spec => []NullIsMeasured
  BY TablesHoldTogether, SampleAlwaysAccounted, NullMeasured, PTL

-----------------------------------------------------------------------------
(* The verdicts.                                                           *)

\* Without anything recent there is nothing to be said of the total.
LEMMA NothingRecent ==
    ASSUME TallyInv, SettleInv, Population = 0
    PROVE  /\ ~Moved /\ ~Freed /\ Unlanded = 0 /\ ~SettlingIsMaterial
<1>1. /\ res.table \in Tables /\ QuietRecent(res.table) /\ SampleWhole(res.sample, res.table)
  BY ResultFields DEF TallyInv, Typed
<1>2. \A k \in {<<"recent">>, <<"touched">>} :
        res.table[k].count \in Nat /\ res.table[k].bytes \in Nat /\ res.table[k].apparent \in Nat
  BY <1>1, RecentTypes
<1>3. res.table[<<"recent">>].count = 0 /\ res.table[<<"touched">>].count = 0
  BY <1>2 DEF Population, Count
<1>4. /\ res.table[<<"recent">>].bytes = 0 /\ res.table[<<"touched">>].bytes = 0
      /\ res.table[<<"recent">>].apparent = 0 /\ res.table[<<"touched">>].apparent = 0
  BY <1>1, <1>3 DEF QuietRecent
<1>5. Unlanded = 0
  <2>1. RecentApparent = 0 /\ RecentSize = 0
    BY <1>4 DEF RecentApparent, RecentSize, Bytes
  <2>2. Max({0, 0}) = 0
    BY MaxOfTwo
  <2>3. RecentApparent - RecentSize = 0
    BY <2>1
  <2> QED
    BY <2>2, <2>3 DEF Unlanded
<1>6. Len(res.sample) = 0
  <2> DEFINE m == Len(res.sample)
  <2>1. Population = RecentCount(res.table) /\ SampleCap \in Nat
    BY SampleFacts, CapNat
  <2>2. m = IF SampleCap <= 0 THEN SampleCap ELSE 0
    BY <1>1, <2>1 DEF SampleWhole
  <2> HIDE DEF m
  <2>3. m = 0
    BY <2>1, <2>2
  <2> QED
    BY <2>3 DEF m
<1>7. chk.after = chk.before /\ chk.gone = 0 /\ chk.goneBytes = 0
  <2>1. CASE pos = 0
    BY <2>1, NoCheckFields DEF SettleInv
  <2>2. CASE pos # 0
    <3>1. Accounted /\ pos \in Nat
      BY <2>2 DEF SettleInv
    <3>2. chk.checked \in Nat /\ chk.gone \in Nat
      BY CheckFields DEF SettleInv
    <3>3. chk.gone = 0
      BY <1>6, <2>2, <3>1, <3>2 DEF Accounted
    <3>4. Sampled = {}
      BY <1>6, SampleFacts
    <3> QED
      BY <3>3, <3>4 DEF SettleInv
  <2> QED
    BY <2>1, <2>2
<1>8. ~Moved
  <2>1. chk.after \in Nat /\ chk.before \in Nat
    BY CheckFields DEF SettleInv
  <2> QED
    BY <1>7, <2>1 DEF Moved, Drift
<1>9. ~Freed
  BY <1>7 DEF Freed
<1>10. ~SettlingIsMaterial
  BY DEF SettlingIsMaterial
<1> QED
  BY <1>5, <1>8, <1>9, <1>10

\* VerdictsAgree follows: the verdicts differ only where something is recent.
LEMMA Agreed == TallyInv /\ SettleInv => VerdictsAgree
<1> SUFFICES ASSUME TallyInv, SettleInv
             PROVE  /\ Settled = TRUE => /\ ~HeadlineIsProvisional /\ ProvisionalNote = "none"
                                         /\ RenderSettle \in {"absent", "settled"}
                    /\ RenderSettle = "settled" => Settled = TRUE
                    /\ HeadlineIsProvisional =>
                          /\ Moved <=> RenderSettle = "moving"
                          /\ ~Moved => ProvisionalNote # "none" /\ RenderSettle # "settled"
  BY DEF VerdictsAgree
<1>1. flags.count => ~Conclusive
  <2>1. flags.count => ~chk.ran
    <3>1. CASE pos = 0
      BY <3>1, NoCheckFields DEF SettleInv
    <3>2. CASE pos # 0
      BY <3>2 DEF SettleInv, Accounted
    <3> QED
      BY <3>1, <3>2
  <2> QED
    BY <2>1 DEF Conclusive
<1>2. flags.count => Settled # TRUE
  BY FiguresAssumption DEF Settled
<1>3. CASE Population = 0
  <2>1. ~Moved /\ ~Freed /\ Unlanded = 0 /\ ~SettlingIsMaterial
    BY <1>3, NothingRecent
  <2>2. RenderSettle = "absent"
    BY <1>3 DEF RenderSettle
  <2>3. ~HeadlineIsProvisional
    BY <2>1 DEF HeadlineIsProvisional
  <2>4. ProvisionalNote = "none"
    BY <2>1, <2>3 DEF ProvisionalNote
  <2> QED
    BY <2>2, <2>3, <2>4
<1>4. CASE Population # 0
  <2>1. Settled = TRUE => ~flags.count /\ Conclusive /\ ~Moved /\ ~Freed
    BY <1>2, <1>4, FiguresAssumption DEF Settled
  <2>2. ~flags.count /\ Conclusive /\ ~Moved /\ ~Freed => Settled = TRUE
    BY <1>4 DEF Settled
  <2>3. RenderSettle = IF ~Moved /\ ~SettlingIsMaterial THEN SettleLine ELSE SettleSection
    BY <1>4 DEF RenderSettle
  <2>4. /\ Moved => RenderSettle = "moving"
        /\ ~Moved => RenderSettle # "moving"
        /\ RenderSettle = "settled" <=> ~Moved /\ Conclusive /\ ~Freed
    BY <2>3 DEF SettleLine, SettleSection
  <2>5. Conclusive /\ ~Moved /\ ~Freed => ~HeadlineIsProvisional
    BY DEF HeadlineIsProvisional
  <2>6. Conclusive /\ ~Moved /\ ~Freed => ProvisionalNote = "none"
    BY <2>5 DEF ProvisionalNote
  <2>7. HeadlineIsProvisional /\ ~Moved => ProvisionalNote # "none"
    BY DEF ProvisionalNote
  <2> QED
    BY <1>1, <2>1, <2>2, <2>4, <2>5, <2>6, <2>7
<1> QED
  BY <1>3, <1>4

\* No view calls a total settled that another calls provisional, and none that
\* is provisional goes without a word (report.py:2580-2853, 3210-3355,
\* 4196-4251).
THEOREM VerdictsAlwaysAgree == Spec => []VerdictsAgree
  BY TablesHoldTogether, SampleAlwaysAccounted, Agreed, PTL
=============================================================================

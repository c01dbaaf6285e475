------------------------------- MODULE Settle -------------------------------
(***************************************************************************)
(* The re-stat of what was written recently, after the walk (walk.py,      *)
(* `SettleCheck` and `recheck_settling`).                                  *)
(*                                                                         *)
(* Files written inside the settle window go on changing their allocation, *)
(* and may be removed, from the moment the walk has read them; the         *)
(* re-stat visits the walk's sample one file at a time meanwhile.          *)
(***************************************************************************)
EXTENDS Tally, Integers

CONSTANTS
    Waits,             \* --settle-wait, in seconds
    MinGap,            \* MIN_CONCLUSIVE_GAP_S
    MaxChanges         \* bounds how often the tree changes

VARIABLES
    blocks,            \* what each inode has allocated now
    removed,           \* the files that are gone
    moved, changes,    \* the inodes whose allocation has changed since the walk
                       \* read it, and how many changes there were
    chk,               \* the SettleCheck
    pos                \* the re-stat's place in the sample; 0 before it starts

ASSUME SettleAssumption ==
    /\ Waits \subseteq Nat /\ MinGap \in Nat \ {0} /\ MaxChanges \in Nat
    /\ \A f, g \in Files :
          Attr[f].inode = Attr[g].inode => Attr[f].blocks = Attr[g].blocks

treeVars == <<blocks, removed, moved, changes>>
settleVars == <<treeVars, chk, pos>>

Inos == {Attr[f].inode : f \in Files}
InoBlocks(i) == CHOOSE b \in Allocations : \E f \in Files :
                    Attr[f].inode = i /\ Attr[f].blocks = b

SettleInit ==
    /\ Init
    /\ blocks = [i \in Inos |-> InoBlocks(i)]
    /\ removed = {} /\ moved = {} /\ changes = 0
    /\ chk = [ran |-> FALSE, gap |-> 0, sampledOf |-> 0, checked |-> 0,
              gone |-> 0, goneBytes |-> 0, before |-> 0, after |-> 0]
    /\ pos = 0

-----------------------------------------------------------------------------
(* The tree: only what the walk has sampled matters from here on.          *)

Sampled == ToSet(res.sample)

Reallocate ==
    /\ published /\ changes < MaxChanges
    /\ \E f \in Sampled \ removed, b \in Allocations :
          /\ b # blocks[Attr[f].inode]
          /\ blocks' = [blocks EXCEPT ![Attr[f].inode] = b]
          /\ moved' = moved \cup {Attr[f].inode}
    /\ changes' = changes + 1
    /\ UNCHANGED <<removed, chk, pos, vars>>

Unlink ==
    /\ published /\ changes < MaxChanges
    /\ \E f \in Sampled \ removed : removed' = removed \cup {f}
    /\ changes' = changes + 1
    /\ UNCHANGED <<blocks, moved, chk, pos, vars>>

-----------------------------------------------------------------------------
(* The re-stat.                                                            *)

\* What the sample was drawn from: written recently, or its inode touched.
Population == Count("recent") + Count("touched")

\* A count-only walk read no mtime: its check does not run.  Without a sample
\* there is nothing to wait for.
StartRecheck(wait) ==
    /\ published /\ pos = 0
    /\ chk' = IF flags.count THEN chk
              ELSE [chk EXCEPT !.ran = TRUE, !.sampledOf = Population,
                               !.gap = IF res.sample = <<>> THEN 0 ELSE wait]
    /\ pos' = 1
    /\ UNCHANGED <<treeVars, vars>>

\* A file that is gone is left out of one side of the subtraction only.
MutGoneFile(c, then) ==
    [c EXCEPT !.gone = @ + 1, !.goneBytes = @ + then, !.before = @ + then]

\* A file that is gone counts on neither side of the subtraction.
GoneFile(c, then) == [c EXCEPT !.gone = @ + 1, !.goneBytes = @ + then]

Restat ==
    /\ pos \in DOMAIN res.sample
    /\ LET f == res.sample[pos]
       IN  chk' = IF f \in removed THEN GoneFile(chk, Attr[f].blocks)
                  ELSE [chk EXCEPT !.checked = @ + 1,
                                   !.before = @ + Attr[f].blocks,
                                   !.after = @ + blocks[Attr[f].inode]]
    /\ pos' = pos + 1
    /\ UNCHANGED <<treeVars, vars>>

Rechecking ==
    Reallocate \/ Unlink \/ (\E wait \in Waits : StartRecheck(wait)) \/ Restat

Next == (Walking /\ UNCHANGED settleVars) \/ Rechecking
Spec == SettleInit /\ [][Next]_<<vars, settleVars>>

-----------------------------------------------------------------------------
(* What the check says.                                                    *)

Drift == chk.after - chk.before
Moved == Drift # 0
MeasuredNothing == chk.gone > 0 /\ chk.checked = 0

\* A long gap alone makes a null result believable.
MutConclusive == chk.ran /\ (Moved \/ chk.gap >= MinGap)
Conclusive == chk.ran /\ (Moved \/ (chk.gap >= MinGap /\ ~MeasuredNothing))
SampledOnly == chk.sampledOf > chk.checked + chk.gone

Rechecked == pos > Len(res.sample)

-----------------------------------------------------------------------------
(* Properties.                                                             *)

\* The check reports movement only if an inode it measured has moved: a file
\* that was removed is not the tree shrinking (walk.py:1967-1978).
DriftIsMovement == Moved => \E f \in Sampled : Attr[f].inode \in moved

\* A null result that may be believed comes from a measurement, and when nothing
\* was left out of it, what it measured is all the walk had charged as recent
\* (walk.py:1989-2036, 2081-2088).
NullIsMeasured ==
    Rechecked /\ Conclusive /\ ~Moved =>
        /\ chk.checked > 0
        /\ chk.gone = 0 /\ ~SampledOnly =>
              chk.after = Bytes("recent") + Bytes("touched")
=============================================================================

---------------------------- MODULE AuditProof ----------------------------
(***************************************************************************)
(* The safety properties of a run, for any paths, arguments, options and   *)
(* backends: what the exit code says, whose row a path is judged by, and   *)
(* that the report starts on a clear line.                                 *)
(***************************************************************************)
EXTENDS Audit, FiniteSetTheorems, TLAPS

Snaps == {0} \cup DOMAIN BackendMaps

\* A walk of the current place is over, and the place is not yet judged.
Judging == {"join", "clear", "judge"}
\* The places at which no painter is at work.
Quiet == {"parse", "resolve", "sweep", "quota", "deleted", "quota_for", "start",
          "judge", "finish"}

\* Whatever its elements are.
IsSeq(s) == \E S : s \in Seq(S)

Types ==
    /\ opts \in Options
    /\ pc \in Quiet \cup {"walk", "join", "clear", "end"}
    /\ k \in Nat \ {0} /\ unmeasured \in Nat
    /\ rcode \in {EXIT_OK, EXIT_ATTENTION}
    /\ snaps \in [Paths -> Snaps \cup {Unset}]
    /\ IsSeq(found)
    /\ painter \in {"none", "delay", "pause", "writing", "drawn", "ended"}

\* How far a run is that has no exit code yet.
Progress ==
    /\ pc # "end" /\ ~cut
    /\ pc \in {"parse", "resolve"} => paths = <<>>
    /\ pc \in {"parse", "resolve", "sweep"} => k = 1
    /\ pc \notin {"parse", "resolve"} => paths # <<>>
    /\ pc \in {"quota", "deleted"} => Mode = pc
    /\ pc \in {"sweep", "quota_for", "start", "walk"} \cup Judging => Mode = "walk"
    /\ Len(found) = IF pc \in Judging THEN k ELSE k - 1

\* What was recorded is of the paths, in order.
InOrder == \A n \in DOMAIN found : found[n].path = paths[n]

\* Whom the exit code is to tell what, of the places that are done.
Summed ==
    /\ rcode = EXIT_ATTENTION <=>
          \E n \in 1..(k - 1) : WantsAHuman(n) /\ ~found[n].raised
    /\ unmeasured > 0 <=> \E n \in 1..(k - 1) : found[n].raised
    /\ pc \in Judging => /\ found[k].snap = snaps[paths[k]] /\ ~found[k].held
                         /\ found[k].raised => ~found[k].bad

\* A path is remembered with its own row, or was given the answer of one that
\* was read before it.
Remembrance ==
    \A q \in Paths : snaps[q] # Unset /\ HasARow(q) =>
        \/ q \in Maps(snaps[q])
        \/ \E n \in 1..(IF pc \in {"start", "walk"} \cup Judging THEN k ELSE k - 1) :
              ~HasARow(paths[n])

Running == exit = Unset => Progress /\ Summed /\ Remembrance

\* A run with an exit code is over, but for a line to erase.
Ended ==
    exit # Unset => pc = "end" \/ (cut /\ pc \in {"join", "clear"})

\* What is on the line is known to the spinner, or about to be.
Lines ==
    ~overdue =>
        /\ line /\ ~painted => painter = "drawn"
        /\ pc \in Quiet => ~line /\ ~painted /\ painter \in {"none", "ended"}
        /\ pc = "start" => opts.tty
        /\ pc = "walk" /\ ~opts.tty => ~line /\ ~painted /\ painter \in {"none", "ended"}
        /\ pc \in Judging \ {"judge"} => opts.tty
        /\ pc = "clear" => painter = "ended"
        /\ pc = "judge" /\ opts.tty => painter = "ended"
        /\ pc = "finish" /\ opts.tty /\ Mode = "walk" => painter = "ended"

Inductive ==
    /\ Types /\ InOrder /\ Running /\ Ended /\ Lines
    /\ ExitSaysWhatWasFound /\ OwnRowUnlessShared

-----------------------------------------------------------------------------
\* The least of the backends that have a row for the path is one of them.
LEMMA MinIsIn ==
    ASSUME NEW n \in Nat, NEW S \in SUBSET (1..n), S # {}
    PROVE  Min(S) \in S
<1> DEFINE below(x) == {y \in S : y <= x}
           T        == {below(x) : x \in S}
<1>0. S \subseteq 1..n /\ \A y \in S : y \in Int
  OBVIOUS
<1>1. IsFiniteSet(S)
  <2>1. IsFiniteSet(1..n)
    BY FS_Interval
  <2> QED
    BY <1>0, <2>1, FS_Subset
<1>2. IsWellFoundedOn(StrictSubsetOrdering(S), FiniteSubsetsOf(S))
  BY <1>1, FS_StrictSubsetOrderingWellFounded
<1>3. FiniteSubsetsOf(S) = SUBSET S
  BY <1>1, FS_FiniteSubsetsOfFinite
<1>4. PICK A \in T : \A B \in T : ~ (<<B, A>> \in StrictSubsetOrdering(S))
  <2>1. T \subseteq FiniteSubsetsOf(S)
    BY <1>3
  <2>2. T # {}
    <3>1. PICK x \in S : TRUE
      OBVIOUS
    <3>2. below(x) \in T
      BY <3>1
    <3> QED
      BY <3>2
  <2> HIDE DEF T
  <2> QED
    BY <1>2, <2>1, <2>2, WFMin
<1>5. PICK x \in S : A = below(x)
  BY <1>4
<1>6. ASSUME NEW y \in S, y < x PROVE FALSE
  <2>1. \A z \in below(y) : z <= x
    BY <1>0, <1>6
  <2>2. below(y) \subseteq A /\ x \notin below(y) /\ x \in A
    <3>1. \A z \in S : z \in A <=> z <= x
      BY <1>5
    <3>2. x <= x /\ ~(x <= y)
      BY <1>0, <1>6
    <3> QED
      BY <2>1, <3>1, <3>2
  <2>3. <<below(y), A>> \in StrictSubsetOrdering(S)
    BY <2>2, <1>5 DEF StrictSubsetOrdering
  <2>4. below(y) \in T
    BY <1>6
  <2> QED
    BY <1>4, <2>3, <2>4
<1>7. \A y \in S : x <= y
  BY <1>0, <1>6
<1> QED
  BY <1>7 DEF Min

\* Whoever has a row for the path is asked before an answer without one is taken.
LEMMA ReadBestFinds ==
    ASSUME NEW p
    PROVE  /\ ReadBest(p) \in Snaps
           /\ HasARow(p) => p \in Maps(ReadBest(p))
<1> DEFINE own == {n \in Up : p \in BackendMaps[n]}
<1>1. DOMAIN BackendMaps = 1..Len(BackendMaps) /\ Len(BackendMaps) \in Nat
  BY AuditAssumption
<1>2. Up \in SUBSET (1..Len(BackendMaps)) /\ own \in SUBSET (1..Len(BackendMaps))
  BY <1>1 DEF Up
<1>3. CASE own # {}
  <2>1. ReadBest(p) = Min(own)
    BY <1>3 DEF ReadBest
  <2>2. Min(own) \in own
    <3> HIDE DEF own
    <3> QED
      BY <1>1, <1>2, <1>3, MinIsIn
  <2>3. /\ ReadBest(p) \in DOMAIN BackendMaps /\ ReadBest(p) # 0
        /\ p \in BackendMaps[ReadBest(p)]
    BY <1>1, <1>2, <2>1, <2>2
  <2> QED
    BY <2>3 DEF Maps, Snaps
<1>4. CASE own = {}
  <2>1. ~HasARow(p)
    BY <1>4 DEF HasARow
  <2>2. ReadBest(p) = IF Up # {} THEN Min(Up) ELSE 0
    BY <1>4 DEF ReadBest
  <2>3. Up # {} => Min(Up) \in Up
    BY <1>1, <1>2, MinIsIn
  <2> QED
    BY <1>1, <1>2, <2>1, <2>2, <2>3 DEF Snaps
<1> QED
  BY <1>3, <1>4

-----------------------------------------------------------------------------
\* The places of what was found are numbered.
LEMMA Numbered ==
    ASSUME NEW s, IsSeq(s)
    PROVE  Len(s) \in Nat /\ DOMAIN s = 1..Len(s)
  BY DEF IsSeq

\* A record is added to what was found.
LEMMA Recorded ==
    ASSUME NEW s, IsSeq(s), NEW r
    PROVE  /\ IsSeq(Append(s, r))
           /\ Len(s) \in Nat /\ Len(Append(s, r)) = Len(s) + 1
           /\ Append(s, r)[Len(s) + 1] = r
           /\ \A n \in 1..Len(s) : Append(s, r)[n] = s[n]
           /\ DOMAIN s = 1..Len(s) /\ DOMAIN Append(s, r) = 1..(Len(s) + 1)
<1>1. PICK S : s \in Seq(S)
  BY DEF IsSeq
<1>2. s \in Seq(S \cup {r}) /\ r \in S \cup {r}
  BY <1>1
<1> QED
  BY <1>2 DEF IsSeq

\* A record is replaced.
LEMMA Replaced ==
    ASSUME NEW s, IsSeq(s), NEW i \in DOMAIN s, NEW r
    PROVE  /\ IsSeq([s EXCEPT ![i] = r])
           /\ Len([s EXCEPT ![i] = r]) = Len(s)
           /\ DOMAIN [s EXCEPT ![i] = r] = DOMAIN s
<1>1. PICK S : s \in Seq(S)
  BY DEF IsSeq
<1>2. s \in Seq(S \cup {r}) /\ r \in S \cup {r}
  BY <1>1
<1>3. [s EXCEPT ![i] = r] \in Seq(S \cup {r}) /\ Len([s EXCEPT ![i] = r]) = Len(s)
  BY <1>2
<1> QED
  BY <1>3 DEF IsSeq

\* What judging a place does, whichever verdicts it comes to.
LEMMA Judged ==
    ASSUME Judge
    PROVE  \/ /\ found[k].raised /\ found' = found
              /\ rcode' = rcode /\ unmeasured' = unmeasured + 1
           \/ /\ ~found[k].raised /\ unmeasured' = unmeasured
              /\ \E bad, held :
                    found' = [found EXCEPT ![k] = Found(paths[k], snaps[paths[k]], FALSE, bad, held)]
              /\ rcode' = IF \/ found'[k].bad \/ found'[k].held
                             \/ snaps[paths[k]] # Unset /\ NeedsAttention(snaps[paths[k]], paths[k])
                          THEN EXIT_ATTENTION ELSE rcode
<1>1. CASE found[k].raised
  BY <1>1 DEF Judge, Raised
<1>2. CASE ~found[k].raised
  <2>1. PICK moved \in BOOLEAN, verdicts \in SUBSET {"gap", "inconclusive", "closes"} :
          found' = [found EXCEPT ![k] =
                      Found(paths[k], snaps[paths[k]], FALSE,
                            @.bad \/ moved \/ verdicts \cap {"gap", "inconclusive"} # {},
                            Sweeps /\ paths[k] \in scan)]
    BY <1>2 DEF Judge
  <2>2. \E bad, held :
          found' = [found EXCEPT ![k] = Found(paths[k], snaps[paths[k]], FALSE, bad, held)]
    BY <2>1, Zenon
  <2> QED
    BY <1>2, <2>2 DEF Judge
<1> QED
  BY <1>1, <1>2

\* Every variable keeps its type.
LEMMA TypesKept ==
    ASSUME Types, Running, Ended, [Next]_vars
    PROVE  Types'
<1> USE DEF Types, Quiet, input, asked, outcome, drawing, EXIT_OK, EXIT_ATTENTION, EXIT_ERROR
<1>1. CASE Parse
  BY <1>1 DEF Parse
<1>2. CASE Resolve
  BY <1>2 DEF Resolve, Mode
<1>3. CASE CmdQuota
  <2>1. \E r : found' = Append(found, r)
    BY <1>3 DEF CmdQuota, Visited
  <2>2. IsSeq(found')
    BY <2>1, Recorded
  <2> QED
    BY <1>3, <2>2 DEF CmdQuota, Visited, Found, Mode
<1>4. CASE CmdDeleted
  <2>1. \E r : found' = Append(found, r)
    BY <1>4 DEF CmdDeleted, Visited
  <2>2. IsSeq(found')
    BY <2>1, Recorded
  <2> QED
    BY <1>4, <2>2 DEF CmdDeleted, Visited, Found, Mode
<1>5. CASE Scan
  BY <1>5 DEF Scan
<1>6. CASE QuotaFor
  BY <1>6, ReadBestFinds DEF QuotaFor, Remembered
<1>7. CASE StartPainter
  BY <1>7 DEF StartPainter
<1>8. CASE Walk
  <2>1. \E r : found' = Append(found, r)
    BY <1>8 DEF Walk
  <2>2. IsSeq(found')
    BY <2>1, Recorded
  <2> QED
    BY <1>8, <2>2 DEF Walk
<1>9. CASE JoinPainter
  BY <1>9 DEF JoinPainter
<1>10. CASE Clear
  BY <1>10 DEF Clear
<1>11. CASE Judge
  <2>1. pc = "judge" /\ Len(found) = k
    BY <1>11 DEF Judge, Running, Ended, Progress, Judging
  <2>2. k \in DOMAIN found
    BY <2>1, Numbered
  <2>3. found' = found \/ \E r : found' = [found EXCEPT ![k] = r]
    BY <1>11, Judged
  <2>4. IsSeq(found')
    BY <2>2, <2>3, Replaced
  <2>5. unmeasured' \in Nat /\ rcode' \in {EXIT_OK, EXIT_ATTENTION}
    <3>1. /\ unmeasured' \in {unmeasured, unmeasured + 1}
          /\ rcode' = rcode \/ rcode' = EXIT_ATTENTION
      BY <1>11, Judged
    <3> QED
      BY <3>1
  <2>6. /\ k' = k + 1 /\ pc' \in {"quota_for", "finish"}
        /\ UNCHANGED <<opts, snaps, exit, painter>>
    BY <1>11 DEF Judge
  <2> QED
    BY <2>4, <2>5, <2>6
<1>12. CASE Finish
  BY <1>12 DEF Finish
<1>13. CASE BreakOff
  BY <1>13 DEF BreakOff
<1>14. CASE Paint
  BY <1>14 DEF Paint, Awake, Draw, Note
<1>15. CASE UNCHANGED vars
  BY <1>15 DEF vars
<1> QED
  BY <1>1, <1>2, <1>3, <1>4, <1>5, <1>6, <1>7, <1>8, <1>9, <1>10, <1>11, <1>12, <1>13,
     <1>14, <1>15 DEF Next, Main

-----------------------------------------------------------------------------
\* The line is drawn on during a walk only, and erased after it.
LEMMA LinesKept ==
    ASSUME Types, Running, Ended, Lines, [Next]_vars
    PROVE  Lines'
<1> USE DEF Lines, Quiet, Judging, Mode, input, asked, outcome, drawing
<1>1. CASE Parse
  BY <1>1 DEF Parse
<1>2. CASE Resolve
  BY <1>2 DEF Resolve
<1>3. CASE CmdQuota
  BY <1>3 DEF CmdQuota, Visited, Running, Ended, Progress
<1>4. CASE CmdDeleted
  BY <1>4 DEF CmdDeleted, Visited, Running, Ended, Progress
<1>5. CASE Scan
  BY <1>5 DEF Scan
<1>6. CASE QuotaFor
  BY <1>6 DEF QuotaFor
<1>7. CASE StartPainter
  BY <1>7 DEF StartPainter
<1>8. CASE Walk
  BY <1>8 DEF Walk
<1>9. CASE JoinPainter
  BY <1>9 DEF JoinPainter, Joined
<1>10. CASE Clear
  BY <1>10 DEF Clear
<1>11. CASE Judge
  BY <1>11 DEF Judge
<1>12. CASE Finish
  BY <1>12 DEF Finish
<1>13. CASE BreakOff
  BY <1>13 DEF BreakOff
<1>14. CASE Paint
  BY <1>14 DEF Paint, Awake, Draw, Note
<1>15. CASE UNCHANGED vars
  BY <1>15 DEF vars
<1> QED
  BY <1>1, <1>2, <1>3, <1>4, <1>5, <1>6, <1>7, <1>8, <1>9, <1>10, <1>11, <1>12, <1>13,
     <1>14, <1>15 DEF Next, Main

-----------------------------------------------------------------------------
\* A place is visited, or its walk ends: one record is added, of its path.
LEMMA Adds ==
    ASSUME Types, Running, Ended, CmdQuota \/ CmdDeleted \/ Walk
    PROVE  /\ exit = Unset /\ Progress /\ Summed /\ Remembrance
           /\ paths' = paths
           /\ Len(found) = k - 1 /\ Len(found') = k
           /\ DOMAIN found = 1..(k - 1) /\ DOMAIN found' = 1..k
           /\ \A n \in 1..(k - 1) : found'[n] = found[n]
           /\ CmdQuota => found'[k] = Found(paths[k], ReadBest(paths[k]), FALSE, FALSE, FALSE)
           /\ CmdDeleted => \E held : found'[k] = Found(paths[k], Unset, FALSE, FALSE, held)
           /\ Walk => \E raised, bad :
                 /\ raised => ~bad
                 /\ found'[k] = Found(paths[k], snaps[paths[k]], raised, bad, FALSE)
<1>1. pc \in {"quota", "deleted", "walk"} /\ paths' = paths
  BY DEF CmdQuota, CmdDeleted, Walk
<1>2. exit = Unset /\ Progress /\ Summed /\ Remembrance
  BY <1>1 DEF Running, Ended
<1>3. Len(found) = k - 1 /\ k \in Nat \ {0} /\ IsSeq(found)
  BY <1>1, <1>2 DEF Progress, Judging, Types
<1>4. PICK r : found' = Append(found, r)
  BY DEF CmdQuota, CmdDeleted, Walk, Visited
<1>5. /\ Len(found') = k
      /\ DOMAIN found = 1..(k - 1) /\ DOMAIN found' = 1..k
      /\ \A n \in 1..(k - 1) : found'[n] = found[n]
      /\ found'[k] = r
  BY <1>3, <1>4, Recorded
<1>6. ASSUME NEW q PROVE Append(found, q)[k] = q
  BY <1>3, Recorded
<1>7. CmdQuota => found'[k] = Found(paths[k], ReadBest(paths[k]), FALSE, FALSE, FALSE)
  BY <1>6 DEF CmdQuota, Visited
<1>8. CmdDeleted => \E held : found'[k] = Found(paths[k], Unset, FALSE, FALSE, held)
  BY <1>6 DEF CmdDeleted, Visited
<1>9. ASSUME Walk
      PROVE  \E raised, bad :
                /\ raised => ~bad
                /\ found'[k] = Found(paths[k], snaps[paths[k]], raised, bad, FALSE)
  <2>1. PICK raised, bad :
          /\ raised => ~bad
          /\ found' = Append(found, Found(paths[k], snaps[paths[k]], raised, bad, FALSE))
    BY <1>9, Zenon DEF Walk
  <2> QED
    BY <1>6, <2>1
<1> QED
  BY <1>1, <1>2, <1>3, <1>5, <1>7, <1>8, <1>9

\* A place is judged: its record is still of its path and its snapshot.
LEMMA Amends ==
    ASSUME Types, InOrder, Running, Ended, Judge
    PROVE  /\ exit = Unset /\ Progress /\ Summed /\ Remembrance
           /\ paths' = paths /\ snaps' = snaps
           /\ Len(found) = k /\ Len(found') = k
           /\ DOMAIN found = 1..k /\ DOMAIN found' = 1..k
           /\ \A n \in 1..(k - 1) : found'[n] = found[n]
           /\ found'[k].path = paths[k] /\ found'[k].snap = snaps[paths[k]]
           /\ found'[k].raised <=> found[k].raised
<1>1. /\ pc = "judge" /\ paths' = paths /\ snaps' = snaps
  BY DEF Judge, asked
<1>2. exit = Unset /\ Progress /\ Summed /\ Remembrance
  BY <1>1 DEF Running, Ended
<1>3. Len(found) = k /\ k \in Nat \ {0} /\ IsSeq(found) /\ DOMAIN found = 1..k
  BY <1>1, <1>2, Numbered DEF Progress, Judging, Types
<1>4. k \in 1..k /\ \A n \in 1..(k - 1) : n \in 1..k /\ n # k
  BY <1>3
<1>5. CASE found' = found
  <2>1. found[k].path = paths[k] /\ found[k].snap = snaps[paths[k]]
    BY <1>1, <1>2, <1>3, <1>4 DEF InOrder, Summed, Judging
  <2> QED
    BY <1>1, <1>2, <1>3, <1>5, <2>1
<1>6. ASSUME NEW bad, NEW held, ~found[k].raised,
             found' = [found EXCEPT ![k] = Found(paths[k], snaps[paths[k]], FALSE, bad, held)]
      PROVE  /\ Len(found') = k /\ DOMAIN found' = 1..k
             /\ \A n \in 1..(k - 1) : found'[n] = found[n]
             /\ found'[k].path = paths[k] /\ found'[k].snap = snaps[paths[k]]
             /\ ~found'[k].raised
  <2>1. Len(found') = k /\ DOMAIN found' = 1..k
    BY <1>3, <1>6, Replaced
  <2>2. found'[k] = Found(paths[k], snaps[paths[k]], FALSE, bad, held)
    BY <1>3, <1>4, <1>6
  <2>3. \A n \in 1..(k - 1) : found'[n] = found[n]
    BY <1>3, <1>4, <1>6
  <2> QED
    BY <2>1, <2>2, <2>3 DEF Found
<1> QED
  BY <1>1, <1>2, <1>3, <1>5, <1>6, Judged

-----------------------------------------------------------------------------
\* The walk of a place, and what is recorded of it, are of its path.
LEMMA InOrderKept ==
    ASSUME Types, InOrder, Running, Ended, [Next]_vars
    PROVE  InOrder'
<1>1. CASE CmdQuota \/ CmdDeleted \/ Walk
  <2>1. found'[k].path = paths[k]
    <3>1. CASE CmdQuota
      BY <3>1, Adds DEF Found
    <3>2. CASE CmdDeleted
      <4>1. PICK held : found'[k] = Found(paths[k], Unset, FALSE, FALSE, held)
        BY <3>2, Adds
      <4> QED
        BY <4>1 DEF Found
    <3>3. CASE Walk
      <4>1. PICK raised, bad : found'[k] = Found(paths[k], snaps[paths[k]], raised, bad, FALSE)
        BY <3>3, Adds
      <4> QED
        BY <4>1 DEF Found
    <3> QED
      BY <1>1, <3>1, <3>2, <3>3
  <2>2. /\ DOMAIN found' = 1..k /\ DOMAIN found = 1..(k - 1) /\ paths' = paths
        /\ \A n \in 1..(k - 1) : found'[n] = found[n]
    BY <1>1, Adds
  <2>3. \A n \in 1..k : n = k \/ n \in 1..(k - 1)
    BY DEF Types
  <2> QED
    BY <2>1, <2>2, <2>3 DEF InOrder
<1>2. CASE Judge
  <2>1. \A n \in 1..k : n = k \/ n \in 1..(k - 1)
    BY DEF Types
  <2>2. k \in 1..k /\ \A n \in 1..(k - 1) : n \in 1..k
    BY DEF Types
  <2>3. /\ DOMAIN found' = 1..k /\ DOMAIN found = 1..k /\ paths' = paths
        /\ \A n \in 1..(k - 1) : found'[n] = found[n]
        /\ found'[k].path = paths[k]
    BY <1>2, Amends
  <2>4. \A n \in 1..(k - 1) : found'[n].path = paths[n]
    BY <2>2, <2>3 DEF InOrder
  <2> QED
    BY <2>1, <2>3, <2>4 DEF InOrder
<1>3. CASE Resolve
  <2>1. Len(found) = 0 /\ found' = found
    BY <1>3 DEF Resolve, Running, Ended, Progress, Judging
  <2>2. DOMAIN found' = {}
    BY <2>1, Numbered DEF Types
  <2> QED
    BY <2>2 DEF InOrder
<1>4. CASE UNCHANGED <<paths, found>>
  BY <1>4 DEF InOrder
<1>5. CASE \/ Parse \/ Scan \/ QuotaFor \/ StartPainter \/ JoinPainter \/ Clear
           \/ Finish \/ BreakOff \/ Paint \/ UNCHANGED vars
  <2>1. UNCHANGED <<paths, found>>
    BY <1>5 DEF Parse, Scan, QuotaFor, StartPainter, JoinPainter, Clear, Finish, BreakOff,
                Paint, Awake, Draw, Note, vars, outcome
  <2> QED
    BY <1>4, <2>1
<1> QED
  BY <1>1, <1>2, <1>3, <1>5 DEF Next, Main

\* Only the main thread moves the run, and it stops once there is an exit code.
LEMMA Goes ==
    ASSUME Types, Running, Ended, [Next]_vars
    PROVE  \/ Paint \/ UNCHANGED vars
           \/ Main /\ exit = Unset /\ Progress /\ Summed /\ Remembrance
           \/ /\ exit # Unset /\ cut /\ UNCHANGED <<exit, cut>>
              /\ \/ JoinPainter
                 \/ Clear /\ pc' = "end"
<1>1. CASE exit = Unset
  BY <1>1 DEF Running, Next
<1>2. CASE exit # Unset /\ Main
  <2>1. pc = "end" \/ (cut /\ pc \in {"join", "clear"})
    BY <1>2 DEF Ended
  <2>2. JoinPainter \/ Clear
    BY <1>2, <2>1 DEF Main, Parse, Resolve, CmdQuota, CmdDeleted, Scan, QuotaFor,
                      StartPainter, Walk, Judge, Finish, BreakOff
  <2> QED
    BY <1>2, <2>1, <2>2 DEF JoinPainter, Clear, outcome
<1> QED
  BY <1>1, <1>2 DEF Next

\* A run that is over stays over.
LEMMA EndedKept ==
    ASSUME Types, Running, Ended, [Next]_vars
    PROVE  Ended'
<1>1. CASE Paint \/ UNCHANGED vars
  BY <1>1 DEF Ended, Paint, Awake, Draw, Note, vars, outcome
<1>2. CASE JoinPainter /\ exit # Unset
  BY <1>2 DEF Ended, JoinPainter, outcome
<1>3. CASE Clear /\ pc' = "end"
  BY <1>3 DEF Ended
<1>4. CASE Main /\ exit = Unset
  <2>1. CASE Parse \/ Resolve \/ Finish \/ BreakOff
    BY <1>4, <2>1, AuditAssumption DEF Ended, Parse, Resolve, Finish, BreakOff
  <2>2. CASE exit' = exit
    BY <1>4, <2>2 DEF Ended
  <2> QED
    BY <1>4, <2>1, <2>2 DEF Main, CmdQuota, CmdDeleted, Scan, QuotaFor, StartPainter, Walk,
                            JoinPainter, Clear, Judge, outcome
<1> QED
  BY <1>1, <1>2, <1>3, <1>4, Goes

-----------------------------------------------------------------------------
\* While the main thread goes on, it is where it says.
LEMMA ProgressKept ==
    ASSUME Types, InOrder, Running, Ended, [Next]_vars, exit' = Unset
    PROVE  Progress'
<1> USE DEF Progress, Judging, Mode, input, outcome
<1>1. CASE Parse
  BY <1>1, Goes, AuditAssumption DEF Parse, Running, EXIT_ERROR
<1>2. CASE Resolve
  <2>1. exit = Unset /\ pc = "resolve" /\ Progress
    BY <1>2 DEF Resolve, Running, Ended
  <2>2. paths' # <<>> /\ pc' \in {"quota", "deleted", "sweep", "quota_for"}
    BY <1>2, AuditAssumption DEF Resolve, EXIT_ERROR
  <2>3. /\ pc' \in {"quota", "deleted"} => Mode = pc'
        /\ pc' \in {"sweep", "quota_for"} => Mode = "walk"
        /\ UNCHANGED <<opts, k, found, cut>>
    <3>1. pc' = CASE Mode # "walk" -> Mode [] Mode = "walk" /\ Sweeps -> "sweep"
                 [] OTHER -> "quota_for"
      BY <1>2, <2>2 DEF Resolve
    <3>2. Mode \in {"quota", "deleted", "walk"}
      OBVIOUS
    <3>3. UNCHANGED <<opts, k, found, cut>>
      BY <1>2 DEF Resolve
    <3> HIDE DEF Mode
    <3>4. CASE Mode # "walk"
      <4>1. pc' = Mode /\ pc' \in {"quota", "deleted"}
        BY <3>1, <3>2, <3>4
      <4> QED
        BY <3>3, <4>1
    <3>5. CASE Mode = "walk"
      <4>1. pc' \in {"sweep", "quota_for"}
        BY <3>1, <3>5
      <4> QED
        BY <3>3, <3>5, <4>1
    <3> QED
      BY <3>4, <3>5
  <2> QED
    BY <2>1, <2>2, <2>3
<1>3. CASE CmdQuota
  <2>1. /\ pc = "quota" /\ k' = k + 1 /\ UNCHANGED <<opts, paths, cut>>
        /\ pc' = IF k < Len(paths) THEN IF Mode = "walk" THEN "quota_for" ELSE Mode
                 ELSE "finish"
    BY <1>3 DEF CmdQuota, Visited
  <2>2. Progress /\ Len(found') = k
    BY <1>3, Adds
  <2> QED
    BY <2>1, <2>2 DEF Types
<1>4. CASE CmdDeleted
  <2>1. /\ pc = "deleted" /\ k' = k + 1 /\ UNCHANGED <<opts, paths, cut>>
        /\ pc' = IF k < Len(paths) THEN IF Mode = "walk" THEN "quota_for" ELSE Mode
                 ELSE "finish"
    BY <1>4 DEF CmdDeleted, Visited, Found
  <2>2. Progress /\ Len(found') = k
    BY <1>4, Adds
  <2> QED
    BY <2>1, <2>2 DEF Types
<1>5. CASE Scan
  BY <1>5, Goes DEF Scan, Running
<1>6. CASE QuotaFor
  BY <1>6, Goes DEF QuotaFor, Running
<1>7. CASE StartPainter
  BY <1>7, Goes DEF StartPainter, Running
<1>8. CASE Walk
  <2>1. Progress /\ Len(found') = k
    BY <1>8, Adds
  <2> QED
    BY <1>8, <2>1 DEF Walk
<1>9. CASE JoinPainter
  BY <1>9, Goes DEF JoinPainter, Running
<1>10. CASE Clear
  BY <1>10, Goes DEF Clear, Running
<1>11. CASE Judge
  <2>1. Progress /\ Len(found') = k /\ pc = "judge" /\ k' = k + 1 /\ paths' = paths
    BY <1>11, Amends DEF Judge
  <2>2. pc' \in {"quota_for", "finish"} /\ UNCHANGED <<opts, cut>>
    BY <1>11 DEF Judge
  <2> QED
    BY <2>1, <2>2 DEF Types
<1>12. CASE Finish \/ BreakOff
  BY <1>12, AuditAssumption DEF Finish, BreakOff, Types, EXIT_OK, EXIT_ERROR, EXIT_ATTENTION
<1>13. CASE Paint \/ UNCHANGED vars
  BY <1>13 DEF Paint, Awake, Draw, Note, vars, Running
<1> QED
  BY <1>1, <1>2, <1>3, <1>4, <1>5, <1>6, <1>7, <1>8, <1>9, <1>10, <1>11, <1>12, <1>13
  DEF Next, Main

\* The backends, and what they have, are what they were.
LEMMA SameSite ==
    ASSUME [Next]_vars
    PROVE  /\ opts' = opts /\ world' = world
           /\ \A p : HasARow(p)' <=> HasARow(p)
           /\ \A snap, p : NeedsAttention(snap, p)' <=> NeedsAttention(snap, p)
<1>1. opts' = opts /\ world' = world
  BY DEF Next, Main, Paint, Parse, Resolve, CmdQuota, CmdDeleted, Scan, QuotaFor, StartPainter,
         Walk, JoinPainter, Clear, Judge, Finish, BreakOff, Awake, Draw, Note, vars, input
<1> QED
  BY <1>1 DEF HasARow, Up, NeedsAttention, Maps

\* What a path is remembered with was asked for it, or for one before it.
LEMMA RemembranceKept ==
    ASSUME Types, InOrder, Running, Ended, [Next]_vars, exit' = Unset
    PROVE  Remembrance'
<1> DEFINE last == IF pc \in {"start", "walk"} \cup Judging THEN k ELSE k - 1
<1>1. CASE QuotaFor
  <2>1. Remembrance /\ pc = "quota_for" /\ k \in Nat \ {0}
    BY <1>1, Goes DEF QuotaFor, Running, Ended, Types
  <2>2. UNCHANGED <<paths, k, world>> /\ pc' \in {"start", "walk"}
    BY <1>1 DEF QuotaFor, input
  <2>3. CASE snaps' = snaps
    BY <2>1, <2>2, <2>3, SameSite DEF Remembrance, Judging, Maps
  <2>4. CASE snaps' = Remembered(ReadBest(paths[k]), paths[k])
    <3> SUFFICES ASSUME NEW q \in Paths, snaps'[q] # Unset, HasARow(q)
                 PROVE  q \in Maps(snaps'[q]) \/ \E n \in 1..k : ~HasARow(paths[n])
      BY <2>2, SameSite DEF Remembrance, Judging, Maps
    <3>1. CASE q = paths[k]
      <4>1. snaps'[q] = ReadBest(q)
        BY <2>4, <3>1 DEF Remembered
      <4> QED
        BY <4>1, ReadBestFinds
    <3>2. CASE q # paths[k] /\ snaps'[q] = snaps[q]
      BY <2>1, <3>2 DEF Remembrance, Judging
    <3>3. CASE q # paths[k] /\ snaps'[q] # snaps[q]
      <4>1. Shares(ReadBest(paths[k]), paths[k])
        BY <2>4, <3>3 DEF Remembered
      <4>2. ~HasARow(paths[k])
        BY <4>1, ReadBestFinds DEF Shares
      <4> QED
        BY <2>1, <4>2
    <3> QED
      BY <3>1, <3>2, <3>3
  <2> QED
    BY <1>1, <2>3, <2>4 DEF QuotaFor
<1>2. CASE Parse \/ Resolve
  <2>1. Remembrance /\ Progress /\ pc \in {"parse", "resolve"}
    BY <1>2 DEF Parse, Resolve, Running, Ended
  <2>2. snaps' = snaps
    BY <1>2 DEF Parse, Resolve, asked
  <2>3. k = 1
    BY <2>1 DEF Progress
  <2>4. \A q \in Paths : snaps[q] # Unset /\ HasARow(q) => q \in Maps(snaps[q])
    BY <2>1, <2>3 DEF Remembrance, Judging
  <2> QED
    BY <2>2, <2>4, SameSite DEF Remembrance, Maps
<1>3. CASE \/ CmdQuota \/ CmdDeleted \/ Scan \/ StartPainter \/ Walk \/ JoinPainter \/ Clear
           \/ Judge \/ Finish \/ BreakOff \/ Paint \/ UNCHANGED vars
  <2>1. snaps' = snaps /\ paths' = paths /\ Remembrance
    BY <1>3, Goes DEF CmdQuota, CmdDeleted, Scan, StartPainter, Walk, JoinPainter, Clear, Judge,
       Finish, BreakOff, Paint, Awake, Draw, Note, vars, asked, outcome, Running
  <2>2. 1..last \subseteq 1..(IF pc' \in {"start", "walk"} \cup Judging THEN k' ELSE k' - 1)
    <3>1. CASE CmdQuota \/ CmdDeleted
      <4>1. pc \in {"quota", "deleted"} /\ k' = k + 1
        BY <3>1 DEF CmdQuota, CmdDeleted, Visited, Found
      <4> QED
        BY <4>1 DEF Types, Judging
    <3>2. CASE Scan \/ StartPainter \/ Walk \/ JoinPainter \/ Clear
      <4>1. k' = k /\ pc \in {"sweep", "start", "walk", "join", "clear"}
        BY <3>2 DEF Scan, StartPainter, Walk, JoinPainter, Clear
      <4>2. ~cut
        BY <3>2 DEF Scan, StartPainter, Walk, JoinPainter, Clear, Running, Progress, outcome
      <4>3. pc' \in {"walk", "join", "clear", "judge"} \/ (pc = "sweep" /\ pc' = "quota_for")
        BY <3>2, <4>2 DEF Scan, StartPainter, Walk, JoinPainter, Clear
      <4> QED
        BY <4>1, <4>3 DEF Types, Judging
    <3>3. CASE Judge
      <4>1. pc = "judge" /\ k' = k + 1 /\ pc' \in {"quota_for", "finish"}
        BY <3>3 DEF Judge
      <4> QED
        BY <4>1 DEF Types, Judging
    <3>4. CASE Finish \/ BreakOff
      BY <3>4, AuditAssumption DEF Finish, BreakOff, Types, EXIT_OK, EXIT_ERROR, EXIT_ATTENTION
    <3>5. CASE Paint \/ UNCHANGED vars
      BY <3>5 DEF Paint, Awake, Draw, Note, vars
    <3> QED
      BY <1>3, <3>1, <3>2, <3>3, <3>4, <3>5
  <2> QED
    BY <2>1, <2>2, SameSite DEF Remembrance, Maps
<1> QED
  BY <1>1, <1>2, <1>3 DEF Next, Main

-----------------------------------------------------------------------------
\* A place that stays as it was wants a human if it did.
LEMMA SameWants ==
    ASSUME [Next]_vars, NEW n, found'[n] = found[n]
    PROVE  WantsAHuman(n)' <=> WantsAHuman(n)
  BY SameSite DEF WantsAHuman, Mode

\* What is summed up are the places that are done.
LEMMA SummedKept ==
    ASSUME Types, InOrder, Running, Ended, [Next]_vars, exit' = Unset
    PROVE  Summed'
<1> DEFINE Wants(n) == WantsAHuman(n) /\ ~found[n].raised
<1>0. PICK place \in Nat \ {0} :
         place = k /\ rcode \in {EXIT_OK, EXIT_ATTENTION} /\ unmeasured \in Nat
  BY DEF Types
\* One more place is done.
<1>1. ASSUME Summed, k' = k + 1, pc' \notin Judging,
             \A n \in 1..(k - 1) : found'[n] = found[n],
             rcode' = IF Wants(place)' THEN EXIT_ATTENTION ELSE rcode,
             unmeasured' > 0 <=> unmeasured > 0 \/ found'[k].raised
      PROVE  Summed'
  <2>1. 1..(k' - 1) = 1..(k - 1) \cup {k}
    BY <1>0, <1>1
  <2>2. \A n \in 1..(k - 1) : (Wants(n)' <=> Wants(n)) /\ found'[n].raised = found[n].raised
    BY <1>1, SameWants
  <2>3. rcode' = EXIT_ATTENTION <=> \E n \in 1..(k' - 1) : Wants(n)'
    <3>1. rcode' = EXIT_ATTENTION <=> rcode = EXIT_ATTENTION \/ Wants(place)'
      BY <1>0, <1>1
    <3>2. rcode = EXIT_ATTENTION <=> \E n \in 1..(k - 1) : Wants(n)
      BY <1>1 DEF Summed
    <3>3. (\E n \in 1..(k - 1) : Wants(n)) <=> \E n \in 1..(k - 1) : Wants(n)'
      BY <2>2
    <3> HIDE DEF Wants
    <3> QED
      BY <1>0, <2>1, <3>1, <3>2, <3>3
  <2>4. unmeasured' > 0 <=> \E n \in 1..(k' - 1) : found'[n].raised
    <3>1. unmeasured > 0 <=> \E n \in 1..(k - 1) : found[n].raised
      BY <1>1 DEF Summed
    <3> QED
      BY <1>1, <2>1, <2>2, <3>1
  <2> QED
    BY <1>1, <2>3, <2>4 DEF Summed
<1>2. CASE CmdQuota
  <2>1. /\ Summed /\ pc = "quota" /\ Mode = "quota" /\ \A n \in 1..(k - 1) : found'[n] = found[n]
        /\ found'[k] = Found(paths[k], ReadBest(paths[k]), FALSE, FALSE, FALSE)
    BY <1>2, Adds DEF CmdQuota, Progress
  <2>2. /\ k' = k + 1 /\ pc' \in {"quota", "finish"} /\ unmeasured' = unmeasured
        /\ rcode' = IF ReadBest(paths[k]) = 0 \/ NeedsAttention(ReadBest(paths[k]), paths[k])
                    THEN EXIT_ATTENTION ELSE rcode
    BY <1>2, <2>1 DEF CmdQuota, Visited
  <2>3. ~found'[k].raised
        /\ (WantsAHuman(place)' <=> ReadBest(paths[k]) = 0
                                  \/ NeedsAttention(ReadBest(paths[k]), paths[k]))
    <3>1. ReadBest(paths[k]) # Unset
      BY ReadBestFinds, AuditAssumption DEF Snaps
    <3> QED
      BY <1>0, <2>1, <3>1, SameSite DEF WantsAHuman, Found, Mode
  <2> QED
    BY <1>0, <1>1, <2>1, <2>2, <2>3 DEF Judging
<1>3. CASE CmdDeleted
  <2>1. /\ Summed /\ pc = "deleted" /\ Mode = "deleted"
        /\ \A n \in 1..(k - 1) : found'[n] = found[n]
    BY <1>3, Adds DEF CmdDeleted, Progress
  <2>2. k' = k + 1 /\ pc' \in {"deleted", "finish"} /\ unmeasured' = unmeasured
    BY <1>3, <2>1 DEF CmdDeleted, Visited, Found
  <2>3. /\ found'[k] = Found(paths[k], Unset, FALSE, FALSE, HasOpen(paths[k]))
        /\ rcode' = IF HasOpen(paths[k]) THEN EXIT_ATTENTION ELSE rcode
    <3>1. Len(found) = k - 1 /\ IsSeq(found)
      BY <1>3, Adds DEF Types
    <3>2. \A r : Append(found, r)[k] = r
      BY <1>0, <3>1, Recorded
    <3> QED
      BY <1>3, <3>2 DEF CmdDeleted, Visited
  <2>4. /\ ~found'[k].raised
        /\ WantsAHuman(place)' <=> HasOpen(paths[k])
    BY <1>0, <2>1, <2>3, SameSite DEF WantsAHuman, Found, Mode
  <2> QED
    BY <1>0, <1>1, <2>1, <2>2, <2>3, <2>4 DEF Judging
<1>4. CASE Judge
  <2>1. /\ Summed /\ Progress /\ \A n \in 1..(k - 1) : found'[n] = found[n]
        /\ found'[k].path = paths[k] /\ found'[k].snap = snaps[paths[k]]
        /\ found'[k].raised <=> found[k].raised
    BY <1>4, Amends
  <2>2. k' = k + 1 /\ pc' \in {"quota_for", "finish"} /\ pc = "judge"
    BY <1>4 DEF Judge
  <2>3. Mode' = "walk"
    BY <2>1, <2>2, SameSite DEF Progress, Judging, Mode
  <2>4. CASE found[k].raised
    <3>1. rcode' = rcode /\ unmeasured' = unmeasured + 1
      BY <1>4, <2>4, Judged
    <3> QED
      BY <1>0, <1>1, <2>1, <2>2, <2>4, <3>1 DEF Judging
  <2>5. CASE ~found[k].raised
    <3>1. /\ unmeasured' = unmeasured
          /\ rcode' = IF \/ found'[k].bad \/ found'[k].held
                         \/ /\ snaps[paths[k]] # Unset
                            /\ NeedsAttention(snaps[paths[k]], paths[k])
                      THEN EXIT_ATTENTION ELSE rcode
      BY <1>4, <2>5, Judged
    <3>2. WantsAHuman(place)' <=> \/ found'[k].bad \/ found'[k].held
                              \/ /\ snaps[paths[k]] # Unset
                                 /\ NeedsAttention(snaps[paths[k]], paths[k])
      BY <1>0, <2>1, <2>3, SameSite DEF WantsAHuman
    <3> QED
      BY <1>0, <1>1, <2>1, <2>2, <2>5, <3>1, <3>2 DEF Judging
  <2> QED
    BY <2>4, <2>5
<1>5. CASE Walk
  <2>1. /\ Summed /\ \A n \in 1..(k - 1) : found'[n] = found[n]
    BY <1>5, Adds
  <2>2. PICK raised, bad : /\ raised => ~bad
                           /\ found'[k] = Found(paths[k], snaps[paths[k]], raised, bad, FALSE)
    BY <1>5, Adds
  <2>3. UNCHANGED <<k, paths, snaps, rcode, unmeasured>>
    BY <1>5 DEF Walk, asked
  <2>4. \A n \in 1..(k - 1) : (Wants(n)' <=> Wants(n)) /\ found'[n].raised = found[n].raised
    BY <2>1, SameWants
  <2>5. /\ found'[k].snap = snaps[paths[k]] /\ ~found'[k].held
        /\ found'[k].raised => ~found'[k].bad
    BY <2>2 DEF Found
  <2> QED
    BY <2>1, <2>3, <2>4, <2>5 DEF Summed
<1>6. CASE \/ Parse \/ Resolve \/ Scan \/ QuotaFor \/ StartPainter \/ JoinPainter \/ Clear
           \/ Finish \/ BreakOff \/ Paint \/ UNCHANGED vars
  <2>1. UNCHANGED <<k, found, rcode, unmeasured>> /\ Summed
    BY <1>6, Goes, AuditAssumption DEF Parse, Resolve, Scan, QuotaFor, StartPainter, JoinPainter,
       Clear, Finish, BreakOff, Paint, Awake, Draw, Note, vars, outcome, Running,
       Types, EXIT_OK, EXIT_ERROR, EXIT_ATTENTION
  <2>2. pc' \in Judging => pc \in Judging /\ UNCHANGED <<paths, snaps>>
    <3>1. CASE Parse \/ Resolve \/ Scan \/ QuotaFor \/ StartPainter
      BY <3>1, AuditAssumption DEF Parse, Resolve, Scan, QuotaFor, StartPainter, asked,
         Judging, Mode, EXIT_OK, EXIT_ERROR
    <3>2. CASE JoinPainter \/ Clear \/ Finish
      BY <3>2 DEF JoinPainter, Clear, Finish, asked, Judging
    <3>3. ~BreakOff
      BY AuditAssumption DEF BreakOff, EXIT_OK, EXIT_ERROR, EXIT_ATTENTION
    <3>4. CASE Paint \/ UNCHANGED vars
      BY <3>4 DEF Paint, Awake, Draw, Note, vars, asked, Judging
    <3> QED
      BY <1>6, <3>1, <3>2, <3>3, <3>4
  <2>3. \A n : WantsAHuman(n)' <=> WantsAHuman(n)
    BY <2>1, SameWants
  <2> QED
    BY <2>1, <2>2, <2>3 DEF Summed
<1> QED
  BY <1>2, <1>3, <1>4, <1>5, <1>6 DEF Next, Main

-----------------------------------------------------------------------------
\* A place that is added is judged by its own row, if it is by any, unless a
\* path before it shared an answer that was not its own.
LEMMA OwnRowKept ==
    ASSUME Types, InOrder, Running, Ended, OwnRowUnlessShared, [Next]_vars
    PROVE  OwnRowUnlessShared'
<1> DEFINE Own(n) == Reported(n) /\ HasARow(found[n].path) =>
                        \/ found[n].path \in Maps(found[n].snap)
                        \/ \E m \in 1..(n - 1) : ~HasARow(found[m].path)
<1>0. k \in Nat \ {0}
  BY DEF Types
\* The places before are as they were.
<1>1. ASSUME NEW n \in 1..(k - 1), n \in DOMAIN found,
             \A m \in 1..(k - 1) : found'[m] = found[m]
      PROVE  Own(n)'
  <2>1. Own(n)
    BY <1>1 DEF OwnRowUnlessShared
  <2>2. found'[n] = found[n] /\ \A m \in 1..(n - 1) : found'[m] = found[m]
    BY <1>0, <1>1
  <2> QED
    BY <2>1, <2>2, SameSite DEF Reported, Maps
<1>2. CASE CmdQuota \/ CmdDeleted \/ Walk
  <2>1. /\ DOMAIN found' = 1..k /\ DOMAIN found = 1..(k - 1)
        /\ \A m \in 1..(k - 1) : found'[m] = found[m]
    BY <1>2, Adds
  <2>2. PICK place \in Nat \ {0} : place = k
    BY <1>0
  <2>3. ASSUME CmdQuota PROVE Own(place)'
    <3>1. found'[k].path = paths[k] /\ found'[k].snap = ReadBest(paths[k])
      BY <2>3, Adds DEF Found
    <3> QED
      BY <2>2, <3>1, SameSite, ReadBestFinds DEF Maps
  <2>4. ASSUME CmdDeleted PROVE Own(place)'
    <3>1. PICK held : found'[k] = Found(paths[k], Unset, FALSE, FALSE, held)
      BY <2>4, Adds
    <3> QED
      BY <2>2, <3>1 DEF Found, Reported
  <2>5. ASSUME Walk PROVE Own(place)'
    <3>1. PICK raised, bad : found'[k] = Found(paths[k], snaps[paths[k]], raised, bad, FALSE)
      BY <2>5, Adds
    <3>2. found'[k].path = paths[k] /\ found'[k].snap = snaps[paths[k]]
      BY <3>1 DEF Found
    <3>3. Remembrance /\ pc = "walk"
      BY <2>5, Adds DEF Walk
    <3>4. SUFFICES ASSUME snaps[paths[k]] # Unset, HasARow(paths[k]),
                          paths[k] \notin Maps(snaps[paths[k]])
                   PROVE  \E m \in 1..(k - 1) : ~HasARow(found'[m].path)
      BY <2>2, <3>2, SameSite DEF Reported, Maps
    <3>5. paths[k] \in Paths
      BY <3>4, AuditAssumption DEF HasARow, Up
    <3>6. PICK m \in 1..k : ~HasARow(paths[m])
      BY <3>3, <3>4, <3>5 DEF Remembrance
    <3>7. m \in 1..(k - 1)
      BY <1>0, <3>4, <3>6
    <3>8. found'[m].path = paths[m]
      BY <2>1, <3>7 DEF InOrder
    <3> QED
      BY <3>6, <3>7, <3>8
  <2>6. Own(place)'
    BY <1>2, <2>3, <2>4, <2>5
  <2>7. \A n \in 1..k : n = k \/ n \in 1..(k - 1)
    BY <1>0
  <2> QED
    BY <1>1, <2>1, <2>2, <2>6, <2>7 DEF OwnRowUnlessShared
<1>3. CASE Judge
  <2>1. /\ DOMAIN found' = 1..k /\ DOMAIN found = 1..k
        /\ \A m \in 1..(k - 1) : found'[m] = found[m]
        /\ found'[k].path = paths[k] /\ found'[k].snap = snaps[paths[k]]
        /\ Summed /\ pc = "judge"
    BY <1>3, Amends DEF Judge
  <2>2. PICK place \in Nat \ {0} : place = k
    BY <1>0
  <2>3. found[k].path = paths[k] /\ found[k].snap = snaps[paths[k]] /\ k \in DOMAIN found
    BY <1>0, <2>1 DEF InOrder, Summed, Judging
  <2>4. Own(place)
    BY <2>2, <2>3 DEF OwnRowUnlessShared
  <2>5. Own(place)'
    BY <2>1, <2>2, <2>3, <2>4, SameSite DEF Reported, Maps
  <2>6. \A n \in 1..k : n = k \/ n \in 1..(k - 1)
    BY <1>0
  <2>7. \A n \in 1..(k - 1) : n \in 1..k
    BY <1>0
  <2> QED
    BY <1>1, <2>1, <2>2, <2>5, <2>6, <2>7 DEF OwnRowUnlessShared
<1>4. CASE found' = found
  BY <1>4, SameSite DEF OwnRowUnlessShared, Reported, Maps
<1> QED
  BY <1>2, <1>3, <1>4 DEF Next, Main, Parse, Resolve, Scan, QuotaFor, StartPainter, JoinPainter,
     Clear, Finish, BreakOff, Paint, Awake, Draw, Note, vars, outcome

\* The exit code is set once, from what was summed up.
LEMMA ExitKept ==
    ASSUME Types, InOrder, Running, Ended, ExitSaysWhatWasFound, [Next]_vars
    PROVE  ExitSaysWhatWasFound'
<1>1. CASE Paint \/ UNCHANGED vars
  <2>1. UNCHANGED <<paths, refused, found, exit, cut>>
    BY <1>1 DEF Paint, Awake, Draw, Note, vars, outcome
  <2>2. \A n : WantsAHuman(n)' <=> WantsAHuman(n)
    BY <2>1, SameWants
  <2> QED
    BY <2>1, <2>2 DEF ExitSaysWhatWasFound, EXIT_OK, EXIT_ERROR, EXIT_ATTENTION
<1>2. CASE exit # Unset /\ cut /\ UNCHANGED <<exit, cut>>
  BY <1>2 DEF ExitSaysWhatWasFound
<1>3. CASE Main /\ exit = Unset /\ Progress /\ Summed
  <2>1. CASE Parse
    BY <1>3, <2>1 DEF Parse, Progress, ExitSaysWhatWasFound
  <2>2. CASE Resolve
    BY <1>3, <2>2 DEF Resolve, ExitSaysWhatWasFound
  <2>3. CASE Finish
    <3>1. /\ UNCHANGED <<paths, refused, found>> /\ pc = "finish"
          /\ exit' = IF refused > 0 \/ unmeasured > 0 THEN EXIT_ERROR ELSE rcode
      BY <2>3 DEF Finish
    <3>2. paths # <<>> /\ DOMAIN found = 1..(k - 1)
      BY <1>3, <3>1, Numbered DEF Progress, Judging, Types
    <3>3. unmeasured > 0 <=> \E n \in DOMAIN found : found[n].raised
      BY <1>3, <3>2 DEF Summed
    <3>4. unmeasured > 0 \/ (rcode = EXIT_ATTENTION <=> \E n \in DOMAIN found : WantsAHuman(n)')
      <4>1. \A n : WantsAHuman(n)' <=> WantsAHuman(n)
        BY <3>1, SameWants
      <4> QED
        BY <1>3, <3>2, <3>3, <4>1 DEF Summed
    <3> QED
      BY <3>1, <3>2, <3>3, <3>4 DEF ExitSaysWhatWasFound, Types
  <2>4. CASE BreakOff
    BY <2>4 DEF BreakOff, ExitSaysWhatWasFound
  <2>5. CASE exit' = exit
    BY <1>3, <2>5 DEF ExitSaysWhatWasFound
  <2> QED
    BY <1>3, <2>1, <2>2, <2>3, <2>4, <2>5 DEF Main, CmdQuota, CmdDeleted, Scan, QuotaFor,
       StartPainter, Walk, JoinPainter, Clear, Judge, outcome
<1> QED
  BY <1>1, <1>2, <1>3, Goes

-----------------------------------------------------------------------------
LEMMA InitInductive == Init => Inductive
<1> SUFFICES ASSUME Init PROVE Inductive
  OBVIOUS
<1> USE DEF Init
<1>1. found = <<>> /\ Len(found) = 0 /\ DOMAIN found = {} /\ IsSeq(found)
  <2>1. <<>> \in Seq({})
    OBVIOUS
  <2> QED
    BY <2>1 DEF IsSeq
<1>2. Types
  BY <1>1 DEF Types, Quiet, Snaps
<1>3. InOrder /\ OwnRowUnlessShared
  BY <1>1 DEF InOrder, OwnRowUnlessShared
<1>4. Running
  <2>1. k - 1 = 0 /\ 1..0 = {}
    OBVIOUS
  <2>2. Progress
    BY <1>1 DEF Progress, Judging
  <2>3. Summed
    BY <2>1 DEF Summed, Judging, EXIT_OK, EXIT_ATTENTION
  <2>4. Remembrance
    BY DEF Remembrance
  <2> QED
    BY <2>2, <2>3, <2>4 DEF Running
<1>5. Ended /\ ExitSaysWhatWasFound
  BY DEF Ended, ExitSaysWhatWasFound
<1>6. Lines
  BY DEF Lines, Judging
<1> QED
  BY <1>2, <1>3, <1>4, <1>5, <1>6 DEF Inductive

LEMMA StepInductive == Inductive /\ [Next]_vars => Inductive'
<1> SUFFICES ASSUME Inductive, [Next]_vars PROVE Inductive'
  OBVIOUS
<1> USE DEF Inductive
<1>1. Types' /\ InOrder' /\ Ended' /\ Lines'
  BY TypesKept, InOrderKept, EndedKept, LinesKept
<1>2. ExitSaysWhatWasFound' /\ OwnRowUnlessShared'
  BY ExitKept, OwnRowKept
<1>3. Running'
  BY ProgressKept, SummedKept, RemembranceKept DEF Running
<1> QED
  BY <1>1, <1>2, <1>3

LEMMA Invariant == Spec => []Inductive
  BY InitInductive, StepInductive, PTL DEF Spec

\* The exit code of any run that was not cut short says what was named and what
\* was found: error when a path could not be resolved or walked, attention when
\* a place wants a human, success only when neither (cli.py:36-40, 824-863).
THEOREM ExitCodeCorrect == Spec => []ExitSaysWhatWasFound
<1>1. Inductive => ExitSaysWhatWasFound
  BY DEF Inductive
<1> QED
  BY <1>1, Invariant, PTL

\* Whatever is named, in whatever order, on whatever site: a path that a backend
\* has a row for is judged by that row, unless a path without one was read
\* before it (cli.py:715-736).
THEOREM OwnRowCorrect == Spec => []OwnRowUnlessShared
<1>1. Inductive => OwnRowUnlessShared
  BY DEF Inductive
<1> QED
  BY <1>1, Invariant, PTL

\* However the painter is scheduled, the report starts on a clear line and is
\* not drawn over, unless a join with the painter timed out (cli.py:657-693).
THEOREM LineIsClearCorrect == Spec => []LineIsClear
<1>1. Inductive => LineIsClear
  BY DEF Inductive, Lines, LineIsClear, Quiet
<1> QED
  BY <1>1, Invariant, PTL
=============================================================================

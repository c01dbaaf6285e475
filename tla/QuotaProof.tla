---------------------------- MODULE QuotaProof ----------------------------
(***************************************************************************)
(* What QuotaRead promises of any site and any budget: the answer for the  *)
(* path is not passed over, the budget is overrun by what one command      *)
(* takes to die, the closest device is asked, and what was not asked is    *)
(* accounted for.                                                          *)
(*                                                                         *)
(* The last two are of a result that is put together long after the        *)
(* command in question.  AtWork says what the reader at work has still to  *)
(* see to, has asked, or has said; Reported what each snapshot accounts    *)
(* for; and that the first device asked is the closest is a fact of the    *)
(* order of the devices.                                                   *)
(***************************************************************************)
EXTENDS QuotaRead, SetLemmas

\* The clock never passes the budget by more than a killed command lingers.
Timely == clock \in 0..(Timeout + Linger)

\* Each reader had its turn once and in order, the one at work not yet, and
\* until read_best returns no snapshot had a row for the path.
Turns ==
    /\ \E S : attempts \in Seq(S)
    /\ pc \in {"choose", "run", "returned"}
    /\ pc # "returned" => reader = Len(attempts) + 1 /\ Len(attempts) <= Len(Readers)
    /\ pc = "run" => reader \in 1..Len(Readers)
    /\ pc # "returned" => \A i \in DOMAIN attempts : ~Wins(attempts[i].rows)

\* What was returned is a row for the path, or all there was without one.
Settled ==
    pc = "returned" =>
       \/ Wins(result.rows)
       \/ /\ Len(attempts) = Len(Readers) \/ Budget = 0
          /\ \A i \in DOMAIN attempts : ~Wins(attempts[i].rows)

Inductive == Timely /\ Turns /\ Settled

-----------------------------------------------------------------------------
\* What is left of the budget is what the clock has not passed.
LEMMA BudgetLeft ==
    ASSUME Timely
    PROVE  /\ Budget \in Nat
           /\ Budget > 0 => clock + Budget = Timeout
  BY SiteAssumption DEF Timely, Budget

\* A command that is started ends, or is killed, in time.
LEMMA TimelyKept == ASSUME Timely, [Next]_vars PROVE Timely'
<1>1. ASSUME Ends PROVE Timely'
  <2>1. PICK t \in 0..Budget : clock' = clock + t
    BY <1>1 DEF Ends
  <2>2. Budget > 0
    BY <1>1 DEF Ends, Starts, MayStart
  <2> QED
    BY <2>1, <2>2, BudgetLeft, SiteAssumption DEF Timely
<1>2. ASSUME TimesOut PROVE Timely'
  <2>1. PICK t \in 0..Linger : clock' = clock + Budget + t
    BY <1>2 DEF TimesOut
  <2>2. Budget > 0
    BY <1>2 DEF TimesOut, Starts, MayStart
  <2> QED
    BY <2>1, <2>2, BudgetLeft, SiteAssumption DEF Timely
<1>3. CASE UNCHANGED clock
  BY <1>3 DEF Timely
<1>4. CASE Rows \/ NoRows \/ ProjectId \/ Fails \/ Missing
  BY <1>4, <1>1 DEF Rows, NoRows, ProjectId, Fails, Missing
<1>5. CASE Choose \/ GiveUp \/ NoTimeForDevice \/ NotRun \/ Over \/ UNCHANGED vars
  BY <1>5, <1>3 DEF Choose, GiveUp, NoTimeForDevice, NotRun, Over, vars
<1> QED
  BY <1>2, <1>4, <1>5 DEF Next

-----------------------------------------------------------------------------
\* A reader that is done is either the answer, or one more without one.
LEMMA ConcludeKeeps ==
    ASSUME Turns, pc = "run", NEW newrows, NEW newreason, Conclude(newrows, newreason)
    PROVE  Turns' /\ Settled'
<1> DEFINE made == [rows |-> newrows, reason |-> newreason]
<1>1. PICK S : attempts \in Seq(S)
  BY DEF Turns
<1>2. attempts \in Seq(S \cup {made})
  BY <1>1
<1>3. attempts' = Append(attempts, made)
  BY DEF Conclude
<1>4. /\ attempts' \in Seq(S \cup {made})
      /\ Len(attempts') = Len(attempts) + 1
      /\ \A i \in DOMAIN attempts' :
            (i \in DOMAIN attempts /\ attempts'[i] = attempts[i]) \/ attempts'[i] = made
  BY <1>2, <1>3
<1>5. CASE Wins(newrows)
  <2>1. pc' = "returned" /\ result'.rows = newrows
    BY <1>5 DEF Conclude
  <2>2. Wins(result.rows)'
    BY <1>5, <2>1 DEF Wins, RowsForPath
  <2> QED
    BY <1>4, <2>1, <2>2 DEF Turns, Settled
<1>6. CASE ~Wins(newrows)
  <2>1. pc' = "choose" /\ reader' = reader + 1
    BY <1>6 DEF Conclude
  <2>2. \A i \in DOMAIN attempts' : ~Wins(attempts'[i].rows)
    BY <1>4, <1>6 DEF Turns
  <2>3. Len(attempts) \in Nat
    BY <1>1
  <2> QED
    BY <1>4, <2>1, <2>2, <2>3 DEF Turns, Settled, Wins, RowsForPath
<1> QED
  BY <1>5, <1>6

\* A reader that goes on, or is done.
LEMMA GoOnKeeps ==
    ASSUME Turns, pc = "run", NEW newrows, NEW newreason, NEW more,
           GoOn(newrows, newreason, more)
    PROVE  Turns' /\ Settled'
<1>1. CASE more = <<>>
  BY <1>1, ConcludeKeeps DEF GoOn
<1>2. CASE more # <<>>
  BY <1>2 DEF GoOn, Turns, Settled, Wins, RowsForPath
<1> QED
  BY <1>1, <1>2

\* Every step keeps the turns, and what was returned.
LEMMA TurnsKept == ASSUME Timely, Turns, Settled, [Next]_vars PROVE Turns' /\ Settled'
<1>1. CASE Choose
  BY <1>1 DEF Choose, Turns, Settled, Wins, RowsForPath, Readers
<1>2. CASE GiveUp
  <2>1. pc' = "returned" /\ attempts' = attempts /\ clock' = clock
    BY <1>2 DEF GiveUp
  <2>2. Turns'
    BY <2>1 DEF Turns
  <2>3. Len(attempts) \in Nat /\ Len(Readers) \in Nat
    BY DEF Turns, Readers
  <2>4. reader = Len(attempts) + 1 /\ Len(attempts) <= Len(Readers)
    BY <1>2 DEF GiveUp, Turns
  <2>5. Len(attempts) = Len(Readers) \/ Budget = 0
    BY <1>2, <2>3, <2>4 DEF GiveUp, OutOfTime
  <2>6. \A i \in DOMAIN attempts : ~Wins(attempts[i].rows)
    BY <1>2 DEF GiveUp, Turns
  <2> QED
    BY <2>1, <2>2, <2>5, <2>6 DEF Settled, Wins, RowsForPath, Budget
<1>3. CASE NoTimeForDevice
  BY <1>3, ConcludeKeeps DEF NoTimeForDevice, Working
<1>4. CASE NotRun
  BY <1>4, GoOnKeeps DEF NotRun, Working
<1>5. CASE Rows
  BY <1>5, GoOnKeeps DEF Rows, Ends, Starts, Working
<1>6. CASE NoRows
  BY <1>6, GoOnKeeps DEF NoRows, Ends, Starts, Working
<1>7. CASE ProjectId
  BY <1>7, GoOnKeeps DEF ProjectId, Ends, Starts, Working
<1>8. CASE Fails
  BY <1>8, GoOnKeeps DEF Fails, Ends, Starts, Working
<1>9. CASE Missing
  BY <1>9, ConcludeKeeps DEF Missing, Ends, Starts, Working
<1>10. CASE TimesOut
  BY <1>10, GoOnKeeps DEF TimesOut, Starts, Working
<1>11. CASE Over \/ UNCHANGED vars
  BY <1>11 DEF Over, vars, Turns, Settled, Wins, RowsForPath, Budget
<1> QED
  BY <1>1, <1>2, <1>3, <1>4, <1>5, <1>6, <1>7, <1>8, <1>9, <1>10, <1>11 DEF Next

\* The invariant holds of every state.
LEMMA Invariant == Spec => []Inductive
<1>1. Init => Inductive
  BY SiteAssumption DEF Init, Inductive, Timely, Turns, Settled, Readers
<1>2. Inductive /\ [Next]_vars => Inductive'
  BY TimelyKept, TurnsKept DEF Inductive
<1> QED
  BY <1>1, <1>2, PTL DEF Spec

-----------------------------------------------------------------------------
\* However many commands hang, read_best is late by what one of them takes to
\* die, for any budget and any site (quota.py, `_run` and `_budget`).
THEOREM OverrunIsBounded == Spec => []OverrunIsOneKill
<1>1. Inductive => OverrunIsOneKill
  BY SiteAssumption DEF Inductive, Timely, OverrunIsOneKill
<1> QED
  BY Invariant, <1>1, PTL

\* A row that governs the path is not passed over: read_best returns without one
\* only when every reader had its turn or the time is up, and none had such a
\* row (quota.py, `read_best`).
THEOREM AnswerForPathCorrect == Spec => []AnswerForPathWins
<1>1. Inductive => AnswerForPathWins
  BY DEF Inductive, Turns, Settled, AnswerForPathWins, Returned, Wins
<1> QED
  BY Invariant, <1>1, PTL

-----------------------------------------------------------------------------
(* The order of the devices.                                               *)

Order == {o \in Devices \X Devices : Before(o[1], o[2])}

\* How closely a device contains the path.
LEMMA ReachIsNat == ASSUME NEW d \in Devices PROVE Reach(d) \in Nat
<1> DEFINE ms == DeviceMounts[d]
           cs == {Covers[m] : m \in ms}
           f == [m \in ms |-> Covers[m]]
<1>1. IsFiniteSet(ms)
  BY SiteAssumption, FS_Subset
<1>2. f \in Surjection(ms, cs)
  BY DEF Surjection
<1>3. IsFiniteSet(cs)
  <2> HIDE DEF ms, cs, f
  <2> QED
    BY <1>1, <1>2, FS_Surjection
<1>4. cs \subseteq Nat
  BY SiteAssumption
<1> HIDE DEF cs
<1>5. IsFiniteSet(cs \cup {0})
  BY <1>3, FS_AddElement
<1> DEFINE all == cs \cup {0}
<1>6. all \subseteq Int /\ all # {} /\ all \subseteq Nat
  BY <1>4
<1>7. Max(all) \in all
  <2>1. IsFiniteSet(all)
    BY <1>5
  <2> HIDE DEF all
  <2> QED
    BY <1>6, <2>1, MaxIsGreatest
<1> QED
  BY <1>6, <1>7 DEF Reach, cs

\* Each device has its place by name.
LEMMA Placed ==
    /\ IsFiniteSet(Devices)
    /\ \A d \in Devices : Place(d) \in Nat /\ ByName[Place(d)] = d
<1>1. ByName \in [1..Len(ByName) -> Devices] /\ Len(ByName) \in Nat
  BY SiteAssumption
<1>2. \A d \in Devices : \E i \in 1..Len(ByName) : ByName[i] = d
  BY <1>1, SiteAssumption DEF ToSet
<1>3. ByName \in Surjection(1..Len(ByName), Devices)
  BY <1>1, <1>2 DEF Surjection
<1>4. IsFiniteSet(Devices)
  BY <1>1, <1>3, FS_Interval, FS_Surjection
<1>5. ASSUME NEW d \in Devices PROVE Place(d) \in DOMAIN ByName /\ ByName[Place(d)] = d
  BY <1>1, <1>2 DEF Place
<1> QED
  BY <1>1, <1>4, <1>5

\* Any two devices compare.
LEMMA DevicesRanked == Ranked(Order, Devices)
<1>1. \A d \in Devices : Reach(d) \in Nat /\ Place(d) \in Nat /\ ByName[Place(d)] = d
  BY ReachIsNat, Placed
<1>2. \A d, e \in Devices : <<d, e>> \in Order <=>
          Reach(d) > Reach(e) \/ (Reach(d) = Reach(e) /\ Place(d) < Place(e))
  BY DEF Order, Before, Named
<1>3. \A d, e \in Devices : Place(d) = Place(e) => d = e
  BY <1>1
<1>4. \A d \in Devices : <<d, d>> \notin Order
  BY <1>1, <1>2
<1>5. \A d, e, x \in Devices : <<d, e>> \in Order /\ <<e, x>> \in Order => <<d, x>> \in Order
  BY <1>1, <1>2
<1>6. ASSUME NEW d \in Devices, NEW e \in Devices, d # e
      PROVE  <<d, e>> \in Order \/ <<e, d>> \in Order
  <2>1. Place(d) # Place(e)
    BY <1>3, <1>6
  <2> QED
    BY <1>1, <1>2, <2>1
<1> QED
  BY <1>4, <1>5, <1>6 DEF Ranked

\* The devices are sorted, each once.
LEMMA DevicesSorted ==
    /\ DeviceOrder \in [1..Cardinality(Devices) -> Devices]
    /\ \A i, j \in 1..Cardinality(Devices) : i < j => Before(DeviceOrder[i], DeviceOrder[j])
    /\ \A d \in Devices : \E i \in 1..Cardinality(Devices) : DeviceOrder[i] = d
<1> DEFINE n == Cardinality(Devices)
<1>1. IsFiniteSet(Devices) /\ Ranked(Order, Devices)
  BY Placed, DevicesRanked
<1>2. PICK f \in [1..n -> Devices] : \A i, j \in 1..n : i < j => <<f[i], f[j]>> \in Order
  BY <1>1, SortExists
<1> HIDE DEF n
<1>3. \A i, j \in 1..n : i < j => Before(f[i], f[j])
  BY <1>2 DEF Order
<1>4. /\ DeviceOrder \in [1..n -> Devices]
      /\ \A i, j \in DOMAIN DeviceOrder : i < j => Before(DeviceOrder[i], DeviceOrder[j])
  BY <1>2, <1>3 DEF DeviceOrder, n
<1>5. \A i, j \in 1..n : i < j => <<DeviceOrder[i], DeviceOrder[j]>> \in Order
  BY <1>4 DEF Order
<1>6. \A d \in Devices : \E i \in 1..n : DeviceOrder[i] = d
  BY <1>1, <1>4, <1>5, SortIsOnto DEF n
<1> QED
  BY <1>4, <1>6 DEF n

\* The devices that are asked: the first contains the path as closely as any, and
\* unless there are too many all are.
LEMMA DevicesAsked ==
    /\ AsksDevices \in Seq(Devices)
    /\ Devices # {} =>
          AsksDevices # <<>> /\ \A e \in Devices : Reach(e) <= Reach(AsksDevices[1])
    /\ ~Capped => Devices \subseteq ToSet(AsksDevices)
<1> DEFINE n == Cardinality(Devices)
           k == IF Capped THEN MaxDevices ELSE Len(DeviceOrder)
<1>1. n \in Nat
  BY Placed, FS_CardinalityType
<1>2. DeviceOrder \in Seq(Devices) /\ Len(DeviceOrder) = n
  BY <1>1, DevicesSorted
<1>3. k \in 0..n /\ (n > 0 => k > 0) /\ (~Capped => k = n)
  BY <1>1, <1>2, SiteAssumption DEF Capped
<1>4. AsksDevices = SubSeq(DeviceOrder, 1, k)
  BY DEF AsksDevices
<1> HIDE DEF k
<1>5. /\ AsksDevices \in Seq(Devices) /\ Len(AsksDevices) = k
      /\ \A i \in 1..k : AsksDevices[i] = DeviceOrder[i]
  BY <1>1, <1>2, <1>3, <1>4
<1>6. ASSUME Devices # {}
      PROVE  AsksDevices # <<>> /\ \A e \in Devices : Reach(e) <= Reach(AsksDevices[1])
  <2>1. n > 0
    BY <1>1, <1>6, DevicesSorted
  <2>2. 1 \in 1..k /\ 1 \in 1..n /\ AsksDevices[1] = DeviceOrder[1]
    BY <1>1, <1>3, <1>5, <2>1
  <2>3. ASSUME NEW e \in Devices PROVE Reach(e) <= Reach(AsksDevices[1])
    <3>1. PICK i \in 1..n : DeviceOrder[i] = e
      BY DevicesSorted
    <3>2. Reach(e) \in Nat /\ Reach(DeviceOrder[1]) \in Nat
      BY <2>2, DevicesSorted, ReachIsNat
    <3>3. CASE i = 1
      BY <2>2, <3>1, <3>2, <3>3
    <3>4. CASE i # 1
      <4>1. Before(DeviceOrder[1], e)
        BY <1>1, <2>2, <3>1, <3>4, DevicesSorted
      <4> QED
        BY <2>2, <3>2, <4>1 DEF Before
    <3> QED
      BY <3>3, <3>4
  <2>4. AsksDevices # <<>>
    BY <1>5, <2>2
  <2> QED
    BY <2>3, <2>4
<1>7. ASSUME ~Capped, NEW d \in Devices PROVE d \in ToSet(AsksDevices)
  <2>1. PICK i \in 1..n : DeviceOrder[i] = d
    BY DevicesSorted
  <2>2. i \in DOMAIN AsksDevices /\ AsksDevices[i] = d
    BY <1>3, <1>5, <1>7, <2>1
  <2> QED
    BY <2>2 DEF ToSet
<1> QED
  BY <1>5, <1>6, <1>7

-----------------------------------------------------------------------------
(* What is asked, and what is said of it.                                  *)

\* What the readers have yet to run, when `ask` was asked and `why` is said.
AtQuota(cs) == cs = <<"quota">>

AtDevices(cs, ask, why) ==
    /\ cs \in Seq({"default"} \cup Devices) /\ cs # <<>>
    /\ {"default"} \cup ToSet(AsksDevices) \subseteq ask \cup ToSet(cs)
    /\ Head(cs) = "default" => ask \cap Devices = {}
    /\ "default" \notin ToSet(Tail(cs))
    /\ Capped => "cap" \in why

AtLfs(cs, ask, why) ==
    /\ cs \in Seq({"project", "projectquota", "user", "group"}) /\ cs # <<>>
    /\ "user" \in ask \cup why \cup ToSet(cs)

At(r, cs, ask, why) ==
    /\ why \cap Absent = {}
    /\ r = 1 => AtQuota(cs)
    /\ r = 2 => AtDevices(cs, ask, why)
    /\ r = 3 => AtLfs(cs, ask, why)

\* What a snapshot accounts for: that of `quota`, of `mmlsquota`, of `lfs`.
QuotaSays(a, ask) ==
    a.rows = {} => a.reason \cap Absent = {} /\ "quota" \in ask \cup a.reason

ClosestAsked(a, ask) ==
    \/ a.reason \cap {"budget", "no_mmlsquota"} # {}
    \/ ask \cap Devices = {} /\ a.rows # {}
    \/ Devices = {}
    \/ \E d \in ask \cap Devices : \A e \in Devices : Reach(e) <= Reach(d)

DevicesSay(a, ask) ==
    a.rows = {} =>
       IF a.reason \cap Absent # {}
         THEN "no_mmlsquota" \in a.reason /\ "default" \in ask
         ELSE \/ "budget" \in a.reason
              \/ "default" \in ask /\ (Devices \subseteq ask \/ "cap" \in a.reason)

LfsSays(a, ask) ==
    a.rows = {} =>
       \/ "no_lfs" \in a.reason
       \/ a.reason \cap Absent = {} /\ "user" \in ask \cup a.reason

Says(i, a, ask) ==
    /\ i \in 1..3
    /\ i = 1 => QuotaSays(a, ask)
    /\ i = 2 => ClosestAsked(a, ask) /\ DevicesSay(a, ask)
    /\ i = 3 => LfsSays(a, ask)

AtWork == pc = "run" => At(reader, commands, asked, reason)
NoDeviceYet ==
    reader = 1 \/ (reader = 2 /\ pc = "choose") => asked \cap Devices = {}
Reported == \A i \in DOMAIN attempts : Says(i, attempts[i], asked)
Accounted == Returned => NothingSkippedSilently

Told == AtWork /\ NoDeviceYet /\ Reported /\ Accounted

\* What a snapshot accounts for stays so, while no further device is asked.
LEMMA SaysMore ==
    ASSUME NEW i, NEW a, NEW A, NEW B, Says(i, a, A), A \subseteq B,
           i = 2 => A \cap Devices = B \cap Devices
    PROVE  Says(i, a, B)
<1>1. QuotaSays(a, A) => QuotaSays(a, B)
  BY DEF QuotaSays
<1>2. A \cap Devices = B \cap Devices /\ ClosestAsked(a, A) => ClosestAsked(a, B)
  BY DEF ClosestAsked
<1>3. DevicesSay(a, A) => DevicesSay(a, B)
  BY DEF DevicesSay
<1>4. LfsSays(a, A) => LfsSays(a, B)
  BY DEF LfsSays
<1> QED
  BY <1>1, <1>2, <1>3, <1>4 DEF Says

\* A command is taken off the front.
LEMMA Taken ==
    ASSUME NEW S, NEW cs \in Seq(S), cs # <<>>
    PROVE  /\ Head(cs) \in S /\ Tail(cs) \in Seq(S)
           /\ ToSet(cs) = {Head(cs)} \cup ToSet(Tail(cs))
           /\ Tail(cs) # <<>> => Head(Tail(cs)) \in ToSet(Tail(cs))
           /\ ToSet(Tail(Tail(cs))) \subseteq ToSet(Tail(cs))
<1> DEFINE t == Tail(cs)
<1>1. /\ Len(cs) \in Nat \ {0} /\ Head(cs) = cs[1] /\ Head(cs) \in S
      /\ t \in Seq(S) /\ Len(t) = Len(cs) - 1 /\ DOMAIN t = 1..(Len(cs) - 1)
      /\ \A i \in 1..(Len(cs) - 1) : t[i] = cs[i + 1]
      /\ DOMAIN cs = 1..Len(cs)
  OBVIOUS
<1>2. ASSUME NEW c \in ToSet(cs) PROVE c = Head(cs) \/ c \in ToSet(t)
  <2>1. PICK i \in 1..Len(cs) : cs[i] = c
    BY <1>1 DEF ToSet
  <2>2. CASE i = 1
    BY <1>1, <2>1, <2>2
  <2>3. CASE i # 1
    <3>1. i - 1 \in 1..(Len(cs) - 1) /\ t[i - 1] = c
      BY <1>1, <2>1, <2>3
    <3> QED
      BY <1>1, <3>1 DEF ToSet
  <2> QED
    BY <2>2, <2>3
<1>3. ASSUME NEW c \in ToSet(t) PROVE c \in ToSet(cs)
  <2>1. PICK i \in 1..(Len(cs) - 1) : t[i] = c
    BY <1>1 DEF ToSet
  <2>2. i + 1 \in 1..Len(cs) /\ cs[i + 1] = c
    BY <1>1, <2>1
  <2> QED
    BY <1>1, <2>2 DEF ToSet
<1>4. Head(cs) \in ToSet(cs)
  <2>1. 1 \in DOMAIN cs
    BY <1>1
  <2> QED
    BY <1>1, <2>1 DEF ToSet
<1>5. t # <<>> => Head(t) \in ToSet(t)
  BY <1>1 DEF ToSet
<1>6. ToSet(Tail(t)) \subseteq ToSet(t)
  <2>1. CASE t = <<>>
    BY <2>1 DEF ToSet
  <2>2. CASE t # <<>>
    <3>1. DOMAIN Tail(t) = 1..(Len(t) - 1) /\ \A i \in 1..(Len(t) - 1) : Tail(t)[i] = t[i + 1]
      BY <1>1, <2>2
    <3>2. \A i \in 1..(Len(t) - 1) : i + 1 \in DOMAIN t
      BY <1>1
    <3> QED
      BY <3>1, <3>2 DEF ToSet
  <2> QED
    BY <2>1, <2>2
<1> QED
  BY <1>1, <1>2, <1>3, <1>4, <1>5, <1>6

\* Nothing is in an empty sequence.
LEMMA NoneIn == ToSet(<<>>) = {}
  BY DEF ToSet

-----------------------------------------------------------------------------
(* The steps.                                                              *)

\* Which devices were asked changes while `mmlsquota` is at work only.
DevicesOnly ==
    asked \subseteq asked' /\ (reader # 2 => asked' \cap Devices = asked \cap Devices)

\* A reader is done, and its snapshot accounts for what it should.
LEMMA ConcludeTells ==
    ASSUME Turns, Told, pc = "run", DevicesOnly, NEW newrows, NEW newreason,
           Conclude(newrows, newreason),
           Says(reader, [rows |-> newrows, reason |-> newreason], asked')
    PROVE  Told'
<1> DEFINE made == [rows |-> newrows, reason |-> newreason]
<1>1. PICK S : attempts \in Seq(S)
  BY DEF Turns
<1>2. attempts \in Seq(S \cup {made}) /\ attempts' = Append(attempts, made)
  BY <1>1 DEF Conclude
<1>3. /\ reader = Len(attempts) + 1 /\ Len(attempts) \in Nat /\ reader \in 1..3
      /\ \A i \in DOMAIN attempts' :
            (i \in DOMAIN attempts /\ i # reader /\ attempts'[i] = attempts[i])
              \/ (i = reader /\ attempts'[i] = made)
      /\ DOMAIN attempts = 1..Len(attempts)
  BY <1>1, <1>2 DEF Turns, Readers
<1>4. Reported'
  <2> SUFFICES ASSUME NEW i \in DOMAIN attempts' PROVE Says(i, attempts'[i], asked')
    BY DEF Reported
  <2>1. CASE i = reader
    BY <1>3, <2>1
  <2>2. CASE i # reader
    <3>1. i \in DOMAIN attempts /\ attempts'[i] = attempts[i] /\ Says(i, attempts[i], asked)
      BY <1>3, <2>2 DEF Told, Reported
    <3>2. i = 2 => asked' \cap Devices = asked \cap Devices
      BY <1>3, <2>2, <3>1 DEF DevicesOnly
    <3>3. asked \subseteq asked'
      BY DEF DevicesOnly
    <3> QED
      BY <3>1, <3>2, <3>3, SaysMore
  <2> QED
    BY <2>1, <2>2
<1>5. AtWork' /\ NoDeviceYet'
  <2>1. pc' # "run"
    BY DEF Conclude
  <2>2. CASE Wins(newrows)
    <3>1. pc' = "returned" /\ reader' = reader
      BY <2>2 DEF Conclude
    <3> QED
      BY <1>3, <2>1, <3>1 DEF AtWork, NoDeviceYet, Told, DevicesOnly
  <2>3. CASE ~Wins(newrows)
    <3>1. pc' = "choose" /\ reader' = reader + 1
      BY <2>3 DEF Conclude
    <3>2. reader' = 2 => reader = 1
      BY <1>3, <3>1
    <3>3. reader' # 1
      BY <1>3, <3>1
    <3> QED
      BY <2>1, <3>1, <3>2, <3>3 DEF AtWork, NoDeviceYet, Told, DevicesOnly
  <2> QED
    BY <2>2, <2>3
<1>6. Accounted'
  <2>1. CASE Wins(newrows)
    <3>1. newrows # {}
      BY <2>1 DEF Wins, RowsForPath
    <3>2. result'.rows = newrows
      BY <2>1 DEF Conclude
    <3> QED
      BY <3>1, <3>2 DEF Accounted, NothingSkippedSilently
  <2>2. CASE ~Wins(newrows)
    BY <2>2 DEF Conclude, Accounted, Returned
  <2> QED
    BY <2>1, <2>2
<1> QED
  BY <1>4, <1>5, <1>6 DEF Told

\* A reader goes on, or is done.
LEMMA GoOnTells ==
    ASSUME Turns, Told, pc = "run", DevicesOnly, NEW newrows, NEW newreason, NEW more,
           GoOn(newrows, newreason, more),
           IF more = <<>> THEN Says(reader, [rows |-> newrows, reason |-> newreason], asked')
           ELSE At(reader, more, asked', newreason)
    PROVE  Told'
<1>1. CASE more = <<>>
  <2>1. Conclude(newrows, newreason)
    BY <1>1 DEF GoOn
  <2> QED
    BY <1>1, <2>1, ConcludeTells
<1>2. CASE more # <<>>
  <2>1. /\ commands' = more /\ reason' = newreason
        /\ UNCHANGED <<pc, reader, attempts, result>>
    BY <1>2 DEF GoOn
  <2>2. AtWork'
    BY <1>2, <2>1 DEF AtWork
  <2>3. NoDeviceYet'
    <3>1. reader = 1 => asked' \cap Devices = {}
      BY DEF Told, NoDeviceYet, DevicesOnly
    <3> QED
      BY <2>1, <3>1 DEF NoDeviceYet
  <2>4. Reported'
    <3> SUFFICES ASSUME NEW i \in DOMAIN attempts PROVE Says(i, attempts[i], asked')
      BY <2>1 DEF Reported
    <3>1. Says(i, attempts[i], asked)
      BY DEF Told, Reported
    <3>2. i = 2 => reader # 2
      <4>1. PICK S : attempts \in Seq(S)
        BY DEF Turns
      <4>2. DOMAIN attempts = 1..Len(attempts) /\ Len(attempts) \in Nat /\ reader = Len(attempts) + 1
        BY <4>1 DEF Turns
      <4> QED
        BY <4>2
    <3> QED
      BY <3>1, <3>2, SaysMore DEF DevicesOnly
  <2>5. Accounted'
    BY <2>1 DEF Accounted, Returned
  <2> QED
    BY <2>2, <2>3, <2>4, <2>5 DEF Told
<1> QED
  BY <1>1, <1>2

-----------------------------------------------------------------------------
(* `quota` at work.                                                        *)

\* Its only command is run, or is said not to have been.
LEMMA QuotaTells ==
    ASSUME Turns, Told, reader = 1,
           NotRun \/ Rows \/ NoRows \/ ProjectId \/ Fails \/ Missing \/ TimesOut
    PROVE  Told'
<1>1. pc = "run" /\ commands # <<>>
  BY DEF NotRun, Rows, NoRows, ProjectId, Fails, Missing, TimesOut, Ends, Starts, Working
<1>2. commands = <<"quota">> /\ reason \cap Absent = {}
  BY <1>1 DEF Told, AtWork, At, AtQuota
<1>3. Command = "quota" /\ Tail(commands) = <<>> /\ Readers[reader] = "quota"
  BY <1>2 DEF Command, Readers
<1>4. "quota" \notin Devices /\ "quota" \notin Absent /\ Failing = reason \cup {"quota"}
  BY <1>3, SiteAssumption DEF Words, Absent, Failing
<1>5. ASSUME NEW newrows, NEW newreason, NEW ask,
             newreason \in {reason, reason \cup {"quota"}}, "quota" \in ask \cup newreason
      PROVE  Says(reader, [rows |-> newrows, reason |-> newreason], ask)
  BY <1>2, <1>4, <1>5 DEF Says, QuotaSays
<1>6. CASE NotRun
  <2>1. GoOn(rows, Failing, <<>>) /\ asked' = asked /\ DevicesOnly
    BY <1>3, <1>6 DEF NotRun, DevicesOnly
  <2>2. Says(reader, [rows |-> rows, reason |-> Failing], asked')
    BY <1>4, <1>5
  <2> QED
    BY <1>1, <2>1, <2>2, GoOnTells
<1>7. ASSUME Starts PROVE DevicesOnly /\ "quota" \in asked'
  BY <1>3, <1>4, <1>7 DEF Starts, DevicesOnly
<1>8. CASE Rows
  <2>1. PICK ms \in SUBSET Prints(Command) : GoOn(rows \cup ms, reason, <<>>)
    BY <1>3, <1>8 DEF Rows
  <2>2. DevicesOnly /\ "quota" \in asked'
    BY <1>7, <1>8 DEF Rows, Ends
  <2>3. Says(reader, [rows |-> rows \cup ms, reason |-> reason], asked')
    BY <1>5, <2>2
  <2> QED
    BY <1>1, <2>1, <2>2, <2>3, GoOnTells
<1>9. CASE Fails \/ TimesOut
  <2>1. GoOn(rows, Failing, <<>>)
    BY <1>3, <1>9 DEF Fails, TimesOut
  <2>2. DevicesOnly
    BY <1>7, <1>9 DEF Fails, TimesOut, Ends
  <2>3. Says(reader, [rows |-> rows, reason |-> Failing], asked')
    BY <1>4, <1>5
  <2> QED
    BY <1>1, <2>1, <2>2, <2>3, GoOnTells
<1>10. CASE Missing
  <2>1. Conclude(rows, reason \cup {"quota"})
    BY <1>3, <1>10 DEF Missing, Gone
  <2>2. DevicesOnly
    BY <1>7, <1>10 DEF Missing, Ends
  <2>3. Says(reader, [rows |-> rows, reason |-> reason \cup {"quota"}], asked')
    BY <1>5
  <2> QED
    BY <1>1, <2>1, <2>2, <2>3, ConcludeTells
<1>11. ~NoRows /\ ~ProjectId
  BY <1>3 DEF NoRows, ProjectId
<1> QED
  BY <1>6, <1>8, <1>9, <1>10, <1>11

-----------------------------------------------------------------------------
(* `mmlsquota` at work.                                                    *)

\* When its next command was asked, it goes on to what is left, or has asked the
\* closest device and all it was to ask.
LEMMA DevicesGoOn ==
    ASSUME pc = "run", reader = 2, Told, NEW newrows, NEW why \in {reason, Failing}
    PROVE  IF Tail(commands) = <<>>
             THEN Says(2, [rows |-> newrows, reason |-> why], asked \cup {Command})
             ELSE At(2, Tail(commands), asked \cup {Command}, why)
<1> DEFINE T == Tail(commands)
           A == asked \cup {Command}
           made == [rows |-> newrows, reason |-> why]
<1>1. /\ commands \in Seq({"default"} \cup Devices) /\ commands # <<>>
      /\ {"default"} \cup ToSet(AsksDevices) \subseteq asked \cup ToSet(commands)
      /\ "default" \notin ToSet(Tail(commands))
      /\ Capped => "cap" \in reason
      /\ reason \cap Absent = {}
  BY DEF Told, AtWork, At, AtDevices
<1>2. /\ Command \in {"default"} \cup Devices /\ T \in Seq({"default"} \cup Devices)
      /\ ToSet(commands) = {Command} \cup ToSet(T)
      /\ T # <<>> => Head(T) \in ToSet(T)
      /\ ToSet(Tail(T)) \subseteq ToSet(T)
  <2>1. Command = Head(commands)
    BY DEF Command
  <2> QED
    BY <1>1, <2>1, Taken
<1>3. Command \notin Absent
  BY <1>2, SiteAssumption DEF Words, Absent
<1>4. why \cap Absent = {} /\ reason \subseteq why
  BY <1>1, <1>3 DEF Failing
<1>5. {"default"} \cup ToSet(AsksDevices) \subseteq A \cup ToSet(T)
  BY <1>1, <1>2
<1> HIDE DEF T, A
<1>6. CASE T # <<>>
  <2>1. AtDevices(T, A, why)
    BY <1>1, <1>2, <1>4, <1>5, <1>6 DEF AtDevices, T
  <2> QED
    BY <1>4, <1>6, <2>1 DEF At, T, A
<1>7. CASE T = <<>>
  <2>1. "default" \in A /\ ToSet(AsksDevices) \subseteq A
    BY <1>5, <1>7, NoneIn
  <2>2. ClosestAsked(made, A)
    <3>1. CASE Devices = {}
      BY <3>1 DEF ClosestAsked
    <3>2. CASE Devices # {}
      <4>1. /\ AsksDevices \in Seq(Devices) /\ AsksDevices # <<>>
            /\ \A e \in Devices : Reach(e) <= Reach(AsksDevices[1])
        BY <3>2, DevicesAsked
      <4>2. AsksDevices[1] \in Devices /\ 1 \in DOMAIN AsksDevices
        BY <4>1
      <4>3. AsksDevices[1] \in A
        BY <2>1, <4>2 DEF ToSet
      <4> QED
        BY <4>1, <4>2, <4>3 DEF ClosestAsked
    <3> QED
      BY <3>1, <3>2
  <2>3. DevicesSay(made, A)
    <3>1. Devices \subseteq A \/ "cap" \in why
      BY <1>1, <1>4, <2>1, DevicesAsked
    <3> QED
      BY <1>4, <2>1, <3>1 DEF DevicesSay
  <2> QED
    BY <1>7, <2>2, <2>3 DEF Says, T, A
<1> QED
  BY <1>6, <1>7 DEF T

\* The default filesystem answers for all devices; a tool that is not there is
\* found missing by the first command; time that is up is said to be.
LEMMA DevicesTell ==
    ASSUME Turns, Told, reader = 2,
           \/ NoTimeForDevice \/ NotRun \/ Rows \/ NoRows \/ ProjectId \/ Fails \/ Missing
           \/ TimesOut
    PROVE  Told'
<1>1. pc = "run" /\ commands # <<>>
  BY DEF NoTimeForDevice, NotRun, Rows, NoRows, ProjectId, Fails, Missing, TimesOut, Ends,
         Starts, Working
<1>2. /\ AtDevices(commands, asked, reason) /\ reason \cap Absent = {}
      /\ Readers[reader] = "mmlsquota"
  BY <1>1 DEF Told, AtWork, At, Readers
<1>3. /\ Command \in {"default"} \cup Devices
      /\ ToSet(commands) = {Command} \cup ToSet(Tail(commands))
  BY <1>1, <1>2, Taken DEF AtDevices, Command
<1>4. Command # "project" /\ "default" \notin Devices
  BY <1>3, SiteAssumption DEF Words
<1>5. ASSUME Starts PROVE DevicesOnly /\ asked' = asked \cup {Command}
  BY <1>5 DEF Starts, DevicesOnly
<1>6. CASE NoTimeForDevice
  <2>1. Conclude(rows, reason \cup {"budget"}) /\ asked' = asked /\ DevicesOnly
    BY <1>6 DEF NoTimeForDevice, DevicesOnly
  <2>2. "budget" \notin Absent
    BY DEF Absent
  <2>3. Says(reader, [rows |-> rows, reason |-> reason \cup {"budget"}], asked')
    BY <1>2, <2>2 DEF Says, ClosestAsked, DevicesSay
  <2> QED
    BY <1>1, <2>1, <2>3, ConcludeTells
<1>7. CASE Rows /\ Command = "default"
  <2>1. PICK ms \in (SUBSET Prints(Command)) \ {{}} : GoOn(rows \cup ms, reason, <<>>)
    BY <1>7 DEF Rows
  <2>2. DevicesOnly /\ asked' = asked \cup {"default"}
    BY <1>5, <1>7 DEF Rows, Ends
  <2>3. asked \cap Devices = {}
    BY <1>2, <1>7 DEF AtDevices, Command
  <2>4. rows \cup ms # {} /\ asked' \cap Devices = {}
    <3>1. ms # {}
      BY <2>1
    <3> QED
      BY <1>4, <2>2, <2>3, <3>1
  <2>5. Says(reader, [rows |-> rows \cup ms, reason |-> reason], asked')
    BY <2>4 DEF Says, ClosestAsked, DevicesSay
  <2> QED
    BY <1>1, <2>1, <2>2, <2>5, GoOnTells
<1>8. CASE Rows /\ Command # "default"
  <2>1. PICK ms \in SUBSET Prints(Command) : GoOn(rows \cup ms, reason, Tail(commands))
    BY <1>8 DEF Rows
  <2>2. DevicesOnly /\ asked' = asked \cup {Command}
    BY <1>5, <1>8 DEF Rows, Ends
  <2>3. IF Tail(commands) = <<>>
          THEN Says(reader, [rows |-> rows \cup ms, reason |-> reason], asked')
          ELSE At(reader, Tail(commands), asked', reason)
    BY <1>1, <2>2, DevicesGoOn
  <2> QED
    BY <1>1, <2>1, <2>2, <2>3, GoOnTells
<1>9. CASE NoRows \/ Fails \/ TimesOut
  <2>1. PICK why \in {reason, Failing} : GoOn(rows, why, Tail(commands))
    BY <1>9 DEF NoRows, Fails, TimesOut
  <2>2. DevicesOnly /\ asked' = asked \cup {Command}
    BY <1>5, <1>9 DEF NoRows, Fails, TimesOut, Ends
  <2>3. IF Tail(commands) = <<>>
          THEN Says(reader, [rows |-> rows, reason |-> why], asked')
          ELSE At(reader, Tail(commands), asked', why)
    BY <1>1, <2>2, DevicesGoOn
  <2> QED
    BY <1>1, <2>1, <2>2, <2>3, GoOnTells
<1>10. CASE Missing
  <2>1. Conclude(rows, reason \cup {"no_mmlsquota"})
    BY <1>2, <1>10 DEF Missing, Gone
  <2>2. DevicesOnly /\ asked' = asked \cup {Command}
    BY <1>5, <1>10 DEF Missing, Ends
  <2>3. "default" \in asked'
    BY <1>2, <1>3, <2>2 DEF AtDevices
  <2>4. Says(reader, [rows |-> rows, reason |-> reason \cup {"no_mmlsquota"}], asked')
    BY <2>3 DEF Says, ClosestAsked, DevicesSay, Absent
  <2> QED
    BY <1>1, <2>1, <2>2, <2>4, ConcludeTells
<1>11. ~NotRun /\ ~ProjectId
  BY <1>2, <1>4 DEF NotRun, ProjectId
<1> QED
  BY <1>6, <1>7, <1>8, <1>9, <1>10, <1>11

-----------------------------------------------------------------------------
(* `lfs` at work.                                                          *)

\* The scope of the user is asked about, is said to have failed, or is to come.
LEMMA LfsGoOn ==
    ASSUME pc = "run", reader = 3, Told, NEW newrows, NEW why, NEW ask, NEW more,
           why \cap Absent = {}, asked \subseteq ask, reason \subseteq why,
           Command = "user" => "user" \in ask \cup why,
           more = Tail(commands) \/ more = Append(Tail(commands), "projectquota")
    PROVE  IF more = <<>> THEN Says(3, [rows |-> newrows, reason |-> why], ask)
           ELSE At(3, more, ask, why)
<1> DEFINE S == {"project", "projectquota", "user", "group"}
<1>1. /\ commands \in Seq(S) /\ commands # <<>>
      /\ "user" \in asked \cup reason \cup ToSet(commands)
  BY DEF Told, AtWork, At, AtLfs
<1>2. /\ Tail(commands) \in Seq(S)
      /\ ToSet(commands) = {Command} \cup ToSet(Tail(commands))
  BY <1>1, Taken DEF Command
<1>3. "user" \in ask \cup why \cup ToSet(Tail(commands))
  BY <1>1, <1>2
<1>4. more \in Seq(S) /\ ToSet(Tail(commands)) \subseteq ToSet(more)
  <2>1. CASE more = Tail(commands)
    BY <1>2, <2>1
  <2>2. CASE more = Append(Tail(commands), "projectquota")
    <3> DEFINE t == Tail(commands)
    <3>1. t \in Seq(S) /\ more = Append(t, "projectquota")
      BY <1>2, <2>2
    <3> HIDE DEF t
    <3>2. more \in Seq(S) /\ Len(more) = Len(t) + 1 /\ \A i \in 1..Len(t) : more[i] = t[i]
      BY <3>1
    <3>3. DOMAIN t = 1..Len(t) /\ DOMAIN more = 1..Len(more) /\ Len(t) \in Nat
      BY <3>1, <3>2
    <3>4. ToSet(t) \subseteq ToSet(more)
      BY <3>2, <3>3 DEF ToSet
    <3> QED
      BY <3>2, <3>4 DEF t
  <2> QED
    BY <2>1, <2>2
<1>5. CASE more = <<>>
  <2>1. "user" \in ask \cup why
    BY <1>3, <1>4, <1>5, NoneIn
  <2> QED
    BY <1>5, <2>1 DEF Says, LfsSays
<1>6. CASE more # <<>>
  BY <1>3, <1>4, <1>6 DEF At, AtLfs
<1> QED
  BY <1>5, <1>6

\* No command of `lfs` asks a device.
LEMMA LfsTells ==
    ASSUME Turns, Told, reader = 3,
           NotRun \/ Rows \/ NoRows \/ ProjectId \/ Fails \/ Missing \/ TimesOut
    PROVE  Told'
<1>1. pc = "run" /\ commands # <<>>
  BY DEF NotRun, Rows, NoRows, ProjectId, Fails, Missing, TimesOut, Ends, Starts, Working
<1>2. /\ AtLfs(commands, asked, reason) /\ reason \cap Absent = {}
      /\ Readers[reader] = "lfs"
  BY <1>1 DEF Told, AtWork, At, Readers
<1>3. Command \in {"project", "projectquota", "user", "group"}
  BY <1>1, <1>2, Taken DEF AtLfs, Command
<1>4. Command \notin Devices /\ Command \notin Absent
  BY <1>3, SiteAssumption DEF Words, Absent
<1>5. ASSUME Starts PROVE DevicesOnly /\ asked' = asked \cup {Command}
  BY <1>4, <1>5 DEF Starts, DevicesOnly
<1>6. /\ Failing \cap Absent = {} /\ reason \subseteq Failing
      /\ Command = "user" => "user" \in Failing
  BY <1>2, <1>4 DEF Failing
<1>7. CASE NotRun
  <2>1. GoOn(rows, Failing, Tail(commands)) /\ asked' = asked /\ DevicesOnly
    BY <1>7 DEF NotRun, DevicesOnly
  <2>2. IF Tail(commands) = <<>> THEN Says(reader, [rows |-> rows, reason |-> Failing], asked')
        ELSE At(reader, Tail(commands), asked', Failing)
    BY <1>1, <1>6, <2>1, LfsGoOn
  <2> QED
    BY <1>1, <2>1, <2>2, GoOnTells
<1>8. CASE Rows
  <2>1. PICK ms \in SUBSET Prints(Command) : GoOn(rows \cup ms, reason, Tail(commands))
    BY <1>3, <1>8 DEF Rows
  <2>2. DevicesOnly /\ asked' = asked \cup {Command}
    BY <1>5, <1>8 DEF Rows, Ends
  <2>3. IF Tail(commands) = <<>>
          THEN Says(reader, [rows |-> rows \cup ms, reason |-> reason], asked')
          ELSE At(reader, Tail(commands), asked', reason)
    BY <1>1, <1>2, <2>2, LfsGoOn
  <2> QED
    BY <1>1, <2>1, <2>2, <2>3, GoOnTells
<1>9. CASE NoRows \/ ProjectId \/ Fails \/ TimesOut
  <2>1. PICK why \in {reason, Failing},
             more \in {Tail(commands), Append(Tail(commands), "projectquota")} :
             GoOn(rows, why, more)
    BY <1>9 DEF NoRows, ProjectId, Fails, TimesOut
  <2>2. DevicesOnly /\ asked' = asked \cup {Command}
    BY <1>5, <1>9 DEF NoRows, ProjectId, Fails, TimesOut, Ends
  <2>3. why \cap Absent = {} /\ reason \subseteq why
    BY <1>2, <1>6
  <2>4. IF more = <<>> THEN Says(reader, [rows |-> rows, reason |-> why], asked')
        ELSE At(reader, more, asked', why)
    BY <1>1, <2>2, <2>3, LfsGoOn
  <2> QED
    BY <1>1, <2>1, <2>2, <2>4, GoOnTells
<1>10. CASE Missing
  <2>1. Conclude(rows, reason \cup {"no_lfs"})
    BY <1>2, <1>10 DEF Missing, Gone
  <2>2. DevicesOnly
    BY <1>5, <1>10 DEF Missing, Ends
  <2>3. Says(reader, [rows |-> rows, reason |-> reason \cup {"no_lfs"}], asked')
    BY DEF Says, LfsSays
  <2> QED
    BY <1>1, <2>1, <2>2, <2>3, ConcludeTells
<1> QED
  BY <1>7, <1>8, <1>9, <1>10

-----------------------------------------------------------------------------
(* Between the readers.                                                    *)

\* A reader sets out to run all it has to see to.
LEMMA ChooseTells == ASSUME Turns, Told, Choose PROVE Told'
<1>1. /\ pc = "choose" /\ pc' = "run" /\ commands' \in Plans(Readers[reader])
      /\ reason' = IF Readers[reader] = "mmlsquota" /\ Capped THEN {"cap"} ELSE {}
      /\ UNCHANGED <<clock, reader, asked, attempts, result>>
  BY DEF Choose
<1>2. reader \in 1..3
  <2>1. PICK S : attempts \in Seq(S)
    BY DEF Turns
  <2>2. reader = Len(attempts) + 1 /\ Len(attempts) \in Nat /\ reader <= 3
    BY <1>1, <2>1 DEF Turns, Choose, Readers
  <2> QED
    BY <2>2
<1>3. reason' \cap Absent = {}
  BY <1>1 DEF Absent
<1>4. reader = 1 => AtQuota(commands')
  BY <1>1 DEF Readers, Plans, AtQuota
<1>5. ASSUME reader = 2 PROVE AtDevices(commands', asked', reason')
  <2> DEFINE cs == <<"default">> \o AsksDevices
  <2>1. commands' = cs
    BY <1>1, <1>5 DEF Readers, Plans
  <2>2. AsksDevices \in Seq(Devices)
    BY DevicesAsked
  <2>3. cs \in Seq({"default"} \cup Devices) /\ cs # <<>>
    BY <2>2
  <2>4. Head(cs) = "default" /\ Tail(cs) = AsksDevices
    BY <2>2
  <2>5. ToSet(cs) = {"default"} \cup ToSet(AsksDevices)
    BY <2>3, <2>4, Taken
  <2>6. "default" \notin ToSet(AsksDevices)
    <3>1. "default" \notin Devices
      BY SiteAssumption DEF Words
    <3> QED
      BY <2>2, <3>1 DEF ToSet
  <2>7. asked' \cap Devices = {}
    BY <1>1, <1>5 DEF Told, NoDeviceYet
  <2>8. Capped => "cap" \in reason'
    BY <1>1, <1>5 DEF Readers
  <2> HIDE DEF cs
  <2> QED
    BY <2>1, <2>3, <2>4, <2>5, <2>6, <2>7, <2>8 DEF AtDevices
<1>6. ASSUME reader = 3 PROVE AtLfs(commands', asked', reason')
  <2>1. commands' \in {<<"project", "user", "group">>, <<"project", "user">>}
    BY <1>1, <1>6 DEF Readers, Plans
  <2> DEFINE S == {"project", "projectquota", "user", "group"}
             long == <<"project", "user", "group">>
             short == <<"project", "user">>
  <2>2. long \in Seq(S) /\ long # <<>> /\ 2 \in DOMAIN long /\ long[2] = "user"
    <3>1. long \in Seq(S) /\ Len(long) = 3 /\ long[2] = "user"
      OBVIOUS
    <3> HIDE DEF long
    <3> QED
      BY <3>1
  <2>3. short \in Seq(S) /\ short # <<>> /\ 2 \in DOMAIN short /\ short[2] = "user"
    <3>1. short \in Seq(S) /\ Len(short) = 2 /\ short[2] = "user"
      OBVIOUS
    <3> HIDE DEF short
    <3> QED
      BY <3>1
  <2> HIDE DEF long, short
  <2>4. commands' \in Seq(S) /\ commands' # <<>> /\ "user" \in ToSet(commands')
    BY <2>1, <2>2, <2>3 DEF ToSet, long, short
  <2> QED
    BY <2>4 DEF AtLfs
<1>7. AtWork'
  BY <1>1, <1>3, <1>4, <1>5, <1>6 DEF AtWork, At
<1>8. NoDeviceYet' /\ Reported' /\ Accounted'
  BY <1>1 DEF Told, NoDeviceYet, Reported, Accounted, Returned
<1> QED
  BY <1>7, <1>8 DEF Told

\* A snapshot of an absent tool says that; any other all its failures.
LEMMA SaidOf ==
    ASSUME NEW a, a.rows = {}
    PROVE  /\ a.reason \cap Absent # {} => Said(a) = a.reason \cap Absent
           /\ a.reason \cap Absent = {} => a.reason \subseteq Said(a)
  BY DEF Said

\* What the snapshots account for, the merged reason does.
LEMMA GiveUpTells == ASSUME Turns, Told, GiveUp PROVE Told'
<1>1. /\ pc = "choose" /\ pc' = "returned"
      /\ UNCHANGED <<clock, reader, commands, asked, rows, reason, attempts>>
  BY DEF GiveUp
<1>2. AtWork' /\ NoDeviceYet' /\ Reported'
  BY <1>1 DEF Told, AtWork, NoDeviceYet, Reported
<1>3. PICK S : attempts \in Seq(S)
  BY DEF Turns
<1>4. DOMAIN attempts = 1..Len(attempts) /\ Len(attempts) \in 0..3 /\ reader = Len(attempts) + 1
  <2>1. Len(attempts) \in Nat /\ DOMAIN attempts = 1..Len(attempts)
    BY <1>3
  <2>2. reader = Len(attempts) + 1 /\ Len(attempts) <= 3
    BY <1>1 DEF Turns, Readers
  <2> QED
    BY <2>1, <2>2
<1>5. CASE Fallbacks # {}
  <2>1. PICK i \in Fallbacks : \A j \in Fallbacks : i <= j
    <3>1. Fallbacks \subseteq 1..3 /\ IsFiniteSet(Fallbacks)
      BY <1>4, BoundedIsFinite DEF Fallbacks
    <3>2. Fallbacks \subseteq Int
      BY <3>1
    <3> HIDE DEF Fallbacks
    <3> QED
      BY <1>5, <3>1, <3>2, MinIsLeast
  <2> DEFINE first == CHOOSE k \in Fallbacks : \A j \in Fallbacks : k <= j
  <2>2. first \in Fallbacks
    BY <2>1
  <2>3. result'.rows = attempts[first].rows
    BY <1>5 DEF GiveUp
  <2>4. result'.rows # {}
    BY <2>2, <2>3 DEF Fallbacks
  <2>5. Accounted'
    BY <2>4 DEF Accounted, NothingSkippedSilently
  <2> QED
    BY <1>2, <2>5 DEF Told
<1>6. CASE Fallbacks = {}
  <2> DEFINE merged == (UNION {Said(attempts[i]) : i \in DOMAIN attempts}) \cup BudgetNote
  <2>1. result'.reason = merged /\ asked' = asked
    BY <1>1, <1>6 DEF GiveUp
  <2> HIDE DEF merged
  <2> SUFFICES ASSUME NEW c \in (Devices \cup {"quota", "default", "user"}) \ asked
               PROVE  merged \cap Excuses(c) # {}
    <3>1. Accounted'
      BY <2>1 DEF Accounted, NothingSkippedSilently, Excuses
    <3> QED
      BY <1>2, <3>1 DEF Told
  <2>2. CASE Budget = 0
    BY <2>2 DEF BudgetNote, Excuses, merged
  <2>3. CASE Budget # 0
    <3>1. DOMAIN attempts = 1..3
      <4>1. reader > 3
        BY <2>3 DEF GiveUp, OutOfTime, Readers
      <4> QED
        BY <1>4, <4>1
    <3>2. \A i \in 1..3 : /\ attempts[i].rows = {} /\ Says(i, attempts[i], asked)
                          /\ Said(attempts[i]) \subseteq merged
      BY <1>6, <3>1 DEF Fallbacks, Told, Reported, merged
    <3>3. /\ "quota" \notin Devices /\ "default" \notin Devices /\ "user" \notin Devices
          /\ "quota" \notin Absent
      BY SiteAssumption DEF Words, Absent
    <3>4. CASE c = "quota"
      <4>1. attempts[1].reason \cap Absent = {} /\ "quota" \in attempts[1].reason
        BY <3>2, <3>4 DEF Says, QuotaSays
      <4>2. "quota" \in merged
        BY <3>2, <4>1, SaidOf
      <4> QED
        BY <3>4, <4>2 DEF Excuses
    <3>5. CASE c \in Devices \cup {"default"}
      <4>1. DevicesSay(attempts[2], asked) /\ attempts[2].rows = {}
        BY <3>2 DEF Says
      <4>2. CASE attempts[2].reason \cap Absent # {}
        <5>1. "no_mmlsquota" \in attempts[2].reason /\ "default" \in asked
          BY <4>1, <4>2 DEF DevicesSay
        <5>2. "no_mmlsquota" \in merged
          BY <3>2, <4>1, <4>2, <5>1, SaidOf DEF Absent
        <5>3. c \in Devices
          BY <3>5, <5>1
        <5>4. "no_mmlsquota" \in Excuses(c)
          BY <3>3, <5>3 DEF Excuses
        <5> QED
          BY <5>2, <5>4
      <4>3. CASE attempts[2].reason \cap Absent = {}
        <5>1. attempts[2].reason \subseteq merged
          BY <3>2, <4>1, <4>3, SaidOf
        <5>2. "budget" \in merged \/ (c \in Devices /\ "cap" \in merged)
          BY <3>5, <4>1, <4>3, <5>1 DEF DevicesSay
        <5>3. "budget" \in Excuses(c) /\ (c \in Devices => "cap" \in Excuses(c))
          BY <3>3 DEF Excuses
        <5> QED
          BY <5>2, <5>3
      <4> QED
        BY <4>2, <4>3
    <3>6. CASE c = "user"
      <4>1. LfsSays(attempts[3], asked) /\ attempts[3].rows = {}
        BY <3>2 DEF Says
      <4>2. CASE "no_lfs" \in attempts[3].reason
        <5>1. "no_lfs" \in merged
          BY <3>2, <4>1, <4>2, SaidOf DEF Absent
        <5> QED
          BY <3>3, <3>6, <5>1 DEF Excuses
      <4>3. CASE "no_lfs" \notin attempts[3].reason
        <5>1. attempts[3].reason \cap Absent = {} /\ "user" \in attempts[3].reason
          BY <3>6, <4>1, <4>3 DEF LfsSays
        <5>2. "user" \in merged
          BY <3>2, <4>1, <5>1, SaidOf
        <5> QED
          BY <3>6, <5>2 DEF Excuses
      <4> QED
        BY <4>2, <4>3
    <3> QED
      BY <3>4, <3>5, <3>6
  <2> QED
    BY <2>2, <2>3
<1> QED
  BY <1>5, <1>6

\* Every step keeps what is told.
LEMMA ToldKept == ASSUME Turns, Told, [Next]_vars PROVE Told'
<1>1. CASE Choose
  BY <1>1, ChooseTells
<1>2. CASE GiveUp
  BY <1>2, GiveUpTells
<1>3. CASE NoTimeForDevice
  <2>1. reader = 2
    <3>1. reader \in 1..3
      BY <1>3 DEF NoTimeForDevice, Working, Turns, Readers
    <3> QED
      BY <1>3, <3>1 DEF NoTimeForDevice, Readers
  <2> QED
    BY <1>3, <2>1, DevicesTell
<1>4. CASE NotRun \/ Rows \/ NoRows \/ ProjectId \/ Fails \/ Missing \/ TimesOut
  <2>1. reader \in 1..3
    <3>1. pc = "run"
      BY <1>4 DEF NotRun, Rows, NoRows, ProjectId, Fails, Missing, TimesOut, Ends, Starts, Working
    <3> QED
      BY <3>1 DEF Turns, Readers
  <2>2. reader = 1 \/ reader = 2 \/ reader = 3
    BY <2>1
  <2> QED
    BY <1>4, <2>2, QuotaTells, DevicesTell, LfsTells
<1>5. CASE Over \/ UNCHANGED vars
  <2>1. UNCHANGED vars
    BY <1>5 DEF Over
  <2> QED
    BY <2>1 DEF vars, Told, AtWork, NoDeviceYet, Reported, Accounted, Returned,
                NothingSkippedSilently
<1> QED
  BY <1>1, <1>2, <1>3, <1>4, <1>5 DEF Next

\* What is told is told in every state.
LEMMA AlwaysTold == Spec => [](Turns /\ Told)
<1>1. Init => Told
  BY DEF Init, Told, AtWork, NoDeviceYet, Reported, Accounted, Returned
<1>2. Spec => []Turns
  BY Invariant, PTL DEF Inductive
<1>3. Turns /\ Told /\ [Next]_vars => Told'
  BY ToldKept
<1> QED
  BY <1>1, <1>2, <1>3, PTL DEF Spec

\* A result without rows accounts for every filesystem and backend that did not
\* get its turn, however the commands before it ended (quota.py, `read_best` and
\* its readers).
THEOREM NothingIsSkippedSilently == Spec => []NothingSkippedSilently
<1>1. Told => NothingSkippedSilently
  BY DEF Told, Accounted, NothingSkippedSilently
<1> QED
  BY AlwaysTold, <1>1, PTL

\* The cap bounds the cost and not the answer: of any number of devices, one than
\* which none contains the path more closely is asked (quota.py,
\* `_device_order`, `read_mmlsquota`).
THEOREM PathDeviceIsAsked == Spec => []PathDeviceAsked
<1>1. ASSUME Turns, Told PROVE PathDeviceAsked
  <2> SUFFICES ASSUME NEW i \in DOMAIN attempts, Readers[i] = "mmlsquota"
               PROVE  ClosestAsked(attempts[i], asked)
    BY DEF PathDeviceAsked, ClosestAsked
  <2>1. Says(i, attempts[i], asked)
    BY <1>1 DEF Told, Reported
  <2>2. i = 2
    <3>1. i = 1 \/ i = 2 \/ i = 3
      BY <2>1 DEF Says
    <3> QED
      BY <3>1 DEF Readers
  <2> QED
    BY <2>1, <2>2 DEF Says
<1> QED
  BY AlwaysTold, <1>1, PTL
=============================================================================

----------------------------- MODULE QuotaRead -----------------------------
(***************************************************************************)
(* Reading the quota that governs a path (quota.py, `read_best` and its    *)
(* three readers).                                                         *)
(*                                                                         *)
(* The readers run commands one after the other: `quota -s`; `mmlsquota`   *)
(* bare and then once per GPFS device, up to a cap; `lfs project` and `lfs *)
(* quota` once per scope.  All share one deadline.  A snapshot is reduced  *)
(* to the mount points of its rows and to what its reason says; what a     *)
(* command prints, and how long it takes, is anything.                     *)
(*                                                                         *)
(* A definition named Mut... is a plausible mistake in the definition that *)
(* follows it: putting it there breaks the property PROJECT.json names.    *)
(***************************************************************************)
EXTENDS Naturals, Sequences, FiniteSets, SequencesExt

CONSTANTS
    Mounts,            \* the mount points rows can name
    Covers,            \* the length of a mount that contains the path; 0 of one
                       \* that does not, and of a row without a mount
    DeviceMounts,      \* the mounts of each GPFS device
    ByName,            \* the devices, in the order of their names
    MaxDevices,        \* _MAX_MMLSQUOTA_DEVICES
    Timeout,           \* the budget, in ticks
    Linger             \* how long a killed command may keep its output open

Devices == DOMAIN DeviceMounts
Absent == {"no_mmlsquota", "no_lfs"}

\* What is run or said that is not about one device.  A device stands for the
\* command that asks about it, and so is none of these.
Words == {"quota", "default", "project", "projectquota", "user", "group"} \cup Absent

ASSUME SiteAssumption ==
    /\ IsFiniteSet(Mounts) /\ Covers \in [Mounts -> Nat]
    /\ Devices \cap Words = {}
    /\ ByName \in Seq(Devices)
    /\ Len(ByName) = Cardinality(Devices) /\ ToSet(ByName) = Devices
    /\ \A d \in Devices : DeviceMounts[d] \subseteq Mounts
    /\ {MaxDevices, Timeout} \subseteq Nat \ {0}
    /\ Linger \in Nat

Readers == <<"quota", "mmlsquota", "lfs">>

VARIABLES
    clock,             \* time.time() since the call
    pc, reader,        \* the next reader of read_best, or the one at work
    commands,          \* what the reader at work has still to run
    asked,             \* every command that was started
    rows,              \* the mounts of the snapshot being made
    reason,            \* its failures: commands, and notes
    attempts,          \* the snapshots made, in order
    result             \* what read_best returns: the rows, and the reason

vars == <<clock, pc, reader, commands, asked, rows, reason, attempts, result>>

Init ==
    /\ clock = 0
    /\ pc = "choose" /\ reader = 1
    /\ commands = <<>> /\ asked = {}
    /\ rows = {} /\ reason = {}
    /\ attempts = <<>>
    /\ result = [rows |-> {}, reason |-> {}]

-----------------------------------------------------------------------------
(* Pure parts.                                                             *)

\* _budget: what is left of the whole.
Budget == IF clock < Timeout THEN Timeout - clock ELSE 0

\* rows_for_path: the rows with the longest mount that contains the path.
RowsForPath(ms) ==
    {m \in ms : Covers[m] > 0 /\ \A n \in ms : Covers[n] <= Covers[m]}

\* How closely a device contains the path.
Reach(d) == Max({Covers[m] : m \in DeviceMounts[d]} \cup {0})

Place(d) == CHOOSE i \in DOMAIN ByName : ByName[i] = d
Named(d, e) == Place(d) < Place(e)

\* The devices in the order of their names.
MutBefore(d, e) == Named(d, e)

\* _device_order: closest first, then by name.
Before(d, e) == Reach(d) > Reach(e) \/ (Reach(d) = Reach(e) /\ Named(d, e))
DeviceOrder ==
    CHOOSE order \in [1..Cardinality(Devices) -> Devices] :
        \A i, j \in DOMAIN order : i < j => Before(order[i], order[j])
Capped == Cardinality(Devices) > MaxDevices

AsksDevices ==
    SubSeq(DeviceOrder, 1, IF Capped THEN MaxDevices ELSE Len(DeviceOrder))

\* What a reader sets out to run.  A group without a name is not asked about.
Plans(r) ==
    CASE r = "quota" -> {<<"quota">>}
      [] r = "mmlsquota" -> {<<"default">> \o AsksDevices}
      [] r = "lfs" -> {<<"project", "user", "group">>, <<"project", "user">>}

\* The mounts a command's rows can name.
Prints(c) == IF c \in Devices THEN DeviceMounts[c] ELSE Mounts

\* What a snapshot says: nothing if it has rows; else the tool that is not
\* there, before the failures, before a last resort.
Said(a) ==
    IF a.rows # {} THEN {}
    ELSE IF a.reason \cap Absent # {} THEN a.reason \cap Absent
    ELSE IF a.reason = {} THEN {"no_rows"}
    ELSE a.reason

-----------------------------------------------------------------------------
(* read_best's loop over the readers.                                      *)

\* The budget is looked at even before the first reader.
OutOfTime == Budget = 0 /\ attempts # <<>>

Choose ==
    /\ pc = "choose"
    /\ reader <= Len(Readers)
    /\ ~OutOfTime
    /\ pc' = "run"
    /\ commands' \in Plans(Readers[reader])
    /\ rows' = {}
    /\ reason' = IF Readers[reader] = "mmlsquota" /\ Capped THEN {"cap"} ELSE {}
    /\ UNCHANGED <<clock, reader, asked, attempts, result>>

Fallbacks == {i \in DOMAIN attempts : attempts[i].rows # {}}

\* The first reader with any row is taken, whatever path was asked about.
MutWins(ms) == ms # {}

\* A reader wins with a row that governs the path.
Wins(ms) == RowsForPath(ms) # {}

\* The reader at work is done: its snapshot wins, or the next one's turn is.
Conclude(newrows, newreason) ==
    /\ attempts' = Append(attempts, [rows |-> newrows, reason |-> newreason])
    /\ commands' = <<>>
    /\ rows' = {} /\ reason' = {}
    /\ IF Wins(newrows)
         THEN /\ pc' = "returned"
              /\ result' = [rows |-> newrows, reason |-> {}]
              /\ UNCHANGED reader
         ELSE /\ pc' = "choose"
              /\ reader' = reader + 1
              /\ UNCHANGED result

\* The exhausted budget is not mentioned.
MutBudgetNote == {}
BudgetNote == IF Budget = 0 THEN {"budget"} ELSE {}

\* Every reader had its turn, or there is no time: the first snapshot with rows
\* is the fallback, and without one the reasons are merged.
GiveUp ==
    /\ pc = "choose"
    /\ reader > Len(Readers) \/ OutOfTime
    /\ pc' = "returned"
    /\ result' =
          IF Fallbacks # {}
            THEN LET first == CHOOSE i \in Fallbacks : \A j \in Fallbacks : i <= j
                 IN [rows |-> attempts[first].rows, reason |-> {}]
            ELSE [rows |-> {},
                  reason |-> (UNION {Said(attempts[i]) : i \in DOMAIN attempts})
                                \cup BudgetNote]
    /\ UNCHANGED <<clock, reader, commands, asked, rows, reason, attempts>>

-----------------------------------------------------------------------------
(* One command: _run, and what its reader makes of the outcome.            *)

Command == Head(commands)
Working == pc = "run" /\ commands # <<>>

\* A command is started however little time is left.
MutMayStart == TRUE

\* A spent budget starts nothing.
MayStart == Budget > 0

\* The reader goes on to its next command, or is done.
GoOn(newrows, newreason, more) ==
    IF more = <<>>
      THEN Conclude(newrows, newreason)
      ELSE /\ commands' = more
           /\ rows' = newrows /\ reason' = newreason
           /\ UNCHANGED <<pc, reader, attempts, result>>

\* A failure is kept, but for the project id: one that cannot be read is none.
Failing == reason \cup ({Command} \ {"project"})

\* mmlsquota looks at the budget itself and asks no further device.
NoTimeForDevice ==
    /\ Working
    /\ Readers[reader] = "mmlsquota"
    /\ Budget = 0
    /\ Conclude(rows, reason \cup {"budget"})
    /\ UNCHANGED <<clock, asked>>

\* _run without a budget starts nothing: 124.
NotRun ==
    /\ Working
    /\ Readers[reader] # "mmlsquota"
    /\ ~MayStart
    /\ GoOn(rows, Failing, Tail(commands))
    /\ UNCHANGED <<clock, asked>>

Starts ==
    /\ Working
    /\ MayStart
    /\ asked' = asked \cup {Command}

\* A command that ends by itself does so in time.
Ends ==
    /\ Starts
    /\ \E t \in 0..Budget : clock' = clock + t

\* It prints rows.  The default filesystem's spare asking the devices.
Rows ==
    /\ Ends
    /\ Command # "project"
    /\ \E ms \in (SUBSET Prints(Command)) \ {{}} :
          GoOn(rows \cup ms, reason,
               IF Command = "default" THEN <<>> ELSE Tail(commands))

\* It prints what is no failure, and holds no row.
NoRows ==
    /\ Ends
    /\ Command \notin {"quota", "project"}
    /\ GoOn(rows, reason, Tail(commands))

\* It prints a project id, which makes one more scope.
ProjectId ==
    /\ Ends
    /\ Command = "project"
    /\ GoOn(rows, reason, Append(Tail(commands), "projectquota"))

\* It fails, or prints nothing of use.
Fails ==
    /\ Ends
    /\ GoOn(rows, Failing, Tail(commands))

\* What is said of a reader whose tool is not there.
Gone(r) ==
    CASE r = "quota" -> "quota"
      [] r = "mmlsquota" -> "no_mmlsquota"
      [] r = "lfs" -> "no_lfs"

\* It is not there, or wraps what is not: the reader asks no further.
Missing ==
    /\ Ends
    /\ Command # "project"
    /\ Conclude(rows, reason \cup {Gone(Readers[reader])})

\* It is killed at the deadline, and waited for until its output is closed.
TimesOut ==
    /\ Starts
    /\ \E t \in 0..Linger : clock' = clock + Budget + t
    /\ GoOn(rows, Failing, Tail(commands))

Over == pc = "returned" /\ UNCHANGED vars

Next ==
    \/ Choose \/ GiveUp \/ NoTimeForDevice \/ NotRun \/ Rows \/ NoRows
    \/ ProjectId \/ Fails \/ Missing \/ TimesOut \/ Over

Spec == Init /\ [][Next]_vars

-----------------------------------------------------------------------------
(* Properties.                                                             *)

Returned == pc = "returned"

\* "A backend wins by mapping the path the caller actually asked about": a
\* result with no row that governs the path is returned only after every reader
\* had its turn or the time is up, and no reader had such a row.
AnswerForPathWins ==
    Returned /\ RowsForPath(result.rows) = {} =>
       /\ Len(attempts) = Len(Readers) \/ Budget = 0
       /\ \A i \in DOMAIN attempts : RowsForPath(attempts[i].rows) = {}

\* What may stand in a reason for a command that was not run.
Excuses(c) ==
    {c, "budget"} \cup
       CASE c \in Devices -> {"cap", "no_mmlsquota"}
         [] c = "user" -> {"no_lfs"}
         [] OTHER -> {}

\* A result without rows accounts for all that was not asked: each filesystem
\* and each backend that did not get its turn is covered by a reason that
\* read_best merges into the answer.
NothingSkippedSilently ==
    Returned /\ result.rows = {} =>
       \A c \in (Devices \cup {"quota", "default", "user"}) \ asked :
          result.reason \cap Excuses(c) # {}

\* "A bound on cost rather than on correctness": unless time ran out, the tool
\* is absent or the default filesystem answered, mmlsquota has asked a device
\* than which none contains the path more closely.
PathDeviceAsked ==
    \A i \in DOMAIN attempts : Readers[i] = "mmlsquota" =>
       \/ attempts[i].reason \cap {"budget", "no_mmlsquota"} # {}
       \/ asked \cap Devices = {} /\ attempts[i].rows # {}
       \/ Devices = {}
       \/ \E d \in asked \cap Devices : \A e \in Devices : Reach(e) <= Reach(d)

\* However many commands hang, the budget is overrun by what one of them takes
\* to die, and no command adds to it.
OverrunIsOneKill == clock <= Timeout + Linger
=============================================================================

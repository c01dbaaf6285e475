------------------------------ MODULE WalkProof ------------------------------
(***************************************************************************)
(* The safety proofs of Walk, in the layers of its inductive invariant,    *)
(* and that Walk implements WalkContract:                                  *)
(*                                                                         *)
(*   1. where a directory is, what is noted of the tree, the counters;     *)
(*   2. what the result holds;                                             *)
(*   3. to 5. how a walk ends;                                             *)
(*   6. and 7. what it publishes, and the contract of the caller.          *)
(***************************************************************************)
EXTENDS WalkRefines, WalkInv, FiniteSetTheorems, TLAPS

(***************************************************************************)
(* Walk's types, its counters and what its workers note of the tree:       *)
(* the first layer of the inductive invariant, on which the others rest.   *)
(* First the lemmas about the operators Walk is built from: tallies and    *)
(* charges, the counters and the cardinalities they stand for, and the     *)
(* five ways a scan accounts for an entry, reduced to one.                 *)
(*                                                                         *)
(* The layer is self-contained: where a directory is (HeldInv, PlacesInv,  *)
(* PlacedInv), what has been noted (NotesInv), and the two counters, whose *)
(* decrements TypeOK alone could not bound below by zero.                  *)
(***************************************************************************)

-----------------------------------------------------------------------------
(* Tallies.                                                                *)

Outcomes == Dispositions \cup {"unreadable"}

\* What an entry is accounted for is the sum of four figures.
LEMMA AccountsLemma ==
    ASSUME NEW t, NEW e
    PROVE  Accounts(t, e) = Figure(t, "counted", e) + Figure(t, "extra", e)
                              + Figure(t, "unstat", e) + Figure(t, "crossed", e)
  BY DEF Accounts, Figure

\* Reading a tally: figures and accounts are natural numbers.
LEMMA TallyLemma ==
    ASSUME NEW t \in Tallies, NEW e \in Entries
    PROVE  /\ \A o \in Outcomes : Figure(t, o, e) \in Nat
           /\ Accounts(t, e) \in Nat
           /\ \A o \in Dispositions : Figure(t, o, e) <= Accounts(t, e)
           /\ Accounts(t, e) = 0 => \A o \in Dispositions : Figure(t, o, e) = 0
  <1>1. \A o \in Outcomes : Figure(t, o, e) \in Nat
    BY DEF Tallies, Records, Outcomes, Figure
  <1>2. /\ Figure(t, "counted", e) \in Nat /\ Figure(t, "extra", e) \in Nat
        /\ Figure(t, "unstat", e) \in Nat /\ Figure(t, "crossed", e) \in Nat
    BY <1>1 DEF Outcomes, Dispositions
  <1>3. Accounts(t, e) \in Nat
    BY <1>2, AccountsLemma
  <1>4. \A o \in Dispositions : Figure(t, o, e) <= Accounts(t, e)
    BY <1>2, AccountsLemma DEF Dispositions
  <1>5. \A o \in Dispositions : Figure(t, o, e) \in Nat
    BY <1>1 DEF Outcomes
  <1> QED
    BY <1>1, <1>3, <1>4, <1>5

\* Before anything is charged, every figure is zero.
LEMMA NoTallyLemma ==
    /\ NoTally \in Tallies
    /\ \A e \in Entries : /\ Accounts(NoTally, e) = 0
                          /\ \A o \in Outcomes : Figure(NoTally, o, e) = 0
  <1>1. \A e \in Entries, o \in Outcomes : Figure(NoTally, o, e) = 0
    BY DEF NoTally, Records, Outcomes, Figure
  <1>2. \A e \in Entries : Accounts(NoTally, e) = 0
    BY <1>1, AccountsLemma DEF Outcomes, Dispositions
  <1>3. NoTally \in Tallies
    BY DEF NoTally, Tallies
  <1> QED
    BY <1>1, <1>2, <1>3

\* A charge adds one to its figure and touches no other.
LEMMA ChargeFigures ==
    ASSUME NEW t \in Tallies, NEW o \in Outcomes, NEW e \in Entries
    PROVE  /\ Charge(t, o, e) \in Tallies
           /\ Figure(Charge(t, o, e), o, e) = Figure(t, o, e) + 1
           /\ \A p \in Outcomes, x \in Entries : p # o \/ x # e =>
                 Figure(Charge(t, o, e), p, x) = Figure(t, p, x)
  <1>1. <<o, e>> \in Records
    BY DEF Records, Outcomes
  <1>2. Charge(t, o, e) \in Tallies
    BY <1>1 DEF Charge, Tallies
  <1>3. Figure(Charge(t, o, e), o, e) = Figure(t, o, e) + 1
    BY <1>1 DEF Charge, Tallies, Figure
  <1>4. ASSUME NEW p \in Outcomes, NEW x \in Entries, p # o \/ x # e
        PROVE  Figure(Charge(t, o, e), p, x) = Figure(t, p, x)
    <2>1. <<p, x>> \in Records /\ <<p, x>> # <<o, e>>
      BY <1>4 DEF Records, Outcomes
    <2> QED
      BY <1>1, <2>1 DEF Charge, Tallies, Figure
  <1> QED
    BY <1>2, <1>3, <1>4

\* A disposition adds one account to its entry and none to any other.
LEMMA ChargeLemma ==
    ASSUME NEW t \in Tallies, NEW o \in Dispositions, NEW e \in Entries
    PROVE  /\ Charge(t, o, e) \in Tallies
           /\ Figure(Charge(t, o, e), o, e) = Figure(t, o, e) + 1
           /\ \A p \in Outcomes, x \in Entries : p # o \/ x # e =>
                 Figure(Charge(t, o, e), p, x) = Figure(t, p, x)
           /\ Accounts(Charge(t, o, e), e) = Accounts(t, e) + 1
           /\ \A x \in Entries :
                 x # e => Accounts(Charge(t, o, e), x) = Accounts(t, x)
  <1>1. o \in Outcomes /\ {"counted", "extra", "unstat", "crossed"} \subseteq Outcomes
    BY DEF Outcomes, Dispositions
  <1>2. /\ Charge(t, o, e) \in Tallies
        /\ Figure(Charge(t, o, e), o, e) = Figure(t, o, e) + 1
        /\ \A p \in Outcomes, x \in Entries : p # o \/ x # e =>
              Figure(Charge(t, o, e), p, x) = Figure(t, p, x)
    BY <1>1, ChargeFigures
  <1>3. \A p \in Outcomes : Figure(t, p, e) \in Nat
    BY TallyLemma
  <1>4. Accounts(Charge(t, o, e), e) = Accounts(t, e) + 1
    BY <1>1, <1>2, <1>3, AccountsLemma DEF Dispositions
  <1>5. \A x \in Entries : x # e => Accounts(Charge(t, o, e), x) = Accounts(t, x)
    BY <1>1, <1>2, AccountsLemma
  <1> QED
    BY <1>2, <1>4, <1>5

\* An unreadable directory is recorded beside its account, not in it.
LEMMA UnreadableLemma ==
    ASSUME NEW t \in Tallies, NEW d \in Entries
    PROVE  /\ Charge(t, "unreadable", d) \in Tallies
           /\ Figure(Charge(t, "unreadable", d), "unreadable", d) > 0
           /\ \A e \in Entries :
                 /\ Accounts(Charge(t, "unreadable", d), e) = Accounts(t, e)
                 /\ \A o \in Dispositions :
                       Figure(Charge(t, "unreadable", d), o, e) = Figure(t, o, e)
                 /\ Figure(Charge(t, "unreadable", d), "unreadable", e)
                       >= Figure(t, "unreadable", e)
  <1>1. /\ "unreadable" \in Outcomes /\ "unreadable" \notin Dispositions
        /\ Dispositions \subseteq Outcomes
        /\ {"counted", "extra", "unstat", "crossed"} \subseteq Dispositions
    BY DEF Outcomes, Dispositions
  <1>2. /\ Charge(t, "unreadable", d) \in Tallies
        /\ Figure(Charge(t, "unreadable", d), "unreadable", d)
             = Figure(t, "unreadable", d) + 1
        /\ \A p \in Outcomes, x \in Entries : p # "unreadable" \/ x # d =>
              Figure(Charge(t, "unreadable", d), p, x) = Figure(t, p, x)
    BY <1>1, ChargeFigures
  <1>3. \A e \in Entries : Figure(t, "unreadable", e) \in Nat
    BY <1>1, TallyLemma
  <1>4. \A e \in Entries, o \in Dispositions :
           Figure(Charge(t, "unreadable", d), o, e) = Figure(t, o, e)
    BY <1>1, <1>2
  <1>5. \A e \in Entries : Accounts(Charge(t, "unreadable", d), e) = Accounts(t, e)
    BY <1>1, <1>4, AccountsLemma
  <1>6. \A e \in Entries : Figure(Charge(t, "unreadable", d), "unreadable", e)
                             >= Figure(t, "unreadable", e)
    BY <1>1, <1>2, <1>3
  <1> QED
    BY <1>2, <1>3, <1>4, <1>5, <1>6

\* Merging adds figure by figure.
LEMMA PlusLemma ==
    ASSUME NEW s \in Tallies, NEW t \in Tallies
    PROVE  /\ Plus(s, t) \in Tallies
           /\ \A o \in Outcomes, e \in Entries :
                 Figure(Plus(s, t), o, e) = Figure(s, o, e) + Figure(t, o, e)
  BY DEF Plus, Tallies, Records, Outcomes, Figure

-----------------------------------------------------------------------------
(* The tree and the counters.                                              *)

\* The depth-1 name an entry is under is Root only for Root.
LEMMA TopLemma ==
    /\ \A e \in Entries \ {Root} : Top[e] \in Tops /\ Top[e] # Root
    /\ \A e \in Entries : Top[e] \in Tops \cup {Root}
    /\ \A d \in Dirs : d # Root => d \in Entries \ {Root}
    /\ \A d \in Dirs : Children(d) \subseteq Entries \ {Root}
    /\ \A d \in Dirs : \A e \in Children(d) : Parent[e] = d
  BY TreeAssumption DEF Entries, Tops, Children

\* A counter that loses one directory and gains some new ones stays exact.
LEMMA CountingLemma ==
    ASSUME NEW S, IsFiniteSet(S), NEW N, IsFiniteSet(N), N \cap S = {}, NEW d
    PROVE  /\ Cardinality((S \ {d}) \cup N) \in Nat
           /\ d \in S => Cardinality((S \ {d}) \cup N) = Cardinality(S) + Cardinality(N) - 1
           /\ d \notin S => Cardinality((S \ {d}) \cup N) = Cardinality(S) + Cardinality(N)
  <1>1. IsFiniteSet(S \ {d}) /\ (S \ {d}) \cap N = {}
    BY FS_RemoveElement
  <1>2. /\ IsFiniteSet((S \ {d}) \cup N)
        /\ Cardinality((S \ {d}) \cup N)
             = Cardinality(S \ {d}) + Cardinality(N) - Cardinality((S \ {d}) \cap N)
    BY <1>1, FS_Union
  <1>3. Cardinality({}) = 0
    BY FS_EmptySet
  <1>4. /\ Cardinality(S) \in Nat /\ Cardinality(N) \in Nat
        /\ Cardinality(S \ {d}) \in Nat /\ Cardinality((S \ {d}) \cup N) \in Nat
    BY <1>1, <1>2, FS_CardinalityType
  <1>5. d \in S => Cardinality(S \ {d}) = Cardinality(S) - 1
    BY FS_RemoveElement
  <1>6. d \notin S => Cardinality(S \ {d}) = Cardinality(S)
    <2>1. d \notin S => S \ {d} = S
      OBVIOUS
    <2> QED
      BY <2>1
  <1>7. Cardinality((S \ {d}) \cap N) = 0
    BY <1>1, <1>3
  <1>8. Cardinality((S \ {d}) \cup N) = Cardinality(S \ {d}) + Cardinality(N)
    BY <1>2, <1>4, <1>7
  <1> QED
    BY <1>4, <1>5, <1>6, <1>8

-----------------------------------------------------------------------------
(* The five ways a scan accounts for an entry, as one.                     *)

\* Worker w, in its scan, charges e under disposition o.
Charges(w, e, o) ==
    /\ pc[w] = "scan"
    /\ e \in unread[w]
    /\ Account(w, e, o)
    /\ children' = IF o = "counted" /\ e \in Dirs
                     THEN [children EXCEPT ![w] = @ \cup {e}] ELSE children
    /\ o = "extra" => ~CountOnly /\ e \in Files /\ Inode[e] \in seenLinks
    /\ IF o = "counted" /\ e \in Files \cap Linked /\ ~CountOnly
         THEN Inode[e] \notin seenLinks /\ seenLinks' = seenLinks \cup {Inode[e]}
         ELSE seenLinks' = seenLinks

LEMMA ReadingLemma ==
    ASSUME TypeOK, NEW w \in Workers,
           CannotStat(w) \/ CrossesFs(w) \/ ReadDir(w) \/ ReadFile(w) \/ ReadLink(w)
    PROVE  \E e \in Entries \ {Root}, o \in Dispositions : Charges(w, e, o)
  <1>0. unread[w] \subseteq Entries \ {Root}
    BY DEF TypeOK
  <1>1. CASE CannotStat(w)
    <2>1. PICK e \in unread[w] : Account(w, e, "unstat")
      BY <1>1 DEF CannotStat
    <2>2. Charges(w, e, "unstat")
      BY <1>1, <2>1 DEF CannotStat, Charges
    <2> QED
      BY <1>0, <2>2 DEF Dispositions
  <1>2. CASE CrossesFs(w)
    <2>1. PICK e \in unread[w] : Account(w, e, "crossed")
      BY <1>2 DEF CrossesFs
    <2>2. Charges(w, e, "crossed")
      BY <1>2, <2>1 DEF CrossesFs, Charges
    <2> QED
      BY <1>0, <2>2 DEF Dispositions
  <1>3. CASE ReadDir(w)
    <2>1. PICK e \in unread[w] \cap Dirs :
             /\ Account(w, e, "counted")
             /\ children' = [children EXCEPT ![w] = @ \cup {e}]
      BY <1>3 DEF ReadDir
    <2>2. Charges(w, e, "counted")
      BY <1>3, <2>1, TreeAssumption DEF ReadDir, Charges
    <2> QED
      BY <1>0, <2>2 DEF Dispositions
  <1>4. CASE ReadFile(w)
    <2>1. PICK e \in unread[w] \cap Files :
             (CountOnly \/ e \notin Linked) /\ Account(w, e, "counted")
      BY <1>4 DEF ReadFile
    <2>2. Charges(w, e, "counted")
      BY <1>4, <2>1, TreeAssumption DEF ReadFile, Charges
    <2> QED
      BY <1>0, <2>2 DEF Dispositions
  <1>5. CASE ReadLink(w)
    <2>1. PICK e \in unread[w] \cap Files \cap Linked :
             /\ Account(w, e, LinkOutcome(w, e))
             /\ seenLinks' = seenLinks \cup {Inode[e]}
      BY <1>5 DEF ReadLink
    <2>2. Charges(w, e, LinkOutcome(w, e))
      BY <1>5, <2>1, TreeAssumption DEF ReadLink, Charges, LinkOutcome
    <2> QED
      BY <1>0, <2>2 DEF Dispositions, LinkOutcome
  <1> QED
    BY <1>1, <1>2, <1>3, <1>4, <1>5

\* What a charge does to the worker's own state and to nobody else's.
LEMMA ChargesEffect ==
    ASSUME TypeOK, NEW w \in Workers, NEW e \in Entries, NEW o \in Dispositions,
           Charges(w, e, o)
    PROVE  /\ unread' \in [Workers -> SUBSET (Entries \ {Root})]
           /\ children' \in [Workers -> SUBSET (Dirs \ {Root})]
           /\ tally' \in [Workers -> Tallies]
           /\ unread'[w] = unread[w] \ {e}
           /\ children'[w] = IF o = "counted" /\ e \in Dirs
                               THEN children[w] \cup {e} ELSE children[w]
           /\ \A v \in Workers : v # w => /\ unread'[v] = unread[v]
                                          /\ children'[v] = children[v]
                                          /\ tally'[v] = tally[v]
  <1>1. /\ unread \in [Workers -> SUBSET (Entries \ {Root})]
        /\ children \in [Workers -> SUBSET (Dirs \ {Root})]
        /\ tally \in [Workers -> Tallies]
    BY DEF TypeOK
  <1>2. Charge(tally[w], o, e) \in Tallies
    BY <1>1, ChargeLemma
  <1>3. e # Root
    BY <1>1 DEF Charges
  <1>4. /\ unread' = [unread EXCEPT ![w] = @ \ {e}]
        /\ tally' = [tally EXCEPT ![w] = Charge(@, o, e)]
    BY DEF Charges, Account
  <1>5. children' = IF o = "counted" /\ e \in Dirs
                      THEN [children EXCEPT ![w] = @ \cup {e}] ELSE children
    BY DEF Charges
  <1> QED
    BY <1>1, <1>2, <1>3, <1>4, <1>5

\* The figures after a charge: those before, but for the one it adds to.
LEMMA FiguresAfterCharge ==
    ASSUME TypeOK, NEW w \in Workers, NEW e \in Entries, NEW o \in Dispositions,
           Charges(w, e, o), NEW v \in Workers, NEW x \in Entries, NEW p \in Outcomes
    PROVE  /\ Figure(tally[v], p, x) \in Nat
           /\ Figure(tally'[v], p, x) = IF v = w /\ x = e /\ p = o
                 THEN Figure(tally[v], p, x) + 1 ELSE Figure(tally[v], p, x)
           /\ Accounts(tally[v], x) \in Nat
           /\ Accounts(tally'[v], x) = IF v = w /\ x = e
                 THEN Accounts(tally[v], x) + 1 ELSE Accounts(tally[v], x)
  <1>1. /\ tally' = [tally EXCEPT ![w] = Charge(@, o, e)]
        /\ tally \in [Workers -> Tallies]
    BY DEF Charges, Account, TypeOK
  <1>2. tally'[w] = Charge(tally[w], o, e) /\ (v # w => tally'[v] = tally[v])
    BY <1>1
  <1>3. tally[w] \in Tallies /\ tally[v] \in Tallies
    BY <1>1
  <1>4. /\ Figure(Charge(tally[w], o, e), o, e) = Figure(tally[w], o, e) + 1
        /\ \A q \in Outcomes, y \in Entries : q # o \/ y # e =>
              Figure(Charge(tally[w], o, e), q, y) = Figure(tally[w], q, y)
        /\ Accounts(Charge(tally[w], o, e), e) = Accounts(tally[w], e) + 1
        /\ \A y \in Entries : y # e =>
              Accounts(Charge(tally[w], o, e), y) = Accounts(tally[w], y)
    BY <1>3, ChargeLemma
  <1>5. Accounts(tally[v], x) \in Nat /\ Figure(tally[v], p, x) \in Nat
    BY <1>3, TallyLemma
  <1> QED
    BY <1>2, <1>4, <1>5

\* Notes and charges after a charge: those before, and the new one.
LEMMA NotedAfterCharge ==
    ASSUME TypeOK, NEW w \in Workers, NEW e \in Entries, NEW o \in Dispositions,
           Charges(w, e, o)
    PROVE  \A v \in Workers, x \in Entries :
              /\ Noted(v, x)' <=> Noted(v, x) \/ (v = w /\ x = e)
              /\ CountedBy(v, x)' <=> \/ CountedBy(v, x)
                                      \/ v = w /\ x = e /\ o = "counted"
              /\ Accounts(tally[v], x) \in Nat
              /\ Accounts(tally'[v], x) = IF v = w /\ x = e
                    THEN Accounts(tally[v], x) + 1 ELSE Accounts(tally[v], x)
  <1> TAKE v \in Workers, x \in Entries
  <1>1. "counted" \in Outcomes
    BY DEF Outcomes, Dispositions
  <1>2. /\ Figure(tally[v], "counted", x) \in Nat
        /\ Figure(tally'[v], "counted", x) = IF v = w /\ x = e /\ "counted" = o
              THEN Figure(tally[v], "counted", x) + 1 ELSE Figure(tally[v], "counted", x)
        /\ Accounts(tally[v], x) \in Nat
        /\ Accounts(tally'[v], x) = IF v = w /\ x = e
              THEN Accounts(tally[v], x) + 1 ELSE Accounts(tally[v], x)
    BY <1>1, FiguresAfterCharge
  <1> QED
    BY <1>2 DEF Noted, CountedBy

-----------------------------------------------------------------------------
(* The first layer.                                                        *)

Placement ==
    /\ TypeOK
    /\ CountersExact
    /\ HeldInv /\ PlacesInv /\ PlacedInv /\ NotesInv

placeVars == <<queue, pending, outstanding, pc, scanVars, tally>>

\* Every charge is a note.
LEMMA CountedIsNoted ==
    ASSUME TypeOK
    PROVE  \A w \in Workers, e \in Entries : CountedBy(w, e) => Noted(w, e)
  <1> SUFFICES ASSUME NEW w \in Workers, NEW e \in Entries
               PROVE  CountedBy(w, e) => Noted(w, e)
    OBVIOUS
  <1>1. tally[w] \in Tallies
    BY DEF TypeOK
  <1>2. /\ Figure(tally[w], "counted", e) \in Nat
        /\ Accounts(tally[w], e) \in Nat
        /\ Figure(tally[w], "counted", e) <= Accounts(tally[w], e)
    BY <1>1, TallyLemma DEF Outcomes, Dispositions
  <1> QED
    BY <1>2 DEF CountedBy, Noted

\* An entry still to be read has been noted by nobody, and a directory still
\* to be read is nowhere else.
LEMMA UnreadIsNew ==
    ASSUME TypeOK, HeldInv, PlacesInv, PlacedInv, NotesInv,
           NEW w \in Workers, pc[w] = "scan", NEW e \in unread[w]
    PROVE  /\ e \in Entries \ {Root}
           /\ held[w] = {Parent[e]}
           /\ \A v \in Workers : ~Noted(v, e) /\ ~CountedBy(v, e)
           /\ ~Known(e)
           /\ \A v \in Workers : v # w => e \notin unread[v]
           /\ e \notin queue
           /\ \A v \in Workers : e \notin held[v] /\ e \notin children[v]
  <1>1. e \in Entries \ {Root} /\ \A v \in Workers : held[v] \subseteq Dirs
    BY DEF TypeOK
  <1>2. PICK d \in Dirs : held[w] = {d}
    BY DEF HeldInv, Busy
  <1>3. d = Parent[e]
    BY <1>2 DEF HeldInv, Children
  <1>4. \A v \in Workers : ~Noted(v, e)
    BY <1>1 DEF NotesInv, NotedByAny
  <1>5. \A v \in Workers : ~CountedBy(v, e)
    BY <1>1, <1>4, CountedIsNoted
  <1>6. ~Known(e)
    BY <1>1, <1>5 DEF Known, Charged
  <1>7. ASSUME NEW v \in Workers, v # w, e \in unread[v]
        PROVE  FALSE
    <2>1. pc[v] = "scan"
      BY <1>7 DEF HeldInv
    <2>2. PICK c \in Dirs : held[v] = {c}
      BY <2>1 DEF HeldInv, Busy
    <2>3. c = Parent[e]
      BY <1>7, <2>2 DEF HeldInv, Children
    <2> QED
      BY <1>2, <1>3, <1>7, <2>2, <2>3 DEF PlacesInv
  <1>8. e \notin queue /\ \A v \in Workers : e \notin held[v] /\ e \notin children[v]
    BY <1>5, <1>6 DEF PlacedInv
  <1> QED
    BY <1>1, <1>2, <1>3, <1>4, <1>5, <1>6, <1>7, <1>8

-----------------------------------------------------------------------------
\* The first state: nothing is in hand but Root, which is queued.
LEMMA PlacementInit == Init => Placement
  <1> SUFFICES ASSUME Init PROVE Placement
    OBVIOUS
  <1>1. Open = {Root}
    BY WorkersAssumption DEF Init, Open
  <1>2. \A t \in Tops : OpenUnder(t) = {}
    BY <1>1, TreeAssumption DEF OpenUnder, Tops
  <1>3. CountersExact
    BY <1>1, <1>2, FS_EmptySet, FS_Singleton DEF CountersExact, Init
  <1>4. RootCharged \in Tallies
    BY NoTallyLemma, ChargeLemma, TreeAssumption DEF RootCharged, Dispositions, Entries
  <1>5. TypeOK
    BY <1>4, NoTallyLemma, TreeAssumption DEF TypeOK, Init
  <1>6. \A w \in Workers, e \in Entries : ~Noted(w, e)
    BY NoTallyLemma DEF Init, Noted
  <1>7. HeldInv
    BY DEF HeldInv, Init, Busy
  <1>8. PlacesInv /\ PlacedInv
    BY DEF PlacesInv, PlacedInv, Init, Known
  <1>9. NotesInv
    BY <1>6, NoTallyLemma, TreeAssumption DEF NotesInv, NotedByAny, Init, Entries
  <1> QED
    BY <1>3, <1>5, <1>7, <1>8, <1>9 DEF Placement

\* Steps of the main thread, and the stop, are out of this layer's sight.
LEMMA PlacementFrame ==
    ASSUME Placement, UNCHANGED placeVars
    PROVE  CountersExact' /\ HeldInv' /\ PlacesInv' /\ PlacedInv' /\ NotesInv'
  <1> USE DEF placeVars, scanVars
  <1>1. CountersExact'
    BY DEF Placement, CountersExact, Open, OpenUnder
  <1>2. HeldInv' /\ PlacesInv'
    BY DEF Placement, HeldInv, PlacesInv, Busy
  <1>3. PlacedInv'
    BY DEF Placement, PlacedInv, Known, Charged, CountedBy
  <1>4. NotesInv'
    BY DEF Placement, NotesInv, Noted, NotedByAny, Known, Charged, CountedBy
  <1> QED
    BY <1>1, <1>2, <1>3, <1>4

\* A worker that moves on, holding what it held.
LEMMA PlacementMove ==
    ASSUME Placement, NEW w \in Workers,
           DecideTake(w) \/ Quit(w) \/ SetupRaises(w) \/ Merge(w)
    PROVE  CountersExact' /\ HeldInv' /\ PlacesInv' /\ PlacedInv' /\ NotesInv'
  <1> USE DEF scanVars
  <1>0. UNCHANGED <<queue, pending, outstanding, scanVars, tally>>
    BY DEF DecideTake, Quit, SetupRaises, Merge, cvVars
  <1>1. /\ pc[w] # "scan" /\ pc'[w] \notin {"setup", "scan"}
        /\ pc[w] = "setup" <=> pc'[w] = "dead"
        /\ pc[w] # "dead"
        /\ \A v \in Workers : v # w => pc'[v] = pc[v]
    BY DEF DecideTake, Quit, SetupRaises, Merge, Placement, TypeOK
  <1>2. CountersExact' /\ PlacesInv' /\ PlacedInv'
    BY <1>0 DEF Placement, CountersExact, Open, OpenUnder, PlacesInv, PlacedInv,
           Known, Charged, CountedBy
  <1>3. HeldInv'
    BY <1>0, <1>1 DEF Placement, HeldInv, Busy
  <1>4. NotesInv'
    BY <1>0, <1>1 DEF Placement, NotesInv, Noted, NotedByAny, Known, Charged, CountedBy
  <1> QED
    BY <1>2, <1>3, <1>4

\* Taking a directory moves it from the queue to the worker's hands.
LEMMA PlacementTake ==
    ASSUME Placement, NEW w \in Workers, Take(w)
    PROVE  CountersExact' /\ HeldInv' /\ PlacesInv' /\ PlacedInv' /\ NotesInv'
  <1>0. PICK d \in queue : queue' = queue \ {d} /\ held' = [held EXCEPT ![w] = {d}]
    BY DEF Take
  <1>1. /\ UNCHANGED <<pending, outstanding, unread, children, truncated, tally>>
        /\ pc[w] = "taking" /\ pc'[w] = "setup" /\ held[w] = {}
        /\ \A v \in Workers : v # w => pc'[v] = pc[v] /\ held'[v] = held[v]
        /\ held'[w] = {d} /\ queue' = queue \ {d} /\ d \in Dirs
    BY <1>0 DEF Take, Placement, TypeOK, HeldInv, Busy
  <1>2. Open' = Open
    BY <1>1 DEF Open
  <1>3. CountersExact'
    BY <1>1, <1>2 DEF Placement, CountersExact, OpenUnder
  <1>4. HeldInv'
    BY <1>1 DEF Placement, HeldInv, Busy
  <1>5. PlacesInv'
    BY <1>1 DEF Placement, PlacesInv
  <1>6. \A x : Known(x)' <=> Known(x)
    BY <1>1 DEF Known, Charged, CountedBy
  <1>7. PlacedInv'
    BY <1>1, <1>6 DEF Placement, PlacedInv, CountedBy
  <1>8. NotesInv'
    BY <1>1, <1>6 DEF Placement, NotesInv, Noted, NotedByAny
  <1> QED
    BY <1>3, <1>4, <1>5, <1>7, <1>8

\* Opening it, or giving it up at the limiter, starts the scan.
LEMMA PlacementOpen ==
    ASSUME Placement, NEW w \in Workers, OpenDir(w) \/ StoppedAtLimiter(w)
    PROVE  CountersExact' /\ HeldInv' /\ PlacesInv' /\ PlacedInv' /\ NotesInv'
  <1>0. PICK d \in Dirs : held[w] = {d}
    BY DEF OpenDir, StoppedAtLimiter, Placement, HeldInv, Busy
  <1>1. /\ UNCHANGED <<queue, pending, outstanding, held, children, tally>>
        /\ pc[w] = "setup" /\ pc'[w] = "scan"
        /\ \A v \in Workers : v # w => /\ pc'[v] = pc[v]
                                       /\ unread'[v] = unread[v]
                                       /\ truncated'[v] = truncated[v]
        /\ unread'[w] \subseteq Children(d)
    BY <1>0 DEF OpenDir, StoppedAtLimiter, Placement, TypeOK, HeldInv, cvVars
  <1>2. CountersExact' /\ PlacesInv' /\ PlacedInv'
    BY <1>1 DEF Placement, CountersExact, Open, OpenUnder, PlacesInv, PlacedInv,
           Known, Charged, CountedBy
  <1>3. HeldInv'
    BY <1>0, <1>1 DEF Placement, HeldInv, Busy
  <1>4. \A x : Known(x)' <=> Known(x)
    BY <1>1 DEF Known, Charged, CountedBy
  <1>5. \A e \in Entries \ {Root} : NotedByAny(e) => e \notin Children(d)
    BY <1>0, <1>1 DEF Placement, NotesInv, Children
  <1>6. NotesInv'
    BY <1>1, <1>4, <1>5 DEF Placement, NotesInv, Noted, NotedByAny
  <1> QED
    BY <1>2, <1>3, <1>6

\* A scan that ends before its entries do, for a stop or an error.
LEMMA PlacementCut ==
    ASSUME Placement, NEW w \in Workers, ScanStops(w) \/ ScanRaises(w)
    PROVE  /\ CountersExact' /\ HeldInv' /\ PlacesInv' /\ PlacedInv' /\ NotesInv'
           /\ tally' \in [Workers -> Tallies]
           /\ \A v \in Workers, x \in Entries :
                 /\ Noted(v, x)' <=> Noted(v, x)
                 /\ CountedBy(v, x)' <=> CountedBy(v, x)
                 /\ \A o \in Dispositions : Figure(tally'[v], o, x) = Figure(tally[v], o, x)
                 /\ Figure(tally'[v], "unreadable", x) >= Figure(tally[v], "unreadable", x)
  <1>0. PICK d \in Dirs : held[w] = {d}
    BY DEF ScanStops, ScanRaises, Placement, HeldInv, Busy
  <1>1. /\ UNCHANGED <<queue, pending, outstanding, held, children, pc>>
        /\ pc[w] = "scan"
        /\ \A v \in Workers : v # w => /\ unread'[v] = unread[v]
                                       /\ truncated'[v] = truncated[v]
        /\ unread'[w] = {}
    BY <1>0 DEF ScanStops, ScanRaises, Placement, TypeOK, cvVars
  <1>2. \/ tally' = tally
        \/ tally' = [tally EXCEPT ![w] = Charge(@, "unreadable", d)]
    BY <1>0 DEF ScanStops, ScanRaises
  <1>3. d \in Entries /\ tally \in [Workers -> Tallies]
    BY DEF Entries, Placement, TypeOK
  <1>4. /\ Charge(tally[w], "unreadable", d) \in Tallies
        /\ \A e \in Entries :
              /\ Accounts(Charge(tally[w], "unreadable", d), e) = Accounts(tally[w], e)
              /\ \A o \in Dispositions :
                    Figure(Charge(tally[w], "unreadable", d), o, e) = Figure(tally[w], o, e)
              /\ Figure(Charge(tally[w], "unreadable", d), "unreadable", e)
                    >= Figure(tally[w], "unreadable", e)
    BY <1>3, UnreadableLemma
  <1>5. tally' \in [Workers -> Tallies]
    BY <1>2, <1>3, <1>4
  <1>6. \A v \in Workers, x \in Entries :
           /\ Accounts(tally'[v], x) = Accounts(tally[v], x)
           /\ \A o \in Dispositions : Figure(tally'[v], o, x) = Figure(tally[v], o, x)
           /\ Figure(tally'[v], "unreadable", x) >= Figure(tally[v], "unreadable", x)
    <2> SUFFICES ASSUME NEW v \in Workers, NEW x \in Entries
                 PROVE  /\ Accounts(tally'[v], x) = Accounts(tally[v], x)
                        /\ \A o \in Dispositions :
                              Figure(tally'[v], o, x) = Figure(tally[v], o, x)
                        /\ Figure(tally'[v], "unreadable", x) >= Figure(tally[v], "unreadable", x)
      OBVIOUS
    <2>1. \/ tally'[v] = tally[v]
          \/ v = w /\ tally'[v] = Charge(tally[w], "unreadable", d)
      BY <1>2, <1>3
    <2>2. Figure(tally[v], "unreadable", x) \in Nat
      BY <1>3, TallyLemma DEF Outcomes
    <2> QED
      BY <1>4, <2>1, <2>2
  <1>7. \A v \in Workers, x \in Entries :
           (Noted(v, x)' <=> Noted(v, x)) /\ (CountedBy(v, x)' <=> CountedBy(v, x))
    BY <1>6 DEF Noted, CountedBy, Dispositions
  <1>8. \A x \in Entries : /\ NotedByAny(x)' <=> NotedByAny(x)
                           /\ Charged(x)' <=> Charged(x)
                           /\ Known(x)' <=> Known(x)
    BY <1>7 DEF NotedByAny, Charged, Known
  <1>9. CountersExact' /\ PlacesInv'
    BY <1>1 DEF Placement, CountersExact, Open, OpenUnder, PlacesInv
  <1>10. HeldInv'
    BY <1>0, <1>1 DEF Placement, HeldInv, Busy
  <1>11. PlacedInv'
    BY <1>1, <1>7, <1>8 DEF Placement, PlacedInv, TypeOK, Entries
  <1>12. NotesInv'
    <2>1. \A e \in Entries \ {Root} : Parent[e] \in Entries
      BY TreeAssumption DEF Entries
    <2>2. Root \in Entries
      BY TreeAssumption DEF Entries
    <2> QED
      BY <1>1, <1>6, <1>7, <1>8, <2>1, <2>2 DEF Placement, NotesInv
  <1> QED
    BY <1>5, <1>6, <1>7, <1>9, <1>10, <1>11, <1>12

\* Charging an entry: it leaves the scan, and a directory joins the children.
LEMMA PlacementCharges ==
    ASSUME Placement, NEW w \in Workers, NEW e \in Entries \ {Root},
           NEW o \in Dispositions, Charges(w, e, o)
    PROVE  CountersExact' /\ HeldInv' /\ PlacesInv' /\ PlacedInv' /\ NotesInv'
  <1>0. e \in unread[w] /\ pc[w] = "scan"
    BY DEF Charges
  <1>1. /\ held[w] = {Parent[e]}
        /\ \A v \in Workers : ~Noted(v, e) /\ ~CountedBy(v, e)
        /\ ~Known(e)
        /\ \A v \in Workers : v # w => e \notin unread[v]
        /\ e \notin queue
        /\ \A v \in Workers : e \notin held[v] /\ e \notin children[v]
    BY <1>0, UnreadIsNew DEF Placement
  <1>2. /\ UNCHANGED <<queue, pending, outstanding, held, truncated, pc>>
    BY DEF Charges, Account, cvVars
  <1>3. /\ unread'[w] = unread[w] \ {e}
        /\ children'[w] = IF o = "counted" /\ e \in Dirs
                            THEN children[w] \cup {e} ELSE children[w]
        /\ \A v \in Workers : v # w => /\ unread'[v] = unread[v]
                                       /\ children'[v] = children[v]
    BY ChargesEffect DEF Placement
  <1>4. \A v \in Workers, x \in Entries :
           /\ Noted(v, x)' <=> Noted(v, x) \/ (v = w /\ x = e)
           /\ CountedBy(v, x)' <=> \/ CountedBy(v, x)
                                   \/ v = w /\ x = e /\ o = "counted"
           /\ Accounts(tally[v], x) \in Nat
           /\ Accounts(tally'[v], x) = IF v = w /\ x = e
                THEN Accounts(tally[v], x) + 1 ELSE Accounts(tally[v], x)
    BY NotedAfterCharge DEF Placement
  <1>5. \A x \in Entries : /\ NotedByAny(x)' <=> NotedByAny(x) \/ x = e
                           /\ Charged(x)' <=> Charged(x) \/ (x = e /\ o = "counted")
                           /\ Known(x)' <=> Known(x) \/ (x = e /\ o = "counted")
    BY <1>4 DEF NotedByAny, Charged, Known
  <1>6. /\ \A x \in Entries \ {Root} : Parent[x] \in Dirs
        /\ Dirs \subseteq Entries /\ Root \in Entries
    BY TreeAssumption DEF Entries
  <1>7. Parent[e] \in Dirs /\ e \in Children(Parent[e])
    BY <1>6 DEF Children
  <1>8. CountersExact'
    BY <1>2 DEF Placement, CountersExact, Open, OpenUnder
  <1>9. HeldInv'
    BY <1>0, <1>1, <1>2, <1>3, <1>7 DEF Placement, HeldInv, Busy
  <1>10. PlacesInv'
    BY <1>1, <1>2, <1>3 DEF Placement, PlacesInv
  <1>11. PlacedInv'
    <2>1. \A d \in queue : Known(d)'
      BY <1>5, <1>6 DEF Placement, PlacedInv, TypeOK
    <2>2. \A v \in Workers : \A d \in held[v] : Known(d)'
      BY <1>5, <1>6 DEF Placement, PlacedInv, TypeOK
    <2>3. \A v \in Workers : \A d \in children[v] : d \in Entries /\ CountedBy(v, d)'
      BY <1>4, <1>6 DEF Placement, PlacedInv, TypeOK
    <2>4. \A v \in Workers : \A d \in children'[v] : CountedBy(v, d)'
      BY <1>3, <1>4, <2>3
    <2> QED
      BY <1>2, <2>1, <2>2, <2>4 DEF PlacedInv
  <1>12. NotesInv'
    <2>1. \A v \in Workers : ~Noted(v, Root)'
      BY <1>4, <1>6 DEF Placement, NotesInv
    <2>2. \A u, v \in Workers, x \in Entries : Noted(u, x)' /\ Noted(v, x)' => u = v
      BY <1>1, <1>4 DEF Placement, NotesInv
    <2>3. \A v \in Workers, x \in Entries : Accounts(tally'[v], x) <= 1
      <3>1. Accounts(tally[w], e) = 0
        BY <1>1, <1>4 DEF Noted
      <3> QED
        BY <1>4, <3>1 DEF Placement, NotesInv
    <2>4. ASSUME NEW x \in Entries \ {Root}, NotedByAny(x)'
          PROVE  /\ Known(Parent[x])'
                 /\ Parent[x] \notin queue
                 /\ \A v \in Workers :
                       /\ x \notin unread'[v]
                       /\ Parent[x] \notin children'[v]
                       /\ pc[v] = "setup" => Parent[x] \notin held[v]
      <3>1. CASE x = e
        <4>1. Known(Parent[e])'
          BY <1>1, <1>5, <1>6 DEF Placement, PlacedInv
        <4>2. Parent[e] \notin queue
          BY <1>1 DEF Placement, PlacesInv
        <4>3. \A v \in Workers : Parent[e] \notin children[v]
          BY <1>1 DEF Placement, PlacesInv
        <4>4. Parent[e] # e
          BY <1>1
        <4>5. \A v \in Workers : pc[v] = "setup" => Parent[e] \notin held[v]
          BY <1>0, <1>1 DEF Placement, PlacesInv
        <4> QED
          BY <1>1, <1>3, <3>1, <4>1, <4>2, <4>3, <4>4, <4>5
      <3>2. CASE x # e
        <4>1. NotedByAny(x)
          BY <1>5, <2>4, <3>2
        <4>2. Parent[x] # e
          BY <1>1, <4>1 DEF Placement, NotesInv
        <4>3. Known(Parent[x])'
          BY <1>5, <1>6, <4>1 DEF Placement, NotesInv
        <4> QED
          BY <1>3, <4>1, <4>2, <4>3 DEF Placement, NotesInv
      <3> QED
        BY <3>1, <3>2
    <2> QED
      BY <1>2, <2>1, <2>2, <2>3, <2>4 DEF NotesInv
  <1> QED
    BY <1>8, <1>9, <1>10, <1>11, <1>12

\* What is in hand or queued is finite, and the release of d trades d for the
\* children it enqueues.
LEMMA OpenAfterRelease ==
    ASSUME Placement, NEW w \in Workers, Release(w), NEW d, held[w] = {d}
    PROVE  /\ d \in Open /\ d \in Dirs
           /\ IsFiniteSet(Open) /\ IsFiniteSet(Enqueued(w))
           /\ Enqueued(w) \subseteq children[w] /\ Enqueued(w) \subseteq Dirs
           /\ Enqueued(w) \cap Open = {}
           /\ Open' = (Open \ {d}) \cup Enqueued(w)
           /\ held'[w] = {} /\ children'[w] = {} /\ pc'[w] = "idle"
           /\ truncated'[w] = FALSE
           /\ \A v \in Workers : v # w => /\ held'[v] = held[v]
                                          /\ children'[v] = children[v]
                                          /\ pc'[v] = pc[v]
                                          /\ truncated'[v] = truncated[v]
           /\ queue' = queue \cup Enqueued(w)
           /\ UNCHANGED <<stop, inflight, seenLinks, unread, tally, doorVars, mainVars>>
  <1>1. Open \subseteq Dirs
    BY DEF Placement, TypeOK, Open
  <1>2. d \in Open /\ d \in Dirs
    BY <1>1 DEF Open
  <1>3. Enqueued(w) \subseteq children[w] /\ Enqueued(w) \subseteq Dirs
    BY DEF Enqueued, Placement, TypeOK
  <1>4. IsFiniteSet(Open) /\ IsFiniteSet(Enqueued(w))
    BY <1>1, <1>3, TreeAssumption, FS_Subset
  <1>5. Enqueued(w) \cap Open = {}
    BY <1>3 DEF Placement, PlacesInv, Open
  <1>6. /\ held'[w] = {} /\ children'[w] = {} /\ pc'[w] = "idle"
        /\ truncated'[w] = FALSE
        /\ \A v \in Workers : v # w => /\ held'[v] = held[v]
                                       /\ children'[v] = children[v]
                                       /\ pc'[v] = pc[v]
                                       /\ truncated'[v] = truncated[v]
        /\ queue' = queue \cup Enqueued(w)
        /\ UNCHANGED <<stop, inflight, seenLinks, unread, tally, doorVars, mainVars>>
    BY DEF Release, Placement, TypeOK
  <1>7. d \notin queue /\ \A v \in Workers : v # w => d \notin held[v]
    BY DEF Placement, PlacesInv
  <1>8. Open' = (Open \ {d}) \cup Enqueued(w)
    BY <1>6, <1>7 DEF Open
  <1> QED
    BY <1>2, <1>3, <1>4, <1>5, <1>6, <1>8

\* Releasing a directory leaves both counters exact, and natural numbers.
LEMMA PlacementRelease ==
    ASSUME Placement, NEW w \in Workers, Release(w)
    PROVE  /\ CountersExact' /\ HeldInv' /\ PlacesInv' /\ PlacedInv' /\ NotesInv'
           /\ pending' \in Nat /\ outstanding' \in [Tops -> Nat]
  <1>0. PICK d \in Dirs : held[w] = {d}
    BY DEF Release, Placement, HeldInv, Busy
  <1> DEFINE new == Enqueued(w)
  <1>1. /\ d \in Open
        /\ IsFiniteSet(Open) /\ IsFiniteSet(new)
        /\ new \subseteq children[w] /\ new \subseteq Dirs
        /\ new \cap Open = {}
        /\ Open' = (Open \ {d}) \cup new
    BY <1>0, OpenAfterRelease
  <1>2. /\ held'[w] = {} /\ children'[w] = {} /\ pc'[w] = "idle"
        /\ truncated'[w] = FALSE
        /\ \A v \in Workers : v # w => /\ held'[v] = held[v]
                                       /\ children'[v] = children[v]
                                       /\ pc'[v] = pc[v]
                                       /\ truncated'[v] = truncated[v]
        /\ queue' = queue \cup new
        /\ unread' = unread /\ tally' = tally
    BY <1>0, OpenAfterRelease
  <1>3. /\ pending' = pending + Cardinality(new) - 1
        /\ outstanding' = Released(d, new)
        /\ pc[w] = "scan" /\ unread[w] = {}
    BY <1>0 DEF Release, PendingAfter
  <1> HIDE DEF new
  <1>4. pending' = Cardinality(Open') /\ pending' \in Nat
    <2>1. pending = Cardinality(Open)
      BY DEF Placement, CountersExact
    <2> QED
      BY <1>1, <1>3, <2>1, CountingLemma
  <1>5. ASSUME NEW t \in Tops
        PROVE  outstanding'[t] = Cardinality(OpenUnder(t)') /\ outstanding'[t] \in Nat
    <2> DEFINE S == OpenUnder(t)
               N == {c \in new : Top[c] = t}
    <2>1. OpenUnder(t)' = (S \ {d}) \cup N
      BY <1>1 DEF OpenUnder
    <2>2. IsFiniteSet(S) /\ IsFiniteSet(N) /\ N \cap S = {}
      BY <1>1, FS_Subset DEF OpenUnder
    <2>3. d \in S <=> Top[d] = t
      BY <1>1 DEF OpenUnder
    <2>4. outstanding[t] = Cardinality(S)
      BY DEF Placement, CountersExact
    <2>5. outstanding'[t] = outstanding[t] + Cardinality(N) - (IF Top[d] = t THEN 1 ELSE 0)
      BY <1>3 DEF Released
    <2> HIDE DEF S, N
    <2>6. /\ Cardinality((S \ {d}) \cup N) \in Nat
          /\ d \in S => Cardinality((S \ {d}) \cup N) = Cardinality(S) + Cardinality(N) - 1
          /\ d \notin S => Cardinality((S \ {d}) \cup N) = Cardinality(S) + Cardinality(N)
      BY <2>2, CountingLemma
    <2>7. Cardinality(S) \in Nat /\ Cardinality(N) \in Nat
      BY <2>2, FS_CardinalityType
    <2>8. outstanding'[t] = Cardinality((S \ {d}) \cup N)
      BY <2>3, <2>4, <2>5, <2>6, <2>7
    <2> QED
      BY <2>1, <2>6, <2>8
  <1>6. outstanding' \in [Tops -> Nat]
    BY <1>3, <1>5 DEF Released
  <1>7. CountersExact'
    BY <1>4, <1>5 DEF CountersExact
  <1>8. HeldInv'
    BY <1>2, <1>3 DEF Placement, HeldInv, Busy
  <1>9. PlacesInv'
    BY <1>1, <1>2 DEF Placement, PlacesInv, Open
  <1>10. \A x, v : (Known(x)' <=> Known(x)) /\ (CountedBy(v, x)' <=> CountedBy(v, x))
    BY <1>2 DEF Known, Charged, CountedBy
  <1>11. PlacedInv'
    BY <1>1, <1>2, <1>10 DEF Placement, PlacedInv, Known, Charged
  <1>12. NotesInv'
    BY <1>1, <1>2, <1>10 DEF Placement, NotesInv, Noted, NotedByAny
  <1> QED
    BY <1>4, <1>6, <1>7, <1>8, <1>9, <1>11, <1>12

-----------------------------------------------------------------------------
\* Types: each step leaves every variable in its type.
LEMMA TypeStep ==
    ASSUME Placement, [Next]_vars
    PROVE  TypeOK'
  <1> USE DEF cvVars, scanVars, doorVars, mainVars
  <1>0. TypeOK
    BY DEF Placement
  <1>1. CASE RequestStop
    BY <1>0, <1>1 DEF TypeOK, RequestStop
  <1>2. CASE MainStep
    <2>1. CASE SetDeadline
      BY <1>0, <2>1 DEF TypeOK, SetDeadline
    <2>2. CASE LeaveJoin
      BY <1>0, <2>2 DEF TypeOK, LeaveJoin, WasStopped
    <2>3. CASE CloseDoor
      BY <1>0, <2>3 DEF TypeOK, CloseDoor
    <2>4. CASE Abandon
      BY <1>0, <2>4 DEF TypeOK, Abandon, Lost
    <2>5. CASE Publish
      BY <1>0, <2>5 DEF TypeOK, Publish, PlainFiles
    <2> QED
      BY <1>2, <2>1, <2>2, <2>3, <2>4, <2>5 DEF MainStep
  <1>3. CASE UNCHANGED vars
    BY <1>0, <1>3 DEF TypeOK, vars
  <1>4. ASSUME NEW w \in Workers, Work(w)
        PROVE  TypeOK'
    <2>1. CASE DecideTake(w)
      BY <1>0, <2>1 DEF TypeOK, DecideTake
    <2>2. CASE Take(w)
      <3>1. \A d \in queue : Top[d] \in Tops \cup {Root}
        BY <1>0, TopLemma DEF TypeOK, Entries
      <3> QED
        BY <1>0, <2>2, <3>1 DEF TypeOK, Take
    <2>3. CASE Quit(w)
      BY <1>0, <2>3 DEF TypeOK, Quit
    <2>4. CASE SetupRaises(w)
      BY <1>0, <2>4 DEF TypeOK, SetupRaises
    <2>5. CASE OpenDir(w)
      <3>1. \A d : Children(d) \subseteq Entries \ {Root}
        BY DEF Children
      <3> QED
        BY <1>0, <2>5, <3>1 DEF TypeOK, OpenDir
    <2>6. CASE StoppedAtLimiter(w)
      BY <1>0, <2>6 DEF TypeOK, StoppedAtLimiter
    <2>7. CASE CannotStat(w) \/ CrossesFs(w) \/ ReadDir(w) \/ ReadFile(w) \/ ReadLink(w)
      <3>1. PICK e \in Entries \ {Root}, o \in Dispositions : Charges(w, e, o)
        BY <1>0, <2>7, ReadingLemma
      <3>2. /\ unread' \in [Workers -> SUBSET (Entries \ {Root})]
            /\ children' \in [Workers -> SUBSET (Dirs \ {Root})]
            /\ tally' \in [Workers -> Tallies]
        BY <1>0, <3>1, ChargesEffect
      <3>3. seenLinks' \subseteq {Inode[f] : f \in Files}
        BY <1>0, <3>1 DEF TypeOK, Charges
      <3> QED
        BY <1>0, <3>1, <3>2, <3>3 DEF TypeOK, Charges, Account
    <2>8. CASE ScanStops(w) \/ ScanRaises(w)
      <3>1. tally' \in [Workers -> Tallies]
        BY <2>8, PlacementCut
      <3> QED
        BY <1>0, <2>8, <3>1 DEF TypeOK, ScanStops, ScanRaises
    <2>9. CASE Release(w)
      <3>1. pending' \in Nat /\ outstanding' \in [Tops -> Nat]
        BY <2>9, PlacementRelease
      <3>2. PICK d \in Dirs : held[w] = {d}
        BY <2>9 DEF Release, Placement, HeldInv, Busy
      <3>3. d # Root => Top[d] \in Tops
        BY TopLemma
      <3>4. finishedTops' \subseteq Tops /\ abandonedTops' \subseteq Tops \cup {Root}
        BY <1>0, <2>9, <3>2, <3>3 DEF TypeOK, Release, Finishes
      <3>5. queue' \subseteq Dirs
        BY <1>0, <2>9, <3>2, OpenAfterRelease DEF TypeOK
      <3> QED
        BY <1>0, <2>9, <3>1, <3>4, <3>5 DEF TypeOK, Release
    <2>10. CASE Merge(w)
      <3>1. Plus(res, tally[w]) \in Tallies
        BY <1>0, PlusLemma DEF TypeOK
      <3> QED
        BY <1>0, <2>10, <3>1 DEF TypeOK, Merge
    <2> QED
      BY <1>4, <2>1, <2>2, <2>3, <2>4, <2>5, <2>6, <2>7, <2>8, <2>9, <2>10 DEF Work, Scan
  <1> QED
    BY <1>1, <1>2, <1>3, <1>4 DEF Next, Over

\* The rest of the layer: one case per action of a worker.
LEMMA PlacementStep ==
    ASSUME Placement, [Next]_vars
    PROVE  Placement'
  <1>1. TypeOK'
    BY TypeStep
  <1>2. CountersExact' /\ HeldInv' /\ PlacesInv' /\ PlacedInv' /\ NotesInv'
    <2>1. CASE RequestStop \/ MainStep \/ UNCHANGED vars
      <3>1. UNCHANGED placeVars
        BY <2>1 DEF placeVars, vars, cvVars, scanVars, RequestStop, MainStep,
             SetDeadline, LeaveJoin, CloseDoor, Abandon, Publish
      <3> QED
        BY <3>1, PlacementFrame
    <2>2. ASSUME NEW w \in Workers, Work(w)
          PROVE  CountersExact' /\ HeldInv' /\ PlacesInv' /\ PlacedInv' /\ NotesInv'
      <3>1. CASE DecideTake(w) \/ Quit(w) \/ SetupRaises(w) \/ Merge(w)
        BY <3>1, PlacementMove
      <3>2. CASE Take(w)
        BY <3>2, PlacementTake
      <3>3. CASE OpenDir(w) \/ StoppedAtLimiter(w)
        BY <3>3, PlacementOpen
      <3>4. CASE CannotStat(w) \/ CrossesFs(w) \/ ReadDir(w) \/ ReadFile(w) \/ ReadLink(w)
        <4>1. PICK e \in Entries \ {Root}, o \in Dispositions : Charges(w, e, o)
          BY <3>4, ReadingLemma DEF Placement
        <4> QED
          BY <4>1, PlacementCharges
      <3>5. CASE ScanStops(w) \/ ScanRaises(w)
        BY <3>5, PlacementCut
      <3>6. CASE Release(w)
        BY <3>6, PlacementRelease
      <3> QED
        BY <2>2, <3>1, <3>2, <3>3, <3>4, <3>5, <3>6 DEF Work, Scan
    <2> QED
      BY <2>1, <2>2 DEF Next, Over
  <1> QED
    BY <1>1, <1>2 DEF Placement

-----------------------------------------------------------------------------
\* In every walk, every worker's holdings, notes and counters stay consistent.
THEOREM PlacementInvariant == Spec => []Placement
  <1>1. Placement /\ [Next]_vars => Placement'
    BY PlacementStep
  <1> QED
    BY PlacementInit, <1>1, PTL DEF Spec

\* Every variable of walk() keeps its type, whatever the tree, the number of
\* workers and the instant of a stop; pending_box and outstanding never go
\* below zero.
THEOREM TypeCorrect == Spec => []TypeOK
  <1>1. Placement => TypeOK
    BY DEF Placement
  <1> QED
    BY PlacementInvariant, <1>1, PTL

\* The counters workers end on count what is queued or in hand, exactly.
THEOREM CountersCorrect == Spec => []CountersExact
  <1>1. Placement => CountersExact
    BY DEF Placement
  <1> QED
    BY PlacementInvariant, <1>1, PTL

-----------------------------------------------------------------------------
(***************************************************************************)
(* What the result of a walk holds: the notes of the workers that merged,  *)
(* each entry once, and each inode of the tree once.                       *)
(***************************************************************************)

\* A worker that has left is left alone, and only a merge touches the result.
LEMMA ExitedFrozen ==
    ASSUME Placement, [Next]_vars
    PROVE  /\ \A v \in Workers : pc[v] = "exited" =>
                 pc'[v] = "exited" /\ tally'[v] = tally[v]
           /\ \/ UNCHANGED <<res, merged>>
              \/ \E w \in Workers : Merge(w) /\ DoorOpen
  <1> USE DEF cvVars, scanVars, doorVars, mainVars
  <1>0. /\ pc \in [Workers -> {"idle", "taking", "setup", "scan", "merge", "exited", "dead"}]
        /\ tally \in [Workers -> Tallies]
    BY DEF Placement, TypeOK
  <1>1. CASE RequestStop \/ MainStep \/ UNCHANGED vars
    BY <1>1 DEF vars, RequestStop, MainStep, SetDeadline, LeaveJoin, CloseDoor,
       Abandon, Publish
  <1>2. ASSUME NEW w \in Workers, Work(w)
        PROVE  /\ \A v \in Workers : pc[v] = "exited" =>
                     pc'[v] = "exited" /\ tally'[v] = tally[v]
               /\ UNCHANGED <<res, merged>> \/ (Merge(w) /\ DoorOpen)
    <2>1. CASE DecideTake(w) \/ Quit(w) \/ SetupRaises(w) \/ Merge(w)
      BY <1>0, <2>1 DEF DecideTake, Quit, SetupRaises, Merge
    <2>2. CASE Take(w) \/ OpenDir(w) \/ StoppedAtLimiter(w) \/ Release(w)
      BY <1>0, <2>2 DEF Take, OpenDir, StoppedAtLimiter, Release
    <2>3. CASE CannotStat(w) \/ CrossesFs(w) \/ ReadDir(w) \/ ReadFile(w) \/ ReadLink(w)
      <3>1. PICK e \in Entries \ {Root}, o \in Dispositions : Charges(w, e, o)
        BY <2>3, ReadingLemma DEF Placement
      <3> QED
        BY <1>0, <3>1 DEF Charges, Account
    <2>4. CASE ScanStops(w) \/ ScanRaises(w)
      BY <1>0, <2>4 DEF ScanStops, ScanRaises
    <2> QED
      BY <1>2, <2>1, <2>2, <2>3, <2>4 DEF Work, Scan
  <1> QED
    BY <1>1, <1>2 DEF Next, Over

LEMMA ResultInit == Init => ResultInv
  <1> SUFFICES ASSUME Init PROVE ResultInv
    OBVIOUS
  <1>1. Root \in Entries /\ NoTally \in Tallies
    BY NoTallyLemma, TreeAssumption DEF Entries
  <1>2. /\ Dispositions \subseteq Outcomes /\ "counted" \in Dispositions
    BY DEF Outcomes, Dispositions
  <1>3. /\ Figure(RootCharged, "counted", Root) = Figure(NoTally, "counted", Root) + 1
        /\ \A o \in Outcomes, x \in Entries : o # "counted" \/ x # Root =>
              Figure(RootCharged, o, x) = Figure(NoTally, o, x)
        /\ Accounts(RootCharged, Root) = Accounts(NoTally, Root) + 1
    BY <1>1, <1>2, ChargeLemma DEF RootCharged
  <1>4. \A e \in Entries \ {Root}, o \in Dispositions : Figure(RootCharged, o, e) = 0
    BY <1>2, <1>3, NoTallyLemma
  <1>5. Figure(RootCharged, "counted", Root) = 1 /\ Accounts(RootCharged, Root) = 1
    BY <1>1, <1>2, <1>3, NoTallyLemma
  <1> QED
    BY <1>4, <1>5 DEF Init, ResultInv

\* A merge adds notes that nobody else has, to records that are still zero.
LEMMA ResultMerge ==
    ASSUME Placement, ResultInv, NEW w \in Workers, Merge(w), DoorOpen
    PROVE  ResultInv'
  <1>1. /\ res' = Plus(res, tally[w]) /\ merged' = [merged EXCEPT ![w] = TRUE]
        /\ pc' = [pc EXCEPT ![w] = "exited"] /\ tally' = tally /\ pc[w] = "merge"
    BY DEF Merge
  <1>2. /\ pc'[w] = "exited" /\ merged'[w] = TRUE /\ ~merged[w]
        /\ \A v \in Workers : v # w => merged'[v] = merged[v] /\ pc'[v] = pc[v]
    BY <1>1 DEF Placement, TypeOK, ResultInv
  <1>3. res \in Tallies /\ \A v \in Workers : tally[v] \in Tallies
    BY DEF Placement, TypeOK
  <1>4. /\ Dispositions \subseteq Outcomes /\ "unreadable" \in Outcomes
        /\ {"counted", "extra", "unstat", "crossed"} \subseteq Dispositions
        /\ Root \in Entries
    BY TreeAssumption DEF Outcomes, Dispositions, Entries
  <1>5. \A o \in Outcomes, e \in Entries :
           Figure(res', o, e) = Figure(res, o, e) + Figure(tally[w], o, e)
    BY <1>1, <1>3, PlusLemma
  <1>6. \A v \in Workers, e \in Entries :
           /\ ~Noted(v, e) => \A o \in Dispositions : Figure(tally[v], o, e) = 0
           /\ \A o \in Dispositions : Figure(tally[v], o, e) \in Nat /\ Figure(res, o, e) \in Nat
           /\ Figure(tally[v], "unreadable", e) \in Nat /\ Figure(res, "unreadable", e) \in Nat
    <2> TAKE v \in Workers, e \in Entries
    <2>1. /\ Accounts(tally[v], e) \in Nat
          /\ Accounts(tally[v], e) = 0 => \A o \in Dispositions : Figure(tally[v], o, e) = 0
          /\ \A o \in Dispositions : Figure(tally[v], o, e) \in Nat /\ Figure(res, o, e) \in Nat
          /\ Figure(tally[v], "unreadable", e) \in Nat /\ Figure(res, "unreadable", e) \in Nat
      BY <1>3, <1>4, TallyLemma
    <2> QED
      BY <2>1 DEF Noted
  <1>7. \A v \in Workers, e \in Entries : Noted(v, e)' <=> Noted(v, e)
    BY <1>1 DEF Noted
  <1>8. \A e \in Entries, o \in Dispositions :
           /\ Noted(w, e) => Figure(res', o, e) = Figure(tally[w], o, e)
           /\ ~Noted(w, e) => Figure(res', o, e) = Figure(res, o, e)
    <2> TAKE e \in Entries, o \in Dispositions
    <2>0. /\ Figure(res', o, e) = Figure(res, o, e) + Figure(tally[w], o, e)
          /\ Figure(res, o, e) \in Nat /\ Figure(tally[w], o, e) \in Nat
      BY <1>4, <1>5, <1>6
    <2>1. ASSUME Noted(w, e)
          PROVE  Figure(res', o, e) = Figure(tally[w], o, e)
      <3>1. e # Root /\ \A v \in Workers : merged[v] => ~Noted(v, e)
        BY <1>2, <2>1 DEF Placement, NotesInv
      <3>2. Figure(res, o, e) = 0
        BY <3>1 DEF ResultInv
      <3> QED
        BY <2>0, <3>2
    <2>2. ~Noted(w, e) => Figure(res', o, e) = Figure(res, o, e)
      <3>1. ~Noted(w, e) => Figure(tally[w], o, e) = 0
        BY <1>6
      <3> QED
        BY <2>0, <3>1
    <2> QED
      BY <2>1, <2>2
  <1>9. Figure(res', "counted", Root) = 1 /\ Accounts(res', Root) = 1
    <2>1. \A o \in Dispositions : Figure(res', o, Root) = Figure(res, o, Root)
      BY <1>4, <1>8 DEF Placement, NotesInv
    <2> QED
      BY <1>4, <2>1, AccountsLemma DEF ResultInv
  <1>10. ASSUME NEW v \in Workers, merged'[v]
         PROVE  /\ pc'[v] = "exited"
                /\ \A e \in Entries :
                      Figure(res', "unreadable", e) >= Figure(tally'[v], "unreadable", e)
                /\ \A e \in Entries, o \in Dispositions :
                      Noted(v, e)' => Figure(res', o, e) = Figure(tally'[v], o, e)
    <2>1. \A e \in Entries : Figure(res', "unreadable", e) =
             Figure(res, "unreadable", e) + Figure(tally[w], "unreadable", e)
      BY <1>4, <1>5
    <2>2. CASE v = w
      BY <1>1, <1>2, <1>6, <1>7, <1>8, <2>1, <2>2
    <2>3. CASE v # w
      <3>1. merged[v]
        BY <1>2, <1>10, <2>3
      <3>2. pc'[v] = "exited"
        BY <1>2, <2>3, <3>1 DEF ResultInv
      <3>3. \A e \in Entries :
               Figure(res', "unreadable", e) >= Figure(tally[v], "unreadable", e)
        <4> TAKE e \in Entries
        <4>1. Figure(res, "unreadable", e) >= Figure(tally[v], "unreadable", e)
          BY <3>1 DEF ResultInv
        <4>2. /\ Figure(res, "unreadable", e) \in Nat
              /\ Figure(tally[v], "unreadable", e) \in Nat
              /\ Figure(tally[w], "unreadable", e) \in Nat
          BY <1>6
        <4> QED
          BY <2>1, <4>1, <4>2
      <3>4. \A e \in Entries : Noted(v, e) => ~Noted(w, e)
        BY <2>3 DEF Placement, NotesInv
      <3>5. \A e \in Entries, o \in Dispositions :
               Noted(v, e) => Figure(res', o, e) = Figure(tally[v], o, e)
        BY <1>8, <3>1, <3>4 DEF ResultInv
      <3> QED
        BY <1>1, <1>7, <3>2, <3>3, <3>5
    <2> QED
      BY <2>2, <2>3
  <1>11. ASSUME NEW e \in Entries \ {Root},
                \A v \in Workers : merged'[v] => ~Noted(v, e)',
                NEW o \in Dispositions
         PROVE  Figure(res', o, e) = 0
    <2>1. ~Noted(w, e) /\ \A v \in Workers : merged[v] => ~Noted(v, e)
      BY <1>2, <1>7, <1>11
    <2>2. Figure(res, o, e) = 0
      BY <2>1 DEF ResultInv
    <2> QED
      BY <1>8, <2>1, <2>2
  <1> QED
    BY <1>9, <1>10, <1>11 DEF ResultInv

LEMMA ResultStep ==
    ASSUME Placement, ResultInv, [Next]_vars
    PROVE  ResultInv'
  <1>1. ASSUME UNCHANGED <<res, merged>>
        PROVE  ResultInv'
    <2>1. \A w \in Workers : merged[w] => /\ pc'[w] = "exited"
                                          /\ tally'[w] = tally[w]
      BY ExitedFrozen DEF ResultInv
    <2> QED
      BY <1>1, <2>1 DEF ResultInv, Noted
  <1>2. ASSUME NEW w \in Workers, Merge(w), DoorOpen
        PROVE  ResultInv'
    BY <1>2, ResultMerge
  <1> QED
    BY <1>1, <1>2, ExitedFrozen

-----------------------------------------------------------------------------
(* Hard links: seen_links lets one name of an inode through.               *)

LEMMA LinksInit == Init => LinksInv
  <1> SUFFICES ASSUME Init PROVE LinksInv
    OBVIOUS
  <1>1. \A w \in Workers, e \in Entries : /\ ~CountedBy(w, e)
                                          /\ ~(Figure(tally[w], "extra", e) > 0)
    BY NoTallyLemma DEF Init, CountedBy, Outcomes, Dispositions
  <1> QED
    BY <1>1 DEF Init, LinksInv, Charged, Entries

\* A name is counted only if its inode is not in seen_links, and puts it there.
LEMMA LinksCharges ==
    ASSUME Placement, LinksInv, NEW w \in Workers, NEW e \in Entries \ {Root},
           NEW o \in Dispositions, Charges(w, e, o)
    PROVE  LinksInv'
  <1>1. /\ o = "extra" => ~CountOnly /\ e \in Files /\ Inode[e] \in seenLinks
        /\ IF o = "counted" /\ e \in Files \cap Linked /\ ~CountOnly
             THEN Inode[e] \notin seenLinks /\ seenLinks' = seenLinks \cup {Inode[e]}
             ELSE seenLinks' = seenLinks
    BY DEF Charges
  <1>2. \A v \in Workers, x \in Entries :
           CountedBy(v, x)' <=> CountedBy(v, x) \/ (v = w /\ x = e /\ o = "counted")
    BY NotedAfterCharge DEF Placement
  <1>3. \A x \in Entries : Charged(x)' <=> Charged(x) \/ (x = e /\ o = "counted")
    BY <1>2 DEF Charged
  <1>4. \A v \in Workers, x \in Entries : Figure(tally'[v], "extra", x) > 0 =>
           Figure(tally[v], "extra", x) > 0 \/ (x = e /\ o = "extra")
    <2> TAKE v \in Workers, x \in Entries
    <2>1. "extra" \in Outcomes
      BY DEF Outcomes, Dispositions
    <2>2. Figure(tally'[v], "extra", x) = IF v = w /\ x = e /\ "extra" = o
             THEN Figure(tally[v], "extra", x) + 1 ELSE Figure(tally[v], "extra", x)
      BY <2>1, FiguresAfterCharge DEF Placement
    <2> QED
      BY <2>2
  <1>5. Files \subseteq Entries /\ seenLinks \subseteq seenLinks'
    BY <1>1 DEF Entries
  <1>6. \A v \in Workers, x \in Entries : Figure(tally'[v], "extra", x) > 0 =>
           ~CountOnly /\ x \in Files /\ Inode[x] \in seenLinks'
    BY <1>1, <1>4, <1>5 DEF LinksInv
  <1>7. ASSUME ~CountOnly
        PROVE  /\ \A f \in Files \cap Linked : Charged(f)' => Inode[f] \in seenLinks'
               /\ \A i \in seenLinks' : \E f \in Files : Inode[f] = i /\ Charged(f)'
               /\ \A f, g \in Files : f # g /\ Inode[f] = Inode[g] =>
                     ~(Charged(f)' /\ Charged(g)')
    <2>1. \A f \in Files \cap Linked : Charged(f)' => Inode[f] \in seenLinks'
      BY <1>1, <1>3, <1>5, <1>7 DEF LinksInv
    <2>2. \A i \in seenLinks' : \E f \in Files : Inode[f] = i /\ Charged(f)'
      BY <1>1, <1>3, <1>5, <1>7 DEF LinksInv
    <2>3. ASSUME NEW f \in Files, NEW g \in Files, f # g, Inode[f] = Inode[g],
                 Charged(f)', Charged(g)'
          PROVE  FALSE
      <3>1. f \in Linked /\ g \in Linked
        BY <2>3, LinkAssumption
      <3>2. (Charged(f) /\ ~Charged(g) /\ g = e) \/ (Charged(g) /\ ~Charged(f) /\ f = e)
        BY <1>3, <1>5, <1>7, <2>3 DEF LinksInv
      <3>3. Inode[e] \in seenLinks
        BY <1>7, <2>3, <3>1, <3>2 DEF LinksInv
      <3>4. o = "counted" /\ e \in Files \cap Linked
        BY <1>3, <1>5, <2>3, <3>1, <3>2
      <3> QED
        BY <1>1, <1>7, <3>3, <3>4
    <2> QED
      BY <2>1, <2>2, <2>3
  <1> QED
    BY <1>6, <1>7 DEF LinksInv

LEMMA LinksStep ==
    ASSUME Placement, LinksInv, [Next]_vars
    PROVE  LinksInv'
  <1>1. ASSUME UNCHANGED <<seenLinks, tally>>
        PROVE  LinksInv'
    BY <1>1 DEF LinksInv, Charged, CountedBy
  <1>2. CASE RequestStop \/ MainStep \/ UNCHANGED vars
    BY <1>1, <1>2 DEF vars, RequestStop, MainStep, SetDeadline, LeaveJoin, CloseDoor,
       Abandon, Publish
  <1>3. ASSUME NEW w \in Workers, Work(w)
        PROVE  LinksInv'
    <2>1. CASE \/ DecideTake(w) \/ Take(w) \/ Quit(w) \/ SetupRaises(w) \/ OpenDir(w)
               \/ StoppedAtLimiter(w) \/ Release(w) \/ Merge(w)
      BY <1>1, <2>1 DEF DecideTake, Take, Quit, SetupRaises, OpenDir, StoppedAtLimiter,
         Release, Merge
    <2>2. CASE CannotStat(w) \/ CrossesFs(w) \/ ReadDir(w) \/ ReadFile(w) \/ ReadLink(w)
      <3>1. PICK e \in Entries \ {Root}, o \in Dispositions : Charges(w, e, o)
        BY <2>2, ReadingLemma DEF Placement
      <3> QED
        BY <3>1, LinksCharges
    <2>3. CASE ScanStops(w) \/ ScanRaises(w)
      <3>1. seenLinks' = seenLinks
        BY <2>3 DEF ScanStops, ScanRaises
      <3>2. \A v \in Workers, x \in Entries :
               /\ CountedBy(v, x)' <=> CountedBy(v, x)
               /\ \A o \in Dispositions : Figure(tally'[v], o, x) = Figure(tally[v], o, x)
        BY <2>3, PlacementCut
      <3>3. \A v \in Workers, x \in Entries :
               Figure(tally'[v], "extra", x) = Figure(tally[v], "extra", x)
        BY <3>2 DEF Dispositions
      <3>4. \A x \in Entries : Charged(x)' <=> Charged(x)
        BY <3>2 DEF Charged
      <3>5. Files \subseteq Entries
        BY DEF Entries
      <3> QED
        BY <3>1, <3>3, <3>4, <3>5 DEF LinksInv
    <2> QED
      BY <1>3, <2>1, <2>2, <2>3 DEF Work, Scan
  <1> QED
    BY <1>2, <1>3 DEF Next, Over

-----------------------------------------------------------------------------
\* What the result holds of an entry is what the one worker that noted it and
\* merged holds, or, for Root, account_root's charge.
LEMMA ResultOrigin ==
    ASSUME Placement, ResultInv, NEW e \in Entries \ {Root},
           Figure(res, "counted", e) > 0
    PROVE  Charged(e)
  <1>1. "counted" \in Dispositions
    BY DEF Dispositions
  <1>2. PICK w \in Workers : merged[w] /\ Noted(w, e)
    BY <1>1 DEF ResultInv
  <1>3. Figure(res, "counted", e) = Figure(tally[w], "counted", e)
    BY <1>1, <1>2 DEF ResultInv
  <1> QED
    BY <1>3 DEF Charged, CountedBy

LEMMA AccountedOnce ==
    ASSUME Placement, ResultInv, NEW e \in Entries
    PROVE  Accounts(res, e) <= 1
  <1>1. {"counted", "extra", "unstat", "crossed"} \subseteq Dispositions
    BY DEF Dispositions
  <1>2. CASE e = Root
    BY <1>2 DEF ResultInv
  <1>3. CASE e # Root /\ \E w \in Workers : merged[w] /\ Noted(w, e)
    <2>1. PICK w \in Workers : merged[w] /\ Noted(w, e)
      BY <1>3
    <2>2. \A o \in Dispositions : Figure(res, o, e) = Figure(tally[w], o, e)
      BY <2>1 DEF ResultInv
    <2>3. Accounts(res, e) = Accounts(tally[w], e)
      BY <1>1, <2>2, AccountsLemma
    <2> QED
      BY <2>3 DEF Placement, NotesInv
  <1>4. CASE e # Root /\ \A w \in Workers : merged[w] => ~Noted(w, e)
    <2>1. \A o \in Dispositions : Figure(res, o, e) = 0
      BY <1>4 DEF ResultInv
    <2>2. Accounts(res, e) = 0
      BY <1>1, <2>1, AccountsLemma
    <2> QED
      BY <2>2
  <1> QED
    BY <1>2, <1>3, <1>4

\* However the workers race and whichever of them merge, the result holds each
\* entry at most once and each inode at most once.
THEOREM CountedOnceCorrect == Spec => []CountedOnce
  <1>1. Init => ResultInv /\ LinksInv
    BY ResultInit, LinksInit
  <1>2. Placement /\ ResultInv /\ LinksInv /\ [Next]_vars => (ResultInv /\ LinksInv)'
    BY ResultStep, LinksStep
  <1>3. Placement /\ ResultInv /\ LinksInv => CountedOnce
    <2> SUFFICES ASSUME Placement, ResultInv, LinksInv
                 PROVE  CountedOnce
      OBVIOUS
    <2>1. \A e \in Entries : Accounts(res, e) <= 1
      BY AccountedOnce
    <2>2. ASSUME ~CountOnly, NEW f \in Files, NEW g \in Files, f # g, Inode[f] = Inode[g]
          PROVE  res[<<"counted", f>>] + res[<<"counted", g>>] <= 1
      <3>1. f \in Entries \ {Root} /\ g \in Entries \ {Root}
        BY TreeAssumption DEF Entries
      <3>2. /\ Figure(res, "counted", f) \in Nat /\ Figure(res, "counted", f) <= 1
            /\ Figure(res, "counted", g) \in Nat /\ Figure(res, "counted", g) <= 1
        <4>1. \A e \in Entries : /\ Figure(res, "counted", e) \in Nat
                                 /\ Accounts(res, e) \in Nat
                                 /\ Figure(res, "counted", e) <= Accounts(res, e)
          BY TallyLemma DEF Placement, TypeOK, Outcomes, Dispositions
        <4> QED
          BY <2>1, <3>1, <4>1
      <3>3. ~(Charged(f) /\ Charged(g))
        BY <2>2 DEF LinksInv
      <3>4. ~(Figure(res, "counted", f) > 0 /\ Figure(res, "counted", g) > 0)
        BY <3>1, <3>3, ResultOrigin
      <3> QED
        BY <3>2, <3>4 DEF Figure
    <2> QED
      BY <2>1, <2>2 DEF CountedOnce
  <1> QED
    BY <1>1, <1>2, <1>3, PlacementInvariant, PTL DEF Spec

-----------------------------------------------------------------------------
(***************************************************************************)
(* How a walk ends: who may still take work, what is finished, what was    *)
(* abandoned, and why what is published is exact and what calls itself     *)
(* complete is whole.                                                      *)
(***************************************************************************)

-----------------------------------------------------------------------------
(* The main thread and the workers it left behind.                         *)

\* What a worker's step leaves to the main thread, and the other way round.
LEMMA WorkerFrame ==
    ASSUME TypeOK, NEW w \in Workers, Work(w)
    PROVE  /\ UNCHANGED <<stop, doorClosed, mainVars>>
           /\ abandonedTops \subseteq abandonedTops'
           /\ finishedTops \subseteq finishedTops'
           /\ ~Gone(w)
           /\ \A v \in Workers : v # w => pc'[v] = pc[v]
           /\ pc'[w] = "taking" => ~stop
           /\ inflight' = inflight \/ pc[w] = "taking"
           /\ UNCHANGED <<res, merged>> \/ ~doorClosed
  <1> USE DEF cvVars, scanVars, doorVars, Gone
  <1>0. pc \in [Workers -> {"idle", "taking", "setup", "scan", "merge", "exited", "dead"}]
    BY DEF TypeOK
  <1>1. CASE DecideTake(w) \/ Quit(w) \/ SetupRaises(w)
    BY <1>0, <1>1 DEF DecideTake, Quit, SetupRaises, MayTake
  <1>2. CASE Merge(w)
    BY <1>0, <1>2 DEF Merge, DoorOpen
  <1>3. CASE Take(w)
    BY <1>0, <1>3 DEF Take
  <1>4. CASE OpenDir(w) \/ StoppedAtLimiter(w)
    BY <1>0, <1>4 DEF OpenDir, StoppedAtLimiter
  <1>5. CASE CannotStat(w) \/ CrossesFs(w) \/ ReadDir(w) \/ ReadFile(w) \/ ReadLink(w)
    <2>1. PICK e \in Entries \ {Root}, o \in Dispositions : Charges(w, e, o)
      BY <1>5, ReadingLemma
    <2> QED
      BY <1>0, <2>1 DEF Charges, Account
  <1>6. CASE ScanStops(w) \/ ScanRaises(w)
    BY <1>0, <1>6 DEF ScanStops, ScanRaises
  <1>7. CASE Release(w)
    BY <1>0, <1>7 DEF Release
  <1> QED
    BY <1>1, <1>2, <1>3, <1>4, <1>5, <1>6, <1>7 DEF Work, Scan

LEMMA MainInit == Init => MainInv
  BY DEF Init, MainInv

\* MainInv needs nothing but the types.
LEMMA MainStepInv ==
    ASSUME TypeOK, MainInv, [Next]_vars
    PROVE  MainInv'
  <1> USE DEF cvVars, doorVars, mainVars
  <1>1. CASE RequestStop
    BY <1>1 DEF RequestStop, MainInv, Gone, CvFree
  <1>2. CASE SetDeadline
    BY <1>2 DEF SetDeadline, MainInv, Gone, CvFree
  <1>3. CASE LeaveJoin
    <2>1. (\A w \in Workers : Gone(w)) \/ (stop /\ CvFree)
      BY <1>3 DEF LeaveJoin, GraceOver, MainInv
    <2>2. ~stop => \A w \in Workers : Gone(w)
      BY <2>1
    <2> QED
      BY <1>3, <2>1, <2>2 DEF LeaveJoin, WasStopped, MainInv, Gone, CvFree
  <1>4. CASE CloseDoor
    BY <1>4 DEF CloseDoor, MainInv, Gone, CvFree
  <1>5. CASE Abandon
    <2>1. \A w \in stranded : inflight[w] \subseteq abandonedTops'
      BY <1>5 DEF Abandon, Lost
    <2> QED
      BY <1>5, <2>1 DEF Abandon, MainInv, Gone, CvFree
  <1>6. CASE Publish
    BY <1>6 DEF Publish, MainInv, Gone, CvFree
  <1>7. CASE UNCHANGED vars
    BY <1>7 DEF vars, MainInv, Gone, CvFree
  <1>8. ASSUME NEW w \in Workers, Work(w)
        PROVE  MainInv'
    <2>1. /\ UNCHANGED <<stop, doorClosed, mainVars>>
          /\ abandonedTops \subseteq abandonedTops'
          /\ ~Gone(w)
          /\ \A v \in Workers : v # w => pc'[v] = pc[v]
          /\ pc'[w] = "taking" => ~stop
          /\ inflight' = inflight \/ pc[w] = "taking"
          /\ UNCHANGED <<res, merged>> \/ ~doorClosed
      BY <1>8, WorkerFrame
    <2>2. ASSUME main # "join"
          PROVE  /\ stop /\ CvFree /\ CvFree' /\ partial
                 /\ inflight' = inflight
      <3>1. stop /\ CvFree /\ partial
        BY <2>1, <2>2 DEF MainInv
      <3>2. CvFree'
        BY <2>1, <3>1 DEF CvFree
      <3>3. inflight' = inflight
        BY <2>1, <3>1 DEF CvFree
      <3> QED
        BY <3>1, <3>2, <3>3
    <2>3. main # "join" => ((\A v \in Workers : Gone(v)') \/ (stop /\ CvFree)')
      BY <2>1, <2>2
    <2>4. main \in {"abandon", "publish", "published"} =>
             doorClosed' /\ stranded' = {v \in Workers : ~merged'[v]}
      BY <2>1 DEF MainInv
    <2>5. main \in {"publish", "published"} =>
             \A v \in stranded : inflight'[v] \subseteq abandonedTops'
      BY <2>1, <2>2 DEF MainInv
    <2> QED
      BY <2>1, <2>2, <2>3, <2>4, <2>5 DEF MainInv
  <1> QED
    BY <1>1, <1>2, <1>3, <1>4, <1>5, <1>6, <1>7, <1>8 DEF Next, MainStep, Over

THEOREM MainInvariant == Spec => []MainInv
  <1>1. TypeOK /\ MainInv /\ [Next]_vars => MainInv'
    BY MainStepInv
  <1> QED
    BY MainInit, <1>1, TypeCorrect, PTL DEF Spec

\* Once the merge door is shut no step of any thread, however late, changes the
\* figures of the result, who merged, or who is counted as stranded.
THEOREM SnapshotFrozenCorrect == Spec => SnapshotFrozen
  <1>1. TypeOK /\ MainInv /\ [Next]_vars =>
           [doorClosed => UNCHANGED <<res, merged, stranded>>]_vars
    <2> SUFFICES ASSUME TypeOK, MainInv, Next, doorClosed
                 PROVE  UNCHANGED <<res, merged, stranded>>
      OBVIOUS
    <2>1. main \in {"abandon", "publish", "published"}
      BY DEF TypeOK, MainInv
    <2>2. CASE RequestStop \/ MainStep \/ UNCHANGED vars
      BY <2>1, <2>2 DEF vars, doorVars, mainVars, RequestStop, MainStep,
         SetDeadline, LeaveJoin, CloseDoor, Abandon, Publish
    <2>3. ASSUME NEW w \in Workers, Work(w)
          PROVE  UNCHANGED <<res, merged, stranded>>
      BY <2>3, WorkerFrame DEF mainVars
    <2> QED
      BY <2>2, <2>3 DEF Next, Over
  <1> QED
    BY <1>1, TypeCorrect, MainInvariant, PTL DEF Spec, SnapshotFrozen

\* Once the main thread has stopped waiting, no worker takes any more work, so
\* what it then reads of the stranded workers' inflight is all there will be.
THEOREM InflightFinalCorrect == Spec => InflightFinalOnceRead
  <1>1. TypeOK /\ MainInv /\ [Next]_vars => [main # "join" => UNCHANGED inflight]_vars
    <2> SUFFICES ASSUME TypeOK, MainInv, Next, main # "join"
                 PROVE  UNCHANGED inflight
      OBVIOUS
    <2>1. CASE RequestStop \/ MainStep \/ UNCHANGED vars
      BY <2>1 DEF vars, cvVars, RequestStop, MainStep,
         SetDeadline, LeaveJoin, CloseDoor, Abandon, Publish
    <2>2. ASSUME NEW w \in Workers, Work(w)
          PROVE  UNCHANGED inflight
      <3>1. ~Gone(w) /\ (inflight' = inflight \/ pc[w] = "taking")
        BY <2>2, WorkerFrame
      <3>2. CvFree
        BY <3>1 DEF MainInv
      <3> QED
        BY <3>1, <3>2 DEF CvFree
    <2> QED
      BY <2>1, <2>2 DEF Next, Over
  <1> QED
    BY <1>1, TypeCorrect, MainInvariant, PTL DEF Spec, InflightFinalOnceRead

-----------------------------------------------------------------------------
(* Subtrees: what a worker took work from, and what is finished.           *)

Subtrees == InflightInv /\ TopsInv /\ FinishedStaysClosed

\* A directory and what is listed in it are below the same depth-1 name.
LEMMA SameTop ==
    ASSUME NEW d \in Dirs, NEW e \in Children(d)
    PROVE  /\ e \in Entries \ {Root}
           /\ Parent[e] = d
           /\ d = Root => e \in Tops /\ Top[e] = e
           /\ d # Root => e \notin Tops /\ Top[e] = Top[d] /\ Top[d] \in Tops
  <1>1. e \in Entries \ {Root} /\ Parent[e] = d
    BY DEF Children
  <1>2. Top[e] = IF d = Root THEN e ELSE Top[d]
    BY <1>1, TreeAssumption
  <1>3. d # Root => Top[d] \in Tops
    BY TopLemma
  <1> QED
    BY <1>1, <1>2, <1>3 DEF Tops

LEMMA SubtreesInit == Init => Subtrees
  <1> SUFFICES ASSUME Init PROVE Subtrees
    OBVIOUS
  <1>1. \A w \in Workers, e \in Entries : ~Noted(w, e)
    BY NoTallyLemma DEF Init, Noted
  <1> QED
    BY <1>1 DEF Init, Subtrees, InflightInv, TopsInv, FinishedStaysClosed, Waiting

LEMMA SubtreesFrame ==
    ASSUME Subtrees, UNCHANGED <<queue, finishedTops, inflight, held, children>>,
           \A w \in Workers, e \in Entries : Noted(w, e)' <=> Noted(w, e),
           \A e \in Dirs : Known(e)' <=> Known(e)
    PROVE  Subtrees'
  <1>1. InflightInv'
    BY DEF Subtrees, InflightInv
  <1>2. TopsInv'
    BY DEF Subtrees, TopsInv, Taken, Waiting
  <1>3. FinishedStaysClosed'
    BY DEF Subtrees, FinishedStaysClosed, OpenUnder, Open
  <1> QED
    BY <1>1, <1>2, <1>3 DEF Subtrees

\* Work is first taken below a depth-1 directory when that directory is taken.
LEMMA SubtreesTake ==
    ASSUME Placement, Subtrees, NEW w \in Workers, Take(w)
    PROVE  Subtrees'
  <1>0. PICK d \in queue : /\ queue' = queue \ {d}
                           /\ held' = [held EXCEPT ![w] = {d}]
                           /\ inflight' = [inflight EXCEPT ![w] = @ \cup {Top[d]}]
    BY DEF Take
  <1>1. /\ UNCHANGED <<finishedTops, children, tally>>
        /\ held[w] = {} /\ held'[w] = {d} /\ inflight'[w] = inflight[w] \cup {Top[d]}
        /\ \A v \in Workers : v # w => held'[v] = held[v] /\ inflight'[v] = inflight[v]
        /\ queue' = queue \ {d} /\ d \in Dirs
    BY <1>0 DEF Take, Placement, TypeOK, HeldInv, Busy
  <1>2. \A x, v : /\ Known(x)' <=> Known(x)
                  /\ Noted(v, x)' <=> Noted(v, x)
    BY <1>1 DEF Known, Charged, CountedBy, Noted
  <1>3. \A t : Taken(t)' <=> Taken(t) \/ t = Top[d]
    BY <1>1 DEF Taken
  <1>4. \A x : Waiting(x)' => Waiting(x) /\ x # d
    BY <1>1 DEF Waiting, Placement, PlacesInv
  <1>5. d # Root => IF d \in Tops THEN Top[d] = d ELSE Taken(Top[d])
    <2>1. d \in Tops => Top[d] = d
      BY TreeAssumption DEF Tops
    <2>2. d # Root /\ d \notin Tops => Taken(Top[d])
      BY <1>1 DEF Subtrees, TopsInv, Waiting
    <2> QED
      BY <2>1, <2>2
  <1>6. Top[d] \in Dirs /\ Known(Top[d])
    <2>1. CASE d = Root
      BY <2>1, TreeAssumption DEF Known
    <2>2. CASE d # Root /\ d \in Tops
      BY <1>1, <1>5, <2>2 DEF Placement, PlacedInv
    <2>3. CASE d # Root /\ d \notin Tops
      BY <1>5, <2>3 DEF Subtrees, InflightInv, Taken
    <2> QED
      BY <2>1, <2>2, <2>3
  <1>7. InflightInv'
    BY <1>1, <1>2, <1>6 DEF Subtrees, InflightInv
  <1>8. TopsInv'
    <2>1. ASSUME NEW x \in Dirs \ {Root}, Waiting(x)'
          PROVE  IF x \in Tops THEN ~Taken(x)' ELSE Taken(Top[x])'
      <3>1. Waiting(x) /\ x # d
        BY <1>4, <2>1
      <3>2. x \in Tops => ~Taken(x)
        BY <2>1, <3>1 DEF Subtrees, TopsInv
      <3>3. x \in Tops => x # Top[d]
        BY <1>5, <2>1, <3>1, <3>2, TreeAssumption
      <3>4. x \notin Tops => Taken(Top[x])
        BY <2>1, <3>1 DEF Subtrees, TopsInv
      <3> QED
        BY <1>3, <3>2, <3>3, <3>4
    <2>2. \A t \in finishedTops' : Taken(t)'
      BY <1>1, <1>3 DEF Subtrees, TopsInv
    <2> QED
      BY <2>1, <2>2 DEF TopsInv
  <1>9. FinishedStaysClosed'
    <2>1. Open' = Open
      BY <1>1 DEF Open
    <2> QED
      BY <1>1, <2>1 DEF Subtrees, FinishedStaysClosed, OpenUnder
  <1> QED
    BY <1>7, <1>8, <1>9 DEF Subtrees

\* A charged entry is below what the worker took; a directory found at depth 1
\* has not been taken before.
LEMMA SubtreesCharges ==
    ASSUME Placement, Subtrees, NEW w \in Workers, NEW e \in Entries \ {Root},
           NEW o \in Dispositions, Charges(w, e, o)
    PROVE  Subtrees'
  <1>0. e \in unread[w] /\ pc[w] = "scan"
    BY DEF Charges
  <1>1. held[w] = {Parent[e]} /\ ~Known(e)
    BY <1>0, UnreadIsNew DEF Placement
  <1>2. UNCHANGED <<queue, held, inflight, finishedTops>>
    BY DEF Charges, Account, cvVars
  <1>3. /\ children'[w] = IF o = "counted" /\ e \in Dirs
                            THEN children[w] \cup {e} ELSE children[w]
        /\ \A v \in Workers : v # w => children'[v] = children[v]
    BY ChargesEffect DEF Placement
  <1>4. \A v \in Workers, x \in Entries :
           /\ Noted(v, x)' <=> Noted(v, x) \/ (v = w /\ x = e)
           /\ CountedBy(v, x)' <=> \/ CountedBy(v, x)
                                   \/ v = w /\ x = e /\ o = "counted"
    BY NotedAfterCharge DEF Placement
  <1>5. \A x \in Entries : Known(x) => Known(x)'
    BY <1>4 DEF Known, Charged
  <1>6. /\ Parent[e] \in Dirs /\ e \in Children(Parent[e]) /\ Dirs \subseteq Entries
    BY TreeAssumption DEF Children, Entries
  <1>7. /\ Top[Parent[e]] \in inflight[w]
        /\ IF e \in Tops THEN ~Taken(e) ELSE Taken(Top[e])
    <2>1. Top[Parent[e]] \in inflight[w]
      BY <1>1 DEF Subtrees, InflightInv
    <2>2. e \in Tops => ~Taken(e)
      BY <1>1 DEF Subtrees, InflightInv, Taken
    <2>3. e \notin Tops => Top[e] = Top[Parent[e]]
      BY <1>6, SameTop
    <2> QED
      BY <2>1, <2>2, <2>3 DEF Taken
  <1>8. InflightInv'
    BY <1>2, <1>4, <1>5, <1>6, <1>7 DEF Subtrees, InflightInv
  <1>9. TopsInv'
    <2>1. \A x : Waiting(x)' => Waiting(x) \/ x = e
      BY <1>2, <1>3 DEF Waiting
    <2>2. \A t : Taken(t)' <=> Taken(t)
      BY <1>2 DEF Taken
    <2> QED
      BY <1>2, <1>7, <2>1, <2>2 DEF Subtrees, TopsInv
  <1>10. FinishedStaysClosed'
    BY <1>2 DEF Subtrees, FinishedStaysClosed, OpenUnder, Open
  <1> QED
    BY <1>8, <1>9, <1>10 DEF Subtrees

\* A finished subtree has nothing in hand that could have children to enqueue,
\* and its own depth-1 directory cannot be enqueued again.
LEMMA SubtreesRelease ==
    ASSUME Placement, Placement', Subtrees, NEW w \in Workers, Release(w)
    PROVE  Subtrees'
  <1>0. PICK d \in Dirs : held[w] = {d}
    BY DEF Release, Placement, HeldInv, Busy
  <1> DEFINE new == Enqueued(w)
  <1>1. /\ d \in Open
        /\ new \subseteq children[w] /\ new \subseteq Dirs
        /\ Open' = (Open \ {d}) \cup new
        /\ held'[w] = {} /\ children'[w] = {}
        /\ \A v \in Workers : v # w => held'[v] = held[v] /\ children'[v] = children[v]
        /\ queue' = queue \cup new
        /\ inflight' = inflight /\ tally' = tally
    BY <1>0, OpenAfterRelease
  <1>2. children[w] \subseteq Children(d)
    BY <1>0 DEF Placement, HeldInv
  <1>3. /\ finishedTops' = finishedTops \cup
              IF Finishes(d, outstanding') THEN {Top[d]} ELSE {}
    BY <1>0 DEF Release
  <1> HIDE DEF new
  <1>4. \A x, v : /\ Known(x)' <=> Known(x)
                  /\ Noted(v, x)' <=> Noted(v, x)
                  /\ Taken(x)' <=> Taken(x)
    BY <1>1 DEF Known, Charged, CountedBy, Noted, Taken
  <1>5. InflightInv'
    BY <1>1, <1>4 DEF Subtrees, InflightInv
  <1>6. Taken(Top[d])
    BY <1>0 DEF Subtrees, InflightInv, Taken
  <1>7. TopsInv'
    <2>1. \A x : Waiting(x)' => Waiting(x)
      BY <1>1 DEF Waiting
    <2> QED
      BY <1>3, <1>4, <1>6, <2>1 DEF Subtrees, TopsInv
  <1>8. ASSUME NEW t \in finishedTops'
        PROVE  OpenUnder(t)' = {}
    <2>1. CASE t \in finishedTops
      <3>1. OpenUnder(t) = {} /\ Taken(t)
        BY <2>1 DEF Subtrees, FinishedStaysClosed, TopsInv
      <3>2. ASSUME NEW c \in new, Top[c] = t
            PROVE  FALSE
        <4>1. c \in Children(d) /\ c \in Dirs /\ Waiting(c)
          BY <1>1, <1>2, <3>2 DEF Waiting
        <4>2. c \in Dirs \ {Root}
          BY <4>1 DEF Children
        <4>3. CASE d = Root
          BY <3>1, <3>2, <4>1, <4>2, <4>3, SameTop DEF Subtrees, TopsInv
        <4>4. CASE d # Root
          <5>1. Top[d] = t
            BY <3>2, <4>1, <4>4, SameTop
          <5> QED
            BY <1>1, <3>1, <5>1 DEF OpenUnder
        <4> QED
          BY <4>3, <4>4
      <3> QED
        BY <1>1, <3>1, <3>2 DEF OpenUnder
    <2>2. CASE t \notin finishedTops
      <3>1. Finishes(d, outstanding') /\ t = Top[d]
        BY <1>3, <1>8, <2>2
      <3>2. t \in Tops /\ outstanding'[t] = 0
        BY <3>1, TopLemma DEF Finishes
      <3>3. Cardinality(OpenUnder(t)') = 0
        BY <3>2 DEF Placement, CountersExact
      <3>4. Open' \subseteq Dirs
        BY DEF Placement, TypeOK, Open
      <3>5. IsFiniteSet(OpenUnder(t)')
        BY <3>4, TreeAssumption, FS_Subset DEF OpenUnder
      <3> QED
        BY <3>3, <3>5, FS_EmptySet
    <2> QED
      BY <2>1, <2>2
  <1> QED
    BY <1>5, <1>7, <1>8 DEF Subtrees, FinishedStaysClosed

LEMMA SubtreesStep ==
    ASSUME Placement, Placement', Subtrees, [Next]_vars
    PROVE  Subtrees'
  <1> USE DEF cvVars, scanVars
  <1>0. Dirs \subseteq Entries
    BY DEF Entries
  <1>1. ASSUME UNCHANGED <<queue, finishedTops, inflight, held, children, tally>>
        PROVE  Subtrees'
    <2>1. \A x, v : (Known(x)' <=> Known(x)) /\ (Noted(v, x)' <=> Noted(v, x))
      BY <1>1 DEF Known, Charged, CountedBy, Noted
    <2> QED
      BY <1>1, <2>1, SubtreesFrame
  <1>2. CASE RequestStop \/ MainStep \/ UNCHANGED vars
    BY <1>1, <1>2 DEF vars, RequestStop, MainStep, SetDeadline, LeaveJoin, CloseDoor,
       Abandon, Publish
  <1>3. ASSUME NEW w \in Workers, Work(w)
        PROVE  Subtrees'
    <2>1. CASE \/ DecideTake(w) \/ Quit(w) \/ SetupRaises(w) \/ OpenDir(w)
               \/ StoppedAtLimiter(w) \/ Merge(w)
      BY <1>1, <2>1 DEF DecideTake, Quit, SetupRaises, OpenDir, StoppedAtLimiter, Merge
    <2>2. CASE Take(w)
      BY <2>2, SubtreesTake
    <2>3. CASE CannotStat(w) \/ CrossesFs(w) \/ ReadDir(w) \/ ReadFile(w) \/ ReadLink(w)
      <3>1. PICK e \in Entries \ {Root}, o \in Dispositions : Charges(w, e, o)
        BY <2>3, ReadingLemma DEF Placement
      <3> QED
        BY <3>1, SubtreesCharges
    <2>4. CASE ScanStops(w) \/ ScanRaises(w)
      <3>1. \A v \in Workers, x \in Entries : /\ Noted(v, x)' <=> Noted(v, x)
                                              /\ CountedBy(v, x)' <=> CountedBy(v, x)
        BY <2>4, PlacementCut
      <3>2. \A x \in Dirs : Known(x)' <=> Known(x)
        BY <1>0, <3>1 DEF Known, Charged
      <3>3. UNCHANGED <<queue, finishedTops, inflight, held, children>>
        BY <2>4 DEF ScanStops, ScanRaises
      <3> QED
        BY <3>1, <3>2, <3>3, SubtreesFrame
    <2>5. CASE Release(w)
      BY <2>5, SubtreesRelease
    <2> QED
      BY <1>3, <2>1, <2>2, <2>3, <2>4, <2>5 DEF Work, Scan
  <1> QED
    BY <1>2, <1>3 DEF Next, Over

THEOREM SubtreesInvariant == Spec => []Subtrees
  <1>1. Placement /\ Placement' /\ Subtrees /\ [Next]_vars => Subtrees'
    BY SubtreesStep
  <1> QED
    BY SubtreesInit, <1>1, PlacementInvariant, PTL DEF Spec

\* A depth-1 name enters finished_tops only when nothing below it is queued or
\* in hand, and nothing below it is ever queued again.
THEOREM FinishedStaysClosedCorrect == Spec => []FinishedStaysClosed
  <1>1. Subtrees => FinishedStaysClosed
    BY DEF Subtrees
  <1> QED
    BY SubtreesInvariant, <1>1, PTL

-----------------------------------------------------------------------------
(* Nothing is lost: a directory that was found is in hand, or behind.      *)

Cover == CoverInv /\ ScanInv

\* What the layers before give a step to start from.
Ground == Placement /\ Subtrees /\ MainInv

LEMMA CoverInit == Init => Cover
  <1> SUFFICES ASSUME Init PROVE Cover
    OBVIOUS
  <1>1. \A w \in Workers, e \in Entries : ~CountedBy(w, e)
    BY NoTallyLemma DEF Init, CountedBy, Outcomes, Dispositions
  <1> QED
    BY <1>1 DEF Init, Cover, CoverInv, ScanInv, Known, Charged, Entries

\* Nothing leaves a worker's hands, and no worker takes from a new subtree.
LEMMA CoverKept ==
    ASSUME CoverInv, \A d \in Dirs \ {Root} : InHand(d) => InHand(d)',
           \A d \in Dirs \ {Root} : Known(d)' => Known(d) \/ InHand(d)',
           \A e \in Entries : NotedByAny(e) => NotedByAny(e)',
           abandonedTops \subseteq abandonedTops',
           \A t \in Tops \cap Dirs : Taken(t)' => Taken(t) \/ InHand(t)'
    PROVE  CoverInv'
  <1>1. \A d \in Dirs : ReadThrough(d) => ReadThrough(d)'
    BY DEF ReadThrough, Children
  <1> QED
    BY <1>1 DEF CoverInv

LEMMA CoverTake ==
    ASSUME Ground, Cover, NEW w \in Workers, Take(w)
    PROVE  Cover' /\ \A d \in Dirs : InHand(d) => InHand(d)'
  <1>0. PICK d \in queue : /\ queue' = queue \ {d}
                           /\ held' = [held EXCEPT ![w] = {d}]
                           /\ inflight' = [inflight EXCEPT ![w] = @ \cup {Top[d]}]
    BY DEF Take
  <1>1. /\ UNCHANGED <<children, tally, unread, truncated, abandonedTops>>
        /\ held[w] = {} /\ held'[w] = {d} /\ inflight'[w] = inflight[w] \cup {Top[d]}
        /\ \A v \in Workers : v # w => /\ held'[v] = held[v] /\ inflight'[v] = inflight[v]
                                       /\ pc'[v] = pc[v]
        /\ queue' = queue \ {d} /\ d \in Dirs /\ pc'[w] = "setup"
    BY <1>0 DEF Take, Ground, Placement, TypeOK, HeldInv, Busy
  <1>2. Open' = Open /\ d \in Open
    BY <1>1 DEF Open
  <1>3. \A x \in Dirs : InHand(x) => InHand(x)'
    BY <1>1, <1>2 DEF InHand, Waiting
  <1>4. \A t : Taken(t)' <=> Taken(t) \/ t = Top[d]
    BY <1>1 DEF Taken
  <1>5. \A t \in Tops \cap Dirs : Taken(t)' => Taken(t) \/ InHand(t)'
    <2>1. d \in Tops => Top[d] = d
      BY TreeAssumption DEF Tops
    <2>2. d # Root /\ d \notin Tops => Taken(Top[d])
      BY <1>1 DEF Ground, Subtrees, TopsInv, Waiting
    <2>3. d = Root => Top[d] \notin Tops
      BY TreeAssumption DEF Tops
    <2>4. InHand(d)'
      BY <1>2 DEF InHand
    <2> QED
      BY <1>4, <2>1, <2>2, <2>3, <2>4
  <1>6. \A x : Known(x)' <=> Known(x)
    BY <1>1 DEF Known, Charged, CountedBy
  <1>7. \A x : NotedByAny(x)' <=> NotedByAny(x)
    BY <1>1 DEF NotedByAny, Noted
  <1>8. CoverInv'
    BY <1>1, <1>3, <1>5, <1>6, <1>7, CoverKept DEF Cover
  <1>9. ScanInv'
    BY <1>1, <1>7 DEF Cover, ScanInv
  <1> QED
    BY <1>3, <1>8, <1>9 DEF Cover

LEMMA CoverOpen ==
    ASSUME Ground, Cover, NEW w \in Workers, OpenDir(w) \/ StoppedAtLimiter(w)
    PROVE  Cover' /\ \A d \in Dirs : InHand(d) => InHand(d)'
  <1>0. PICK d \in Dirs : held[w] = {d}
    BY DEF OpenDir, StoppedAtLimiter, Ground, Placement, HeldInv, Busy
  <1>1. /\ UNCHANGED <<queue, held, inflight, children, tally, abandonedTops>>
        /\ \A v \in Workers : v # w => /\ pc'[v] = pc[v]
                                       /\ unread'[v] = unread[v]
                                       /\ truncated'[v] = truncated[v]
        /\ unread'[w] = Children(d) \/ truncated'[w] = TRUE
    BY <1>0 DEF OpenDir, StoppedAtLimiter, Ground, Placement, TypeOK, HeldInv, cvVars
  <1>2. \A x : /\ Known(x)' <=> Known(x)
               /\ NotedByAny(x)' <=> NotedByAny(x)
               /\ InHand(x)' <=> InHand(x)
               /\ Taken(x)' <=> Taken(x)
    BY <1>1 DEF Known, Charged, CountedBy, NotedByAny, Noted, InHand, Open, Waiting, Taken
  <1>3. CoverInv'
    BY <1>1, <1>2, CoverKept DEF Cover
  <1>4. ScanInv'
    BY <1>0, <1>1, <1>2 DEF Cover, ScanInv
  <1> QED
    BY <1>2, <1>3, <1>4 DEF Cover

LEMMA CoverCharges ==
    ASSUME Ground, Cover, NEW w \in Workers, NEW e \in Entries \ {Root},
           NEW o \in Dispositions, Charges(w, e, o)
    PROVE  /\ Cover' /\ \A d \in Dirs : InHand(d) => InHand(d)'
           /\ \A d \in Dirs : Known(d)' => Known(d) \/ InHand(d)'
           /\ \A x \in Entries : NotedByAny(x) => NotedByAny(x)'
  <1>1. UNCHANGED <<queue, held, inflight, truncated, pc, abandonedTops>>
    BY DEF Charges, Account, cvVars
  <1>2. /\ unread'[w] = unread[w] \ {e}
        /\ children'[w] = IF o = "counted" /\ e \in Dirs
                            THEN children[w] \cup {e} ELSE children[w]
        /\ \A v \in Workers : v # w => /\ children'[v] = children[v]
                                       /\ unread'[v] = unread[v]
    BY ChargesEffect DEF Ground, Placement
  <1>3. \A v \in Workers, x \in Entries :
           /\ Noted(v, x)' <=> Noted(v, x) \/ (v = w /\ x = e)
           /\ CountedBy(v, x)' <=> \/ CountedBy(v, x)
                                   \/ v = w /\ x = e /\ o = "counted"
    BY NotedAfterCharge DEF Ground, Placement
  <1>4. \A x \in Entries : NotedByAny(x)' <=> NotedByAny(x) \/ x = e
    BY <1>3 DEF NotedByAny
  <1>5. \A x \in Dirs : Known(x)' => Known(x) \/ InHand(x)'
    BY <1>2, <1>3 DEF Known, Charged, InHand, Waiting, Entries
  <1>6. \A x : InHand(x) => InHand(x)'
    BY <1>1, <1>2 DEF InHand, Open, Waiting
  <1>7. \A t : Taken(t)' <=> Taken(t)
    BY <1>1 DEF Taken
  <1>8. CoverInv'
    BY <1>1, <1>4, <1>5, <1>6, <1>7, CoverKept DEF Cover
  <1>9. ScanInv'
    <2>1. \A d : Children(d) \subseteq Entries
      BY DEF Children
    <2> QED
      BY <1>1, <1>2, <1>4, <2>1 DEF Cover, ScanInv
  <1> QED
    BY <1>4, <1>5, <1>6, <1>8, <1>9 DEF Cover

LEMMA CoverCut ==
    ASSUME Ground, Cover, NEW w \in Workers, ScanStops(w) \/ ScanRaises(w)
    PROVE  /\ Cover' /\ \A d \in Dirs : InHand(d)' <=> InHand(d)
           /\ \A d \in Dirs : Known(d)' <=> Known(d)
           /\ \A x \in Entries : NotedByAny(x)' <=> NotedByAny(x)
  <1>1. /\ UNCHANGED <<queue, held, inflight, children, pc, abandonedTops>>
        /\ \A v \in Workers : v # w => /\ unread'[v] = unread[v]
                                       /\ truncated'[v] = truncated[v]
        /\ truncated'[w] = TRUE
    BY DEF ScanStops, ScanRaises, Ground, Placement, TypeOK, cvVars
  <1>2. \A v \in Workers, x \in Entries : /\ Noted(v, x)' <=> Noted(v, x)
                                          /\ CountedBy(v, x)' <=> CountedBy(v, x)
    BY PlacementCut DEF Ground
  <1>3. \A x \in Entries : /\ NotedByAny(x)' <=> NotedByAny(x)
                           /\ Known(x)' <=> Known(x)
    BY <1>2 DEF NotedByAny, Known, Charged
  <1>4. \A x : (InHand(x)' <=> InHand(x)) /\ (Taken(x)' <=> Taken(x))
    BY <1>1 DEF InHand, Open, Waiting, Taken
  <1>5. Dirs \subseteq Entries /\ \A d : Children(d) \subseteq Entries
    BY DEF Entries, Children
  <1>6. CoverInv'
    BY <1>1, <1>3, <1>4, <1>5, CoverKept DEF Cover
  <1>7. ScanInv'
    BY <1>1, <1>3, <1>5 DEF Cover, ScanInv
  <1> QED
    BY <1>3, <1>4, <1>5, <1>6, <1>7 DEF Cover

\* A released directory was read through or is behind an abandoned name, and so
\* are the children a stopped walk drops, unless they were never taken.
LEMMA CoverRelease ==
    ASSUME Ground, Cover, NEW w \in Workers, Release(w)
    PROVE  /\ Cover'
           /\ \A x : (Known(x)' <=> Known(x)) /\ (NotedByAny(x)' <=> NotedByAny(x))
           /\ \A x \in Dirs : ~stop /\ InHand(x) => InHand(x)' \/ x \in held[w]
           /\ ~truncated[w] => \A d \in held[w] : ReadThrough(d)
  <1>0. PICK d \in Dirs : held[w] = {d}
    BY DEF Release, Ground, Placement, HeldInv, Busy
  <1>1. /\ Open' = (Open \ {d}) \cup Enqueued(w)
        /\ held'[w] = {} /\ children'[w] = {} /\ pc'[w] = "idle"
        /\ \A v \in Workers : v # w => /\ held'[v] = held[v]
                                       /\ children'[v] = children[v]
                                       /\ pc'[v] = pc[v]
                                       /\ truncated'[v] = truncated[v]
        /\ queue' = queue \cup Enqueued(w)
        /\ inflight' = inflight /\ tally' = tally /\ unread' = unread
    BY <1>0, OpenAfterRelease DEF Ground
  <1>2. /\ pc[w] = "scan" /\ unread[w] = {}
        /\ abandonedTops' = abandonedTops \cup
              IF CutShort(w) /\ d # Root THEN {Top[d]} ELSE {}
    BY <1>0 DEF Release
  <1>3. \A x : /\ Known(x)' <=> Known(x)
               /\ NotedByAny(x)' <=> NotedByAny(x)
               /\ Taken(x)' <=> Taken(x)
    BY <1>1 DEF Known, Charged, CountedBy, NotedByAny, Noted, Taken
  <1>4. ~truncated[w] => ReadThrough(d)
    BY <1>0, <1>2 DEF Cover, ScanInv, ReadThrough
  <1>5. children[w] \subseteq Children(d)
    BY <1>0 DEF Ground, Placement, HeldInv
  <1>6. \A x : InHand(x) => InHand(x)' \/ x = d \/ (stop /\ x \in children[w])
    BY <1>0, <1>1 DEF InHand, Waiting, Open, Enqueued
  <1>7. \A x \in Dirs : ReadThrough(x) <=> ReadThrough(x)'
    BY <1>3 DEF ReadThrough, Children
  <1>8. CoverInv'
    <2> SUFFICES ASSUME NEW x \in Dirs \ {Root}, Known(x)', ~InHand(x)'
                 PROVE  \/ ReadThrough(x)'
                        \/ Top[x] \in abandonedTops'
                        \/ x \in Tops /\ ~Taken(x)'
      BY DEF CoverInv
    <2>1. CASE ~InHand(x)
      BY <1>2, <1>3, <1>7, <2>1 DEF Cover, CoverInv
    <2>2. CASE x = d
      <3>1. truncated[w] => Top[x] \in abandonedTops'
        BY <1>2, <2>2 DEF CutShort
      <3> QED
        BY <1>4, <1>7, <2>2, <3>1
    <2>3. CASE stop /\ x \in children[w]
      <3>1. CutShort(w) /\ x \in Children(d) /\ Waiting(x)
        BY <1>5, <2>3 DEF CutShort, Waiting
      <3>2. CASE d = Root
        <4>1. x \in Tops
          BY <3>1, <3>2, SameTop
        <4> QED
          BY <1>3, <3>1, <4>1 DEF Ground, Subtrees, TopsInv
      <3>3. CASE d # Root
        <4>1. Top[x] = Top[d]
          BY <3>1, <3>3, SameTop
        <4> QED
          BY <1>2, <3>1, <3>3, <4>1
      <3> QED
        BY <3>2, <3>3
    <2> QED
      BY <1>6, <2>1, <2>2, <2>3
  <1>9. ScanInv'
    BY <1>1, <1>3 DEF Cover, ScanInv
  <1> QED
    BY <1>0, <1>3, <1>4, <1>6, <1>8, <1>9 DEF Cover

LEMMA CoverStep ==
    ASSUME Ground, Cover, [Next]_vars
    PROVE  Cover'
  <1>1. ASSUME UNCHANGED <<queue, held, inflight, children, tally, unread, truncated>>,
               abandonedTops \subseteq abandonedTops',
               \A v \in Workers : pc'[v] = "scan" => pc[v] = "scan"
        PROVE  Cover'
    <2>1. \A x : /\ Known(x)' <=> Known(x)
                 /\ NotedByAny(x)' <=> NotedByAny(x)
                 /\ InHand(x)' <=> InHand(x)
                 /\ Taken(x)' <=> Taken(x)
      BY <1>1 DEF Known, Charged, CountedBy, NotedByAny, Noted, InHand, Open, Waiting, Taken
    <2>2. CoverInv'
      BY <1>1, <2>1, CoverKept DEF Cover
    <2>3. ScanInv'
      BY <1>1, <2>1 DEF Cover, ScanInv
    <2> QED
      BY <2>2, <2>3 DEF Cover
  <1>2. CASE RequestStop \/ MainStep \/ UNCHANGED vars
    BY <1>1, <1>2 DEF vars, cvVars, scanVars, RequestStop, MainStep, SetDeadline,
       LeaveJoin, CloseDoor, Abandon, Publish
  <1>3. ASSUME NEW w \in Workers, Work(w)
        PROVE  Cover'
    <2>1. CASE DecideTake(w) \/ Quit(w) \/ SetupRaises(w) \/ Merge(w)
      <3>1. \A v \in Workers : pc'[v] = "scan" => pc[v] = "scan"
        BY <2>1 DEF DecideTake, Quit, SetupRaises, Merge, Ground, Placement, TypeOK
      <3>2. UNCHANGED <<queue, held, inflight, children, tally, unread, truncated,
                        abandonedTops>>
        BY <2>1 DEF DecideTake, Quit, SetupRaises, Merge, cvVars, scanVars
      <3> QED
        BY <1>1, <3>1, <3>2
    <2>2. CASE Take(w)
      BY <2>2, CoverTake
    <2>3. CASE OpenDir(w) \/ StoppedAtLimiter(w)
      BY <2>3, CoverOpen
    <2>4. CASE CannotStat(w) \/ CrossesFs(w) \/ ReadDir(w) \/ ReadFile(w) \/ ReadLink(w)
      <3>1. PICK e \in Entries \ {Root}, o \in Dispositions : Charges(w, e, o)
        BY <2>4, ReadingLemma DEF Ground, Placement
      <3> QED
        BY <3>1, CoverCharges
    <2>5. CASE ScanStops(w) \/ ScanRaises(w)
      BY <2>5, CoverCut
    <2>6. CASE Release(w)
      BY <2>6, CoverRelease
    <2> QED
      BY <1>3, <2>1, <2>2, <2>3, <2>4, <2>5, <2>6 DEF Work, Scan
  <1> QED
    BY <1>2, <1>3 DEF Next, Over

-----------------------------------------------------------------------------
(* A walk nobody stopped.                                                  *)

\* UnstoppedInv, without its premise.
Exhaustive ==
    /\ \A w \in Workers : truncated[w] => \A d \in held[w] : FailedScan(d)
    /\ \A d \in Dirs : Known(d) => InHand(d) \/ ReadThrough(d) \/ FailedScan(d)
    /\ \A w \in Workers : pc[w] \in {"merge", "exited"} => Open = {}

LEMMA UnstoppedInit == Init => UnstoppedInv
  <1> SUFFICES ASSUME Init PROVE UnstoppedInv
    OBVIOUS
  <1>1. \A w \in Workers, e \in Entries : ~CountedBy(w, e)
    BY NoTallyLemma DEF Init, CountedBy, Outcomes, Dispositions
  <1>2. \A d \in Dirs : Known(d) => d \in queue
    BY <1>1 DEF Init, Known, Charged, Entries
  <1> QED
    BY <1>2 DEF Init, UnstoppedInv, InHand, Waiting

\* Failures and notes stay on record.
LEMMA ExhaustiveKept ==
    ASSUME Exhaustive,
           \A d \in Dirs : InHand(d) => InHand(d)' \/ ReadThrough(d)' \/ FailedScan(d)',
           \A d \in Dirs : Known(d)' => Known(d) \/ InHand(d)',
           \A e \in Entries : NotedByAny(e) => NotedByAny(e)',
           \A d \in Dirs : FailedScan(d) => FailedScan(d)',
           \A w \in Workers : truncated'[w] => \A d \in held'[w] : FailedScan(d)',
           \A w \in Workers : pc'[w] \in {"merge", "exited"} => Open' = {}
    PROVE  Exhaustive'
  <1>1. \A d \in Dirs : ReadThrough(d) => ReadThrough(d)'
    BY DEF ReadThrough, Children
  <1> QED
    BY <1>1 DEF Exhaustive

\* Without a stop, a worker quits only an exhausted tree, and scans are cut
\* short only by an error, which is on record.
LEMMA ExhaustiveWork ==
    ASSUME Ground, Cover, Exhaustive, ~stop, NEW w \in Workers, Work(w)
    PROVE  Exhaustive'
  <1>0. /\ pc \in [Workers -> {"idle", "taking", "setup", "scan", "merge", "exited", "dead"}]
        /\ held \in [Workers -> SUBSET Dirs] /\ tally \in [Workers -> Tallies]
        /\ Dirs \subseteq Entries
    BY DEF Ground, Placement, TypeOK, Entries
  <1>1. ASSUME UNCHANGED <<queue, held, children, tally, truncated>>,
               \A v \in Workers : pc'[v] \in {"merge", "exited"} => Open = {}
        PROVE  Exhaustive'
    <2>1. \A x : /\ Known(x)' <=> Known(x)
                 /\ NotedByAny(x)' <=> NotedByAny(x)
                 /\ InHand(x)' <=> InHand(x)
                 /\ FailedScan(x)' <=> FailedScan(x)
      BY <1>1 DEF Known, Charged, CountedBy, NotedByAny, Noted, InHand, Open, Waiting,
         FailedScan
    <2>2. Open' = Open
      BY <1>1 DEF Open
    <2> QED
      BY <1>0, <1>1, <2>1, <2>2, ExhaustiveKept DEF Exhaustive
  <1>2. CASE DecideTake(w) \/ SetupRaises(w) \/ Merge(w)
    <2>1. \A v \in Workers : pc'[v] \in {"merge", "exited"} => Open = {}
      BY <1>0, <1>2 DEF DecideTake, SetupRaises, Merge, Exhaustive
    <2> QED
      BY <1>1, <1>2, <2>1 DEF DecideTake, SetupRaises, Merge, cvVars, scanVars
  <1>3. CASE Quit(w)
    <2>1. pending = 0 /\ pending = Cardinality(Open)
      BY <1>3 DEF Quit, Exhausted, Ground, Placement, CountersExact
    <2>2. IsFiniteSet(Open)
      <3>1. Open \subseteq Dirs
        BY DEF Ground, Placement, TypeOK, Open
      <3> QED
        BY <3>1, TreeAssumption, FS_Subset
    <2>3. Open = {}
      BY <2>1, <2>2, FS_EmptySet
    <2> QED
      BY <1>1, <1>3, <2>3 DEF Quit, cvVars, scanVars
  <1>4. CASE Take(w)
    <2>1. Open # {} /\ \A v \in Workers : pc[v] \notin {"merge", "exited"}
      BY <1>4 DEF Take, Open, Exhaustive
    <2>2. /\ \A d \in Dirs : InHand(d) => InHand(d)'
      BY <1>4, CoverTake
    <2>3. UNCHANGED <<tally, truncated>>
      BY <1>4 DEF Take
    <2>4. \A x : /\ Known(x)' <=> Known(x)
                 /\ NotedByAny(x)' <=> NotedByAny(x)
                 /\ FailedScan(x)' <=> FailedScan(x)
      BY <2>3 DEF Known, Charged, CountedBy, NotedByAny, Noted, FailedScan
    <2>5. \A v \in Workers : truncated'[v] => \A d \in held'[v] : FailedScan(d)'
      <3>1. pc[w] = "taking" /\ \A v \in Workers : v # w => held'[v] = held[v]
        BY <1>0, <1>4 DEF Take
      <3>2. ~truncated[w]
        BY <3>1 DEF Ground, Placement, HeldInv
      <3> QED
        BY <2>3, <2>4, <3>1, <3>2 DEF Exhaustive
    <2>6. \A v \in Workers : pc'[v] \notin {"merge", "exited"}
      BY <1>0, <1>4, <2>1 DEF Take
    <2> QED
      BY <1>0, <2>2, <2>4, <2>5, <2>6, ExhaustiveKept
  <1>5. CASE OpenDir(w)
    <2>1. \A v \in Workers : pc'[v] \in {"merge", "exited"} => Open = {}
      BY <1>0, <1>5 DEF OpenDir, Exhaustive
    <2> QED
      BY <1>1, <1>5, <2>1 DEF OpenDir, cvVars
  <1>6. CASE CannotStat(w) \/ CrossesFs(w) \/ ReadDir(w) \/ ReadFile(w) \/ ReadLink(w)
    <2>1. PICK e \in Entries \ {Root}, o \in Dispositions : Charges(w, e, o)
      BY <1>6, ReadingLemma DEF Ground, Placement
    <2>2. /\ \A d \in Dirs : InHand(d) => InHand(d)'
          /\ \A d \in Dirs : Known(d)' => Known(d) \/ InHand(d)'
          /\ \A x \in Entries : NotedByAny(x) => NotedByAny(x)'
      BY <2>1, CoverCharges
    <2>3. UNCHANGED <<queue, held, truncated, pc>>
      BY <2>1 DEF Charges, Account, cvVars
    <2>4. \A d \in Dirs : FailedScan(d) => FailedScan(d)'
      <3> SUFFICES ASSUME NEW d \in Dirs, NEW v \in Workers,
                          Figure(tally[v], "unreadable", d) > 0
                   PROVE  Figure(tally'[v], "unreadable", d) > 0
        BY DEF FailedScan
      <3>1. /\ "unreadable" \in Outcomes /\ "unreadable" # o /\ d \in Entries
        BY <1>0 DEF Outcomes, Dispositions
      <3>2. Figure(tally'[v], "unreadable", d) =
               IF v = w /\ d = e /\ "unreadable" = o
                 THEN Figure(tally[v], "unreadable", d) + 1
                 ELSE Figure(tally[v], "unreadable", d)
        BY <2>1, <3>1, FiguresAfterCharge DEF Ground, Placement
      <3> QED
        BY <3>1, <3>2
    <2>5. Open' = Open
      BY <2>3 DEF Open
    <2> QED
      BY <1>0, <2>2, <2>3, <2>4, <2>5, ExhaustiveKept DEF Exhaustive
  <1>7. CASE ScanRaises(w)
    <2>1. /\ \A d \in Dirs : InHand(d)' <=> InHand(d)
          /\ \A d \in Dirs : Known(d)' <=> Known(d)
          /\ \A x \in Entries : NotedByAny(x)' <=> NotedByAny(x)
      BY <1>7, CoverCut
    <2>2. UNCHANGED <<queue, held, pc>>
      BY <1>7 DEF ScanRaises, cvVars
    <2>3. PICK d \in held[w] :
             tally' = [tally EXCEPT ![w] = Charge(@, "unreadable", d)]
      BY <1>7 DEF ScanRaises
    <2>4. held[w] = {d}
      BY <1>0, <1>7, <2>3 DEF ScanRaises, Ground, Placement, HeldInv, Busy
    <2>5. FailedScan(d)'
      <3>1. d \in Entries /\ tally[w] \in Tallies
        BY <1>0, <2>3
      <3>2. Figure(Charge(tally[w], "unreadable", d), "unreadable", d) > 0
        BY <3>1, UnreadableLemma
      <3>3. tally'[w] = Charge(tally[w], "unreadable", d)
        BY <1>0, <2>3
      <3> QED
        BY <3>2, <3>3 DEF FailedScan
    <2>6. \A x \in Dirs : FailedScan(x) => FailedScan(x)'
      <3> SUFFICES ASSUME NEW x \in Dirs, NEW v \in Workers,
                          Figure(tally[v], "unreadable", x) > 0
                   PROVE  Figure(tally'[v], "unreadable", x) > 0
        BY DEF FailedScan
      <3>1. Figure(tally'[v], "unreadable", x) >= Figure(tally[v], "unreadable", x)
        BY <1>0, <1>7, PlacementCut DEF Ground
      <3>2. /\ Figure(tally[v], "unreadable", x) \in Nat
            /\ Figure(tally'[v], "unreadable", x) \in Nat
        <4>1. tally'[v] \in Tallies /\ tally[v] \in Tallies
          BY <1>0, <1>7, PlacementCut DEF Ground
        <4> QED
          BY <1>0, <4>1, TallyLemma DEF Outcomes
      <3> QED
        BY <3>1, <3>2
    <2>7. \A v \in Workers : truncated'[v] => \A x \in held'[v] : FailedScan(x)'
      <3>1. \A v \in Workers : v # w => truncated'[v] = truncated[v]
        BY <1>7 DEF ScanRaises, Ground, Placement, TypeOK
      <3> QED
        BY <1>0, <2>2, <2>4, <2>5, <2>6, <3>1 DEF Exhaustive
    <2>8. Open' = Open
      BY <2>2 DEF Open
    <2> QED
      BY <1>0, <2>1, <2>2, <2>6, <2>7, <2>8, ExhaustiveKept DEF Exhaustive
  <1>8. CASE Release(w)
    <2>0. PICK d \in Dirs : held[w] = {d}
      BY <1>8 DEF Release, Ground, Placement, HeldInv, Busy
    <2>1. /\ held'[w] = {} /\ pc'[w] = "idle" /\ tally' = tally /\ d \in Open
          /\ \A v \in Workers : v # w => /\ held'[v] = held[v] /\ pc'[v] = pc[v]
                                         /\ truncated'[v] = truncated[v]
      BY <1>8, <2>0, OpenAfterRelease DEF Ground
    <2>2. /\ \A x : (Known(x)' <=> Known(x)) /\ (NotedByAny(x)' <=> NotedByAny(x))
          /\ \A x \in Dirs : ~stop /\ InHand(x) => InHand(x)' \/ x \in held[w]
          /\ ~truncated[w] => \A c \in held[w] : ReadThrough(c)
      BY <1>8, CoverRelease
    <2>3. \A x : FailedScan(x)' <=> FailedScan(x)
      BY <2>1 DEF FailedScan
    <2>4. ReadThrough(d)' \/ FailedScan(d)'
      <3>1. ReadThrough(d) => ReadThrough(d)'
        BY <2>2 DEF ReadThrough
      <3> QED
        BY <2>0, <2>2, <2>3, <3>1 DEF Exhaustive
    <2>5. \A v \in Workers : pc'[v] \notin {"merge", "exited"}
      BY <2>1 DEF Exhaustive
    <2>6. \A v \in Workers : truncated'[v] => \A x \in held'[v] : FailedScan(x)'
      BY <2>1, <2>3 DEF Exhaustive
    <2> QED
      BY <2>0, <2>2, <2>3, <2>4, <2>5, <2>6, ExhaustiveKept
  <1>9. ~StoppedAtLimiter(w) /\ ~ScanStops(w)
    BY DEF StoppedAtLimiter, ScanStops
  <1> QED
    BY <1>2, <1>3, <1>4, <1>5, <1>6, <1>7, <1>8, <1>9 DEF Work, Scan

LEMMA UnstoppedStep ==
    ASSUME Ground, Cover, UnstoppedInv, [Next]_vars
    PROVE  UnstoppedInv'
  <1> SUFFICES ASSUME ~Stopped'
               PROVE  Exhaustive'
    BY DEF UnstoppedInv, Exhaustive
  <1>1. CASE RequestStop \/ MainStep \/ UNCHANGED vars
    <2>1. ~Stopped
      BY <1>1 DEF vars, mainVars, Stopped, RequestStop, MainStep, SetDeadline,
         LeaveJoin, WasStopped, CloseDoor, Abandon, Publish
    <2>2. UNCHANGED <<queue, held, children, tally, truncated, pc>>
      BY <1>1 DEF vars, cvVars, scanVars, RequestStop, MainStep, SetDeadline,
         LeaveJoin, CloseDoor, Abandon, Publish
    <2>3. \A x : /\ Known(x)' <=> Known(x)
                 /\ NotedByAny(x)' <=> NotedByAny(x)
                 /\ InHand(x)' <=> InHand(x)
                 /\ FailedScan(x)' <=> FailedScan(x)
      BY <2>2 DEF Known, Charged, CountedBy, NotedByAny, Noted, InHand, Open, Waiting,
         FailedScan
    <2>4. Open' = Open
      BY <2>2 DEF Open
    <2>5. Exhaustive
      BY <2>1 DEF UnstoppedInv, Exhaustive
    <2>6. \A w \in Workers : held[w] \subseteq Dirs
      BY DEF Ground, Placement, TypeOK
    <2> QED
      BY <2>2, <2>3, <2>4, <2>5, <2>6, ExhaustiveKept DEF Exhaustive
  <1>2. ASSUME NEW w \in Workers, Work(w)
        PROVE  Exhaustive'
    <2>1. UNCHANGED <<stop, mainVars>> /\ ~Gone(w)
      BY <1>2, WorkerFrame DEF Ground, Placement
    <2>2. main = "join" /\ ~stop /\ ~Stopped
      BY <2>1 DEF mainVars, Stopped, Ground, MainInv
    <2>3. Exhaustive
      BY <2>2 DEF UnstoppedInv, Exhaustive
    <2> QED
      BY <1>2, <2>2, <2>3, ExhaustiveWork
  <1> QED
    BY <1>1, <1>2 DEF Next, Over

THEOREM CoverInvariant == Spec => [](Ground /\ Cover /\ UnstoppedInv)
  <1>1. Placement /\ Subtrees /\ MainInv => Ground
    BY DEF Ground
  <1>2. Ground /\ Cover /\ UnstoppedInv /\ [Next]_vars => Cover' /\ UnstoppedInv'
    BY CoverStep, UnstoppedStep
  <1> QED
    BY CoverInit, UnstoppedInit, <1>1, <1>2, PlacementInvariant, SubtreesInvariant,
       MainInvariant, PTL DEF Spec

\* No worker leaves a walk that was not stopped while any directory is queued
\* or in another worker's hands, however many workers find the queue empty.
THEOREM QuitsWhenExhaustedCorrect == Spec => []QuitsWhenExhausted
  <1>1. Ground /\ UnstoppedInv => QuitsWhenExhausted
    <2> SUFFICES ASSUME Ground, UnstoppedInv, ~stop
                 PROVE  \A w \in Workers : pc[w] \in {"merge", "exited"} => Open = {}
      BY DEF QuitsWhenExhausted
    <2>1. ~Stopped
      BY DEF Stopped, Ground, MainInv
    <2> QED
      BY <2>1 DEF UnstoppedInv
  <1> QED
    BY <1>1, CoverInvariant, PTL

-----------------------------------------------------------------------------
(***************************************************************************)
(* What a walk publishes: every depth-1 name it calls finished is exact,   *)
(* a result that calls itself complete is the whole tree, and so the       *)
(* threads of Walk implement WalkContract: the initial states map to its   *)
(* initial states, every step to one of its steps or to a stutter.         *)
(***************************************************************************)

-----------------------------------------------------------------------------
(* From what workers noted to what the result holds.                       *)

\* What a merged worker noted is in the result, once.
LEMMA MergedNotes ==
    ASSUME Placement, ResultInv, NEW w \in Workers, merged[w],
           NEW e \in Entries, Noted(w, e)
    PROVE  /\ Accounts(res, e) = 1
           /\ CountedBy(w, e) => Figure(res, "counted", e) = 1
  <1>1. {"counted", "extra", "unstat", "crossed"} \subseteq Dispositions
    BY DEF Dispositions
  <1>2. \A o \in Dispositions : Figure(res, o, e) = Figure(tally[w], o, e)
    BY DEF ResultInv
  <1>3. Accounts(res, e) = Accounts(tally[w], e)
    BY <1>1, <1>2, AccountsLemma
  <1>4. /\ Accounts(res, e) \in Nat
        /\ Figure(res, "counted", e) \in Nat
        /\ Figure(res, "counted", e) <= Accounts(res, e)
    BY <1>1, TallyLemma DEF Placement, TypeOK, Outcomes
  <1>5. Accounts(tally[w], e) > 0 /\ Accounts(tally[w], e) <= 1
    BY DEF Noted, Placement, NotesInv
  <1>6. Accounts(res, e) = 1
    BY <1>3, <1>4, <1>5
  <1> QED
    BY <1>1, <1>2, <1>4, <1>6 DEF CountedBy

\* What no merged worker noted is not in the result.
LEMMA UnmergedNotes ==
    ASSUME Placement, ResultInv, NEW e \in Entries \ {Root},
           \A w \in Workers : merged[w] => ~Noted(w, e)
    PROVE  Accounts(res, e) = 0 /\ \A o \in Dispositions : Figure(res, o, e) = 0
  <1>1. \A o \in Dispositions : Figure(res, o, e) = 0
    BY DEF ResultInv
  <1> QED
    BY <1>1, AccountsLemma DEF Dispositions

\* An entry is whole in the result when merged workers noted it and charged
\* for its directory, or when nobody found its directory.
LEMMA WholeFromNotes ==
    ASSUME Placement, ResultInv, NEW e \in Entries \ {Root},
           Known(Parent[e]) =>
              /\ \E v \in Workers : merged[v] /\ Noted(v, e)
              /\ Parent[e] = Root \/ \E u \in Workers : merged[u] /\ CountedBy(u, Parent[e])
    PROVE  Whole(e)
  <1>0. Parent[e] \in Dirs /\ Parent[e] \in Entries
    BY TreeAssumption DEF Entries
  <1>1. CASE Known(Parent[e])
    <2>1. Accounts(res, e) = 1
      BY <1>1, MergedNotes
    <2>2. Figure(res, "counted", Parent[e]) = 1
      BY <1>0, <1>1, MergedNotes, CountedIsNoted DEF ResultInv, Placement
    <2> QED
      BY <2>1, <2>2 DEF Whole, Figure
  <1>2. CASE ~Known(Parent[e])
    <2>1. \A w \in Workers : ~Noted(w, e)
      BY <1>2 DEF Placement, NotesInv, NotedByAny
    <2>2. Accounts(res, e) = 0
      BY <2>1, UnmergedNotes
    <2>3. ~(Figure(res, "counted", Parent[e]) > 0)
      BY <1>0, <1>2, ResultOrigin DEF Known
    <2>4. Figure(res, "counted", Parent[e]) \in Nat
      BY <1>0, TallyLemma DEF Placement, TypeOK, Outcomes, Dispositions
    <2> QED
      BY <2>2, <2>3, <2>4 DEF Whole, Figure
  <1> QED
    BY <1>1, <1>2

-----------------------------------------------------------------------------
(* The moment of publication.                                              *)

\* Once the stranded workers' subtrees are abandoned, the others' notes are
\* all in the result: of the root's own scan too, if Root is not abandoned.
LEMMA ReachedTheDoor ==
    ASSUME MainInv, main = "publish", NEW t, t \notin abandonedTops,
           NEW w \in Workers, t \in inflight[w]
    PROVE  merged[w]
  BY DEF MainInv

\* A finished and never abandoned subtree was read to the end by workers that
\* merged.
LEMMA FinishedExact ==
    ASSUME Ground, Cover, ResultInv, main = "publish", Root \notin abandonedTops,
           NEW t \in finishedTops \ abandonedTops
    PROVE  /\ Figure(res, "counted", t) = 1
           /\ \A e \in Entries : Top[e] = t => Whole(e)
  <1>0. Placement /\ Subtrees /\ MainInv /\ TypeOK
    BY DEF Ground, Placement
  <1>1. /\ t \in Tops /\ t # Root /\ t \in Entries \ {Root}
        /\ Parent[t] = Root /\ Top[t] = t
    BY <1>0, TreeAssumption DEF TypeOK, Tops
  <1>2. Taken(t)
    BY <1>0 DEF Subtrees, TopsInv
  <1>3. Known(t) /\ Charged(t)
    BY <1>0, <1>1, <1>2 DEF Taken, Subtrees, InflightInv, Known
  <1>4. \A v \in Workers : t \in inflight[v] \/ Root \in inflight[v] => merged[v]
    BY <1>0, ReachedTheDoor
  <1>5. \A v \in Workers, e \in Entries \ {Root} : Noted(v, e) =>
           Top[Parent[e]] \in inflight[v]
    BY <1>0 DEF Subtrees, InflightInv
  <1>6. ASSUME NEW e \in Entries \ {Root}, Top[e] = t, NEW v \in Workers, Noted(v, e)
        PROVE  merged[v]
    <2>1. Parent[e] = Root => Top[Parent[e]] = Root
      BY TreeAssumption
    <2>2. Parent[e] # Root => Top[Parent[e]] = t
      BY <1>6, TreeAssumption
    <2> QED
      BY <1>4, <1>5, <1>6, <2>1, <2>2
  <1>7. PICK u \in Workers : CountedBy(u, t)
    BY <1>3 DEF Charged
  <1>8. Noted(u, t) /\ merged[u]
    BY <1>0, <1>1, <1>6, <1>7, CountedIsNoted
  <1>9. ASSUME NEW d \in Dirs \ {Root}, Top[d] = t, Known(d)
        PROVE  ReadThrough(d)
    <2>0. /\ d \in Entries \ {Root}
          /\ d \in Tops => d = t
          /\ d \notin Tops => Parent[d] # Root /\ Top[Parent[d]] = t
      BY <1>9, TreeAssumption, TopLemma DEF Tops
    <2>1. OpenUnder(t) = {}
      BY <1>0 DEF Subtrees, FinishedStaysClosed
    <2>2. d \notin Open
      BY <1>9, <2>1 DEF OpenUnder
    <2>3. ASSUME NEW w \in Workers, d \in children[w]
          PROVE  FALSE
      <3>1. d \notin Tops
        BY <1>0, <1>2, <2>0, <2>3 DEF Subtrees, TopsInv, Waiting
      <3>2. PICK p \in Dirs : held[w] = {p}
        BY <1>0, <2>3 DEF Placement, HeldInv, Busy
      <3>3. d \in Children(p)
        BY <1>0, <2>3, <3>2 DEF Placement, HeldInv
      <3>4. Parent[d] = p /\ p \in Open
        BY <3>2, <3>3 DEF Children, Open
      <3> QED
        BY <2>0, <2>1, <3>1, <3>4 DEF OpenUnder
    <2>4. ~InHand(d)
      BY <2>2, <2>3 DEF InHand, Waiting, Open
    <2>5. ~(d \in Tops /\ ~Taken(d))
      BY <1>2, <2>0
    <2> QED
      BY <1>9, <2>4, <2>5 DEF Cover, CoverInv
  <1>10. ASSUME NEW e \in Entries, Top[e] = t
         PROVE  Whole(e)
    <2>1. e \in Entries \ {Root}
      BY <1>1, <1>10, TreeAssumption
    <2>2. CASE Parent[e] = Root
      <3>1. e = t
        BY <1>10, <2>1, <2>2, TreeAssumption
      <3> QED
        BY <1>0, <1>8, <2>1, <2>2, <3>1, WholeFromNotes
    <2>3. CASE Parent[e] # Root
      <3>1. /\ Parent[e] \in Dirs \ {Root} /\ Parent[e] \in Entries \ {Root}
            /\ Top[Parent[e]] = t
        BY <1>10, <2>1, <2>3, TreeAssumption DEF Entries
      <3>2. ASSUME Known(Parent[e])
            PROVE  \E v \in Workers : merged[v] /\ Noted(v, e)
        <4>1. NotedByAny(e)
          BY <1>9, <2>1, <3>1, <3>2 DEF ReadThrough, Children
        <4> QED
          BY <1>6, <1>10, <2>1, <4>1 DEF NotedByAny
      <3>3. ASSUME Known(Parent[e])
            PROVE  \E v \in Workers : merged[v] /\ CountedBy(v, Parent[e])
        BY <1>0, <1>6, <3>1, <3>3, CountedIsNoted DEF Known, Charged
      <3> QED
        BY <1>0, <2>1, <3>2, <3>3, WholeFromNotes
    <2> QED
      BY <2>1, <2>2, <2>3
  <1> QED
    BY <1>0, <1>1, <1>7, <1>8, <1>10, MergedNotes

\* A plain file at depth 1 that is in the result has nothing below it.
LEMMA PlainExact ==
    ASSUME Ground, ResultInv, NEW t \in Files \cap Tops, Figure(res, "counted", t) > 0
    PROVE  /\ Figure(res, "counted", t) = 1
           /\ \A e \in Entries : Top[e] = t => Whole(e)
  <1>0. Placement /\ Subtrees /\ TypeOK
    BY DEF Ground, Placement
  <1>1. /\ t \in Entries \ {Root} /\ Parent[t] = Root /\ t \notin Dirs
    BY TreeAssumption DEF Tops
  <1>2. "counted" \in Dispositions
    BY DEF Dispositions
  <1>3. PICK w \in Workers : merged[w] /\ Noted(w, t)
    BY <1>0, <1>1, <1>2, UnmergedNotes
  <1>4. CountedBy(w, t)
    BY <1>1, <1>2, <1>3 DEF ResultInv, CountedBy
  <1>5. ASSUME NEW e \in Entries, Top[e] = t
        PROVE  Whole(e)
    <2>1. e \in Entries \ {Root}
      BY <1>1, <1>5, TreeAssumption
    <2>2. CASE Parent[e] = Root
      <3>1. e = t
        BY <1>5, <2>1, <2>2, TreeAssumption
      <3> QED
        BY <1>0, <1>3, <2>1, <2>2, <3>1, WholeFromNotes
    <2>3. CASE Parent[e] # Root
      <3>1. /\ Parent[e] \in Dirs \ {Root} /\ Parent[e] \in Entries \ {Root}
            /\ Top[Parent[e]] = t
        BY <1>5, <2>1, <2>3, TreeAssumption DEF Entries
      <3>2. Parent[Parent[e]] # Root /\ Top[Parent[Parent[e]]] = t
        BY <1>1, <3>1, TreeAssumption
      <3>3. ~Known(Parent[e])
        <4>1. ASSUME NEW v \in Workers, CountedBy(v, Parent[e])
              PROVE  FALSE
          <5>1. Noted(v, Parent[e])
            BY <1>0, <3>1, <4>1, CountedIsNoted
          <5>2. t \in inflight[v]
            BY <1>0, <3>1, <3>2, <5>1 DEF Subtrees, InflightInv
          <5> QED
            BY <1>0, <1>1, <5>2 DEF Subtrees, InflightInv
        <4> QED
          BY <3>1, <4>1 DEF Known, Charged
      <3> QED
        BY <1>0, <2>1, <3>3, WholeFromNotes
    <2> QED
      BY <2>1, <2>2, <2>3
  <1> QED
    BY <1>0, <1>1, <1>3, <1>4, <1>5, MergedNotes

-----------------------------------------------------------------------------
(* The theorems.                                                           *)

\* The result and the links it holds, as invariants of every walk.
THEOREM ResultInvariant == Spec => [](ResultInv /\ LinksInv)
  <1>1. Placement /\ ResultInv /\ LinksInv /\ [Next]_vars => (ResultInv /\ LinksInv)'
    BY ResultStep, LinksStep
  <1> QED
    BY ResultInit, LinksInit, <1>1, PlacementInvariant, PTL DEF Spec

LEMMA PublishStep ==
    ASSUME Ground, Cover, ResultInv, FinishedTopsExact, [Next]_vars
    PROVE  FinishedTopsExact'
  <1>0. Placement /\ MainInv /\ TypeOK
    BY DEF Ground, Placement
  <1>1. CASE Publish
    <2>1. main = "publish" /\ res' = res
      BY <1>1 DEF Publish, doorVars
    <2>2. ASSUME NEW t \in published'
          PROVE  /\ Figure(res, "counted", t) = 1
                 /\ \A e \in Entries : Top[e] = t => Whole(e)
      <3>1. /\ Root \notin abandonedTops
            /\ t \in finishedTops \ abandonedTops \/ t \in PlainFiles
        BY <1>1, <2>2 DEF Publish
      <3>2. CASE t \in finishedTops \ abandonedTops
        BY <2>1, <3>1, <3>2, FinishedExact
      <3>3. CASE t \in PlainFiles
        BY <3>3, <1>0, PlainExact DEF PlainFiles, Figure
      <3> QED
        BY <3>1, <3>2, <3>3
    <2> QED
      BY <2>1, <2>2 DEF FinishedTopsExact, Whole, Accounts, Figure
  <1>2. CASE published' = published
    <2>1. CASE main # "published"
      BY <1>0, <1>2, <2>1 DEF FinishedTopsExact, MainInv
    <2>2. CASE main = "published"
      <3>1. res' = res
        BY <1>0, <2>2, ExitedFrozen DEF MainInv, DoorOpen
      <3> QED
        BY <1>2, <3>1 DEF FinishedTopsExact, Whole, Accounts
    <2> QED
      BY <2>1, <2>2
  <1>3. Publish \/ published' = published
    <2>1. CASE RequestStop \/ MainStep \/ UNCHANGED vars
      BY <2>1 DEF vars, mainVars, RequestStop, MainStep, SetDeadline, LeaveJoin,
         CloseDoor, Abandon
    <2>2. ASSUME NEW w \in Workers, Work(w)
          PROVE  published' = published
      BY <1>0, <2>2, WorkerFrame DEF mainVars
    <2> QED
      BY <2>1, <2>2 DEF Next, Over
  <1> QED
    BY <1>1, <1>2, <1>3

\* Wherever the stop falls, and however late a stranded worker is: an entry
\* published as finished has every entry below it in the result, once.
THEOREM FinishedTopsExactCorrect == Spec => []FinishedTopsExact
  <1>1. Init => FinishedTopsExact
    BY DEF Init, FinishedTopsExact
  <1>2. Ground /\ Cover /\ ResultInv /\ FinishedTopsExact /\ [Next]_vars => FinishedTopsExact'
    BY PublishStep
  <1> QED
    BY <1>1, <1>2, CoverInvariant, ResultInvariant, PTL DEF Spec

\* When every worker merged, nothing failed and nobody stopped the walk, the
\* result is the whole tree, whatever the schedule was.
THEOREM CompleteIsWholeCorrect == Spec => []CompleteIsWhole
  <1>1. Ground /\ Cover /\ UnstoppedInv /\ ResultInv /\ LinksInv => CompleteIsWhole
    <2> SUFFICES ASSUME Ground, UnstoppedInv, ResultInv, LinksInv,
                        main = "published", Complete, stranded = {}
                 PROVE  /\ \A e \in Entries : Whole(e)
                        /\ \A f \in Files : res[<<"extra", f>>] = 1 =>
                              \E g \in Files : /\ Inode[g] = Inode[f]
                                               /\ res[<<"counted", g>>] = 1
      BY DEF CompleteIsWhole
    <2>0. Placement /\ MainInv /\ TypeOK /\ Files \subseteq Entries \ {Root}
      BY TreeAssumption DEF Ground, Placement, Entries
    <2>1. \A w \in Workers : merged[w] /\ pc[w] = "exited"
      BY <2>0 DEF MainInv, ResultInv
    <2>2. ~Stopped
      BY DEF Stopped, Complete
    <2>3. Open = {}
      BY <2>1, <2>2, WorkersAssumption DEF UnstoppedInv
    <2>4. \A d \in Dirs : ~InHand(d)
      BY <2>0, <2>1, <2>3 DEF InHand, Waiting, Open, Placement, HeldInv
    <2>5. ASSUME NEW d \in Dirs
          PROVE  ~FailedScan(d)
      <3>1. d \in Entries /\ "unreadable" \in Outcomes /\ "unstat" \in Outcomes
        BY DEF Entries, Outcomes, Dispositions
      <3>2. /\ Figure(res, "unreadable", d) \in Nat /\ Figure(res, "unstat", d) \in Nat
            /\ Figure(res, "unreadable", d) + Figure(res, "unstat", d) = 0
        BY <2>0, <3>1, TallyLemma DEF TypeOK, Complete, Figure
      <3>3. ASSUME NEW w \in Workers
            PROVE  ~(Figure(tally[w], "unreadable", d) > 0)
        <4>1. Figure(tally[w], "unreadable", d) \in Nat
          BY <2>0, <3>1, TallyLemma DEF TypeOK
        <4>2. Figure(res, "unreadable", d) >= Figure(tally[w], "unreadable", d)
          BY <2>1, <3>1 DEF ResultInv
        <4> QED
          BY <3>2, <4>1, <4>2
      <3> QED
        BY <3>3 DEF FailedScan
    <2>6. \A d \in Dirs : Known(d) => ReadThrough(d)
      BY <2>2, <2>4, <2>5 DEF UnstoppedInv
    <2>7. ASSUME NEW e \in Entries
          PROVE  Whole(e)
      <3>1. CASE e = Root
        BY <3>1 DEF Whole
      <3>2. CASE e \in Entries \ {Root}
        <4>1. Parent[e] \in Dirs /\ e \in Children(Parent[e])
          BY <3>2, TreeAssumption DEF Children
        <4>2. Known(Parent[e]) => \E v \in Workers : merged[v] /\ Noted(v, e)
          BY <2>1, <2>6, <4>1 DEF ReadThrough, NotedByAny
        <4>3. Known(Parent[e]) => Parent[e] = Root
                 \/ \E u \in Workers : merged[u] /\ CountedBy(u, Parent[e])
          BY <2>1 DEF Known, Charged
        <4> QED
          BY <2>0, <3>2, <4>2, <4>3, WholeFromNotes
      <3> QED
        BY <3>1, <3>2
    <2>8. ASSUME NEW f \in Files, res[<<"extra", f>>] = 1
          PROVE  \E g \in Files : Inode[g] = Inode[f] /\ res[<<"counted", g>>] = 1
      <3>1. "extra" \in Dispositions /\ Figure(res, "extra", f) = 1
        BY <2>8 DEF Dispositions, Figure
      <3>2. PICK w \in Workers : merged[w] /\ Noted(w, f)
        BY <2>0, <3>1, UnmergedNotes
      <3>3. Figure(tally[w], "extra", f) > 0
        BY <2>0, <3>1, <3>2 DEF ResultInv
      <3>4. ~CountOnly /\ Inode[f] \in seenLinks
        BY <2>0, <3>3 DEF LinksInv
      <3>5. PICK g \in Files : Inode[g] = Inode[f] /\ Charged(g)
        BY <3>4 DEF LinksInv
      <3>6. Figure(res, "counted", g) = 1
        BY <2>0, <2>1, <3>5, MergedNotes, CountedIsNoted DEF Charged
      <3> QED
        BY <3>5, <3>6 DEF Figure
    <2> QED
      BY <2>7, <2>8
  <1> QED
    BY <1>1, CoverInvariant, ResultInvariant, PTL

-----------------------------------------------------------------------------
(* The contract of the caller.                                             *)

\* What the contract asks of the result, of the answer as it stands.
AnswerKept ==
    main = "published" =>
       /\ Answer \in Contract!Results
       /\ Contract!Sound(Answer)
       /\ Answer.partial => stop

\* The fields of the answer, read through the contract's definitions.
LEMMA AnswerFields ==
    /\ \A e \in Entries : Answer.counted[e] = res[<<"counted", e>>]
    /\ \A e \in Entries : Answer.accounted[e] = Accounts(res, e)
    /\ Answer.finished = published
    /\ Answer.partial = partial
    /\ Answer.complete = (Complete /\ stranded = {})
    /\ \A e \in Entries : Contract!Whole(Answer, e) <=> Whole(e)
  <1>1. /\ \A e \in Entries : Answer.counted[e] = res[<<"counted", e>>]
        /\ \A e \in Entries : Answer.accounted[e] = Accounts(res, e)
    BY DEF Answer
  <1>2. /\ Answer.finished = published /\ Answer.partial = partial
        /\ Answer.complete = (Complete /\ stranded = {})
    BY DEF Answer
  <1>3. ASSUME NEW e \in Entries
        PROVE  Contract!Whole(Answer, e) <=> Whole(e)
    <2>1. e # Root => Parent[e] \in Entries
      BY TreeAssumption DEF Entries
    <2> QED
      BY <1>1, <2>1 DEF Contract!Whole, Whole
  <1> QED
    BY <1>1, <1>2, <1>3

\* A published answer has a result's type and is sound.
LEMMA AnswerSound ==
    ASSUME TypeOK, MainInv, ResultInv, CountedOnce, FinishedTopsExact,
           CompleteIsWhole, main = "published"
    PROVE  Answer \in Contract!Results /\ Contract!Sound(Answer)
  <1>1. ASSUME NEW e \in Entries
        PROVE  res[<<"counted", e>>] \in 0..1 /\ Accounts(res, e) \in 0..1
    <2>1. /\ Figure(res, "counted", e) \in Nat /\ Accounts(res, e) \in Nat
          /\ Figure(res, "counted", e) <= Accounts(res, e)
      BY TallyLemma DEF TypeOK, Outcomes, Dispositions
    <2>2. Accounts(res, e) <= 1
      BY DEF CountedOnce
    <2> QED
      BY <2>1, <2>2 DEF Figure
  <1>2. published \subseteq Tops /\ Tops \subseteq Entries \ {Root}
    BY DEF TypeOK, Tops
  <1>3. partial \in BOOLEAN /\ (Complete /\ stranded = {}) \in BOOLEAN
    BY DEF TypeOK, Complete
  <1>4. Answer \in Contract!Results
    <2>1. [e \in Entries |-> res[<<"counted", e>>]] \in [Entries -> 0..1]
      BY <1>1
    <2>2. [e \in Entries |-> Accounts(res, e)] \in [Entries -> 0..1]
      BY <1>1
    <2> QED
      BY <1>2, <1>3, <2>1, <2>2 DEF Answer, Contract!Results
  <1>5. Answer.counted[Root] = 1
    BY AnswerFields, TreeAssumption DEF ResultInv, Figure, Entries
  <1>6. ASSUME NEW t \in published
        PROVE  Contract!Exact(Answer, t)
    <2>1. t \in Entries /\ res[<<"counted", t>>] = 1
      BY <1>2 DEF FinishedTopsExact
    <2>2. \A e \in Entries : Top[e] = t => Contract!Whole(Answer, e)
      BY AnswerFields DEF FinishedTopsExact
    <2> QED
      BY <2>1, <2>2, AnswerFields DEF Contract!Exact
  <1>7. Answer.complete => \A e \in Entries : Contract!Whole(Answer, e)
    BY AnswerFields DEF CompleteIsWhole
  <1> QED
    BY <1>4, <1>5, <1>6, <1>7, AnswerFields DEF Contract!Sound

\* After publication no thread touches what the answer is made of.
LEMMA AnswerStands ==
    ASSUME TypeOK, MainInv, Next, main = "published"
    PROVE  Answer' = Answer /\ main' = main
  <1>1. UNCHANGED <<res, main, partial, stranded, published>>
    <2>1. CASE RequestStop \/ MainStep \/ UNCHANGED vars
      BY <2>1 DEF vars, doorVars, mainVars, RequestStop, MainStep, SetDeadline,
         LeaveJoin, CloseDoor, Abandon, Publish
    <2>2. ASSUME NEW w \in Workers, Work(w)
          PROVE  UNCHANGED <<res, main, partial, stranded, published>>
      BY <2>2, WorkerFrame DEF mainVars, MainInv
    <2> QED
      BY <2>1, <2>2 DEF Next, Over
  <1> QED
    BY <1>1 DEF Answer, Accounts, Complete

\* Only the caller stops a walk, and only Publish publishes.
LEMMA StepShape ==
    ASSUME TypeOK, Next, main # "published"
    PROVE  \/ RequestStop /\ main' = main
           \/ stop' = stop
  <1>1. CASE RequestStop
    BY <1>1 DEF RequestStop, mainVars
  <1>2. CASE MainStep \/ UNCHANGED vars
    BY <1>2 DEF vars, MainStep, SetDeadline, LeaveJoin, CloseDoor, Abandon, Publish
  <1>3. ASSUME NEW w \in Workers, Work(w)
        PROVE  stop' = stop
    BY <1>3, WorkerFrame
  <1> QED
    BY <1>1, <1>2, <1>3 DEF Next, Over

\* Every step of a walk is a step of the contract or changes nothing it sees.
LEMMA ContractStep ==
    ASSUME TypeOK, MainInv, AnswerKept, AnswerKept', [Next]_vars
    PROVE  [Contract!Next]_(Contract!vars)
  <1> DEFINE Out == IF main = "published" THEN {Answer} ELSE {}
  <1>1. CASE UNCHANGED vars
    <2>1. stop' = stop /\ main' = main /\ Answer' = Answer
      BY <1>1 DEF vars, doorVars, mainVars, Answer, Accounts, Complete
    <2> QED
      BY <2>1 DEF Contract!vars
  <1>2. CASE Next /\ main = "published"
    <2>1. Out' = Out
      BY <1>2, AnswerStands
    <2>2. RequestStop \/ stop' = stop
      BY <1>2, WorkerFrame DEF Next, MainStep, SetDeadline, LeaveJoin, CloseDoor,
         Abandon, Publish, Over, vars
    <2>3. CASE stop' = stop
      BY <2>1, <2>3 DEF Contract!vars
    <2>4. CASE RequestStop
      BY <2>1, <2>4 DEF RequestStop, Contract!Next, Contract!Ask
    <2> QED
      BY <2>2, <2>3, <2>4
  <1>3. CASE Next /\ main # "published" /\ main' # "published"
    <2>1. Out = {} /\ Out' = {}
      BY <1>3
    <2>2. CASE stop' = stop
      BY <2>1, <2>2 DEF Contract!vars
    <2>3. CASE RequestStop
      BY <2>1, <2>3 DEF RequestStop, Contract!Next, Contract!Ask
    <2> QED
      BY <1>3, <2>2, <2>3, StepShape
  <1>4. CASE Next /\ main # "published" /\ main' = "published"
    <2>1. stop' = stop
      BY <1>4, StepShape
    <2>2. Out = {} /\ Out' = {Answer'}
      BY <1>4
    <2>3. /\ Answer' \in Contract!Results
          /\ Contract!Sound(Answer')
          /\ Answer'.partial => stop
      BY <1>4, <2>1 DEF AnswerKept
    <2>4. Contract!Return
      BY <2>1, <2>2, <2>3 DEF Contract!Return
    <2> QED
      BY <2>4 DEF Contract!Next
  <1> QED
    BY <1>1, <1>2, <1>3, <1>4

LEMMA ContractInit == Init => Contract!Init
  BY DEF Init, Contract!Init

\* Whatever the schedule, the stop and the failures, what the caller sees of a
\* walk is what the contract allows.
THEOREM WalkKeepsContract == Spec => KeepsContract
  <1>1. TypeOK /\ MainInv /\ ResultInv /\ CountedOnce /\ FinishedTopsExact
           /\ CompleteIsWhole => AnswerKept
    BY AnswerSound, AnswerFields DEF AnswerKept, MainInv
  <1>2. Spec => [](TypeOK /\ MainInv /\ AnswerKept)
    BY <1>1, TypeCorrect, MainInvariant, ResultInvariant, CountedOnceCorrect,
       FinishedTopsExactCorrect, CompleteIsWholeCorrect, PTL
  <1>3. TypeOK /\ MainInv /\ AnswerKept /\ AnswerKept' /\ [Next]_vars
           => [Contract!Next]_(Contract!vars)
    BY ContractStep
  <1> QED
    BY <1>2, <1>3, ContractInit, PTL DEF Spec, KeepsContract, Contract!Spec
=============================================================================

---------------------------- MODULE LimiterProof ----------------------------
(***************************************************************************)
(* The rate bound of module Limiter and the bound on its sleeps, for every *)
(* number of workers and every rate.                                       *)
(*                                                                         *)
(* What was given out since the mark and what is in the bucket are bounded *)
(* together, by a full bucket and what has accrued up to the last refill;  *)
(* before the first refill after the mark nothing was given out.  A sleep  *)
(* ends by the moment the next token is due, which a refill does not move, *)
(* and no token is given out while somebody sleeps.                        *)
(***************************************************************************)
EXTENDS Limiter, TLAPS

Spent ==
    IF last < mark.time THEN grants = mark.granted
    ELSE (grants - mark.granted) * One + tokens <= Capacity + (last - mark.time) * Rate

IInv ==
    /\ TypeOK
    /\ mark.time <= now /\ mark.granted <= grants
    /\ Spent

\* Parts of tokens are natural numbers, and a bucket holds at least one token.
LEMMA CapacityType == Capacity \in Nat /\ One <= Capacity
BY LimiterAssumption DEF Capacity

\* More ticks accrue no less.
LEMMA AccruesMore ==
    ASSUME NEW a \in Nat, NEW b \in Nat, a <= b
    PROVE  a * Rate \in Nat /\ b * Rate \in Nat /\ a * Rate <= b * Rate
<1>1. Rate \in Nat
  BY LimiterAssumption
<1>2. PICK d \in Nat : b = a + d
  <2>1. b - a \in Nat /\ b = a + (b - a)
    OBVIOUS
  <2> QED
    BY <2>1
<1>3. b * Rate = a * Rate + d * Rate
  BY <1>1, <1>2
<1>4. a * Rate \in Nat /\ d * Rate \in Nat /\ b * Rate \in Nat
  BY <1>1
<1> QED
  BY <1>3, <1>4

\* Accrual adds up over consecutive stretches of time.
LEMMA AccruesOn ==
    ASSUME NEW a \in Nat, NEW b \in Nat, NEW c \in Nat, a <= b, b <= c
    PROVE  /\ (b - a) * Rate + (c - b) * Rate = (c - a) * Rate
           /\ (b - a) * Rate \in Nat /\ (c - b) * Rate \in Nat /\ (c - a) * Rate \in Nat
<1>1. Rate \in Nat
  BY LimiterAssumption
<1>2. b - a \in Nat /\ c - b \in Nat /\ c - a \in Nat
  OBVIOUS
<1>3. (b - a) * Rate + (c - b) * Rate = (c - a) * Rate
  BY <1>1
<1> QED
  BY <1>1, <1>2, <1>3

\* A refill keeps the bucket in its bounds, and the bound on what was spent.
LEMMA RefillSpends ==
    ASSUME IInv
    PROVE  /\ Refilled \in 0..Capacity
           /\ (grants - mark.granted) * One + Refilled
                <= Capacity + (now - mark.time) * Rate
<1> DEFINE gain == (now - last) * Rate
           out == (grants - mark.granted) * One
<1>1. /\ now \in Nat /\ last \in Nat /\ last <= now /\ tokens \in 0..Capacity
      /\ mark.time \in Nat /\ mark.time <= now
      /\ grants \in Nat /\ mark.granted \in Nat /\ mark.granted <= grants
  BY DEF IInv, TypeOK
<1>2. Capacity \in Nat
  BY CapacityType
<1>3. gain \in Nat /\ (now - mark.time) * Rate \in Nat
  <2>1. now - last \in Nat /\ now - mark.time \in Nat
    BY <1>1
  <2> QED
    BY <2>1, AccruesMore
<1>4. out \in Nat
  <2>1. grants - mark.granted \in Nat /\ One \in Nat
    BY <1>1, LimiterAssumption
  <2> QED
    BY <2>1
<1>5. /\ Refilled \in 0..Capacity /\ Refilled <= tokens + gain
  <2>1. Refilled = (IF Capacity < tokens + gain THEN Capacity ELSE tokens + gain)
    BY DEF Refilled, AtMost
  <2> HIDE DEF gain
  <2> QED
    BY <2>1, <1>1, <1>2, <1>3
<1>6. CASE last < mark.time
  <2>1. grants = mark.granted
    BY <1>6 DEF IInv, Spent
  <2>2. out = 0
    BY <2>1, <1>1, LimiterAssumption
  <2> DEFINE due == Capacity + (now - mark.time) * Rate
  <2>3. due \in Nat /\ Capacity <= due
    <3> DEFINE accrued == (now - mark.time) * Rate
    <3>1. accrued \in Nat
      BY <1>3
    <3> HIDE DEF accrued
    <3>2. Capacity + accrued \in Nat /\ Capacity <= Capacity + accrued
      BY <3>1, <1>2
    <3> QED
      BY <3>2 DEF accrued
  <2> HIDE DEF out, due
  <2>4. out + Refilled <= due
    BY <2>2, <2>3, <1>2, <1>5
  <2> QED
    BY <2>4, <1>5 DEF out, due
<1>7. CASE ~(last < mark.time)
  <2>1. out + tokens <= Capacity + (last - mark.time) * Rate
    BY <1>7 DEF IInv, Spent
  <2>2. /\ (last - mark.time) * Rate + gain = (now - mark.time) * Rate
        /\ (last - mark.time) * Rate \in Nat
    <3>1. mark.time <= last
      BY <1>1, <1>7
    <3> QED
      BY <3>1, <1>1, AccruesOn
  <2> DEFINE held == (last - mark.time) * Rate
             accrued == (now - mark.time) * Rate
  <2>3. /\ out + tokens <= Capacity + held /\ held + gain = accrued
        /\ held \in Nat /\ accrued \in Nat
    BY <2>1, <2>2, <1>3
  <2> HIDE DEF out, gain, held, accrued
  <2>4. out + Refilled <= Capacity + accrued
    BY <2>3, <1>1, <1>2, <1>3, <1>4, <1>5
  <2> QED
    BY <2>4, <1>5 DEF out, accrued
<1> QED
  BY <1>6, <1>7

LEMMA InitIInv == Init => IInv
<1> SUFFICES ASSUME Init PROVE IInv
  OBVIOUS
<1>1. Capacity \in Nat
  BY CapacityType
<1>2. TypeOK
  <2>1. wake \in [Workers -> Nat] /\ mark \in [time : Nat, granted : Nat]
    BY DEF Init
  <2>2. tokens \in 0..Capacity
    BY <1>1 DEF Init
  <2>3. now = 0 /\ last = 0 /\ grants = 0 /\ refused = {} /\ stopped = FALSE
    BY DEF Init
  <2>4. refused \subseteq Workers /\ stopped \in BOOLEAN
    BY <2>3
  <2> QED
    BY <2>1, <2>2, <2>3, <2>4 DEF TypeOK
<1>3. mark.time = 0 /\ mark.granted = 0 /\ now = 0 /\ last = 0 /\ grants = 0 /\ tokens = Capacity
  BY DEF Init
<1>4. (grants - mark.granted) * One = 0 /\ (last - mark.time) * Rate = 0
  BY <1>3, LimiterAssumption
<1> QED
  BY <1>1, <1>2, <1>3, <1>4 DEF IInv, Spent

\* A token is taken: what was spent grows by what the bucket loses.
LEMMA GrantKeeps == ASSUME IInv, NEW w \in Workers, Grant(w) PROVE IInv'
<1>1. /\ tokens' = Refilled - One /\ last' = now /\ grants' = grants + 1
      /\ now' = now /\ mark' = mark /\ Refilled >= One
      /\ wake' = wake /\ refused' = refused /\ stopped' = stopped
  BY DEF Grant
<1>2. Refilled \in 0..Capacity
  BY RefillSpends
<1>3. One \in Nat /\ Capacity \in Nat
  BY LimiterAssumption, CapacityType
<1>4. tokens' \in 0..Capacity
  BY <1>1, <1>2, <1>3
<1>5. TypeOK'
  BY <1>1, <1>4 DEF IInv, TypeOK
<1>6. mark.time <= now /\ mark.granted <= grants' /\ grants \in Nat /\ mark.granted \in Nat
      /\ mark.time \in Nat /\ now \in Nat
  BY <1>1 DEF IInv, TypeOK
<1>7. (grants' - mark.granted) * One = (grants - mark.granted) * One + One
  <2>1. \A g, m, o \in Nat : ((g + 1) - m) * o = (g - m) * o + o
    OBVIOUS
  <2> QED
    BY <2>1, <1>1, <1>3, <1>6
<1>8. (grants - mark.granted) * One + Refilled <= Capacity + (now - mark.time) * Rate
  BY RefillSpends
<1>9. (grants' - mark.granted) * One + tokens' <= Capacity + (now - mark.time) * Rate
  <2> DEFINE out == (grants - mark.granted) * One
             due == Capacity + (now - mark.time) * Rate
  <2>1. out \in Int /\ due \in Int
    BY <1>3, <1>6, LimiterAssumption
  <2>2. (grants' - mark.granted) * One = out + One /\ out + Refilled <= due
    BY <1>7, <1>8
  <2> HIDE DEF out, due
  <2>3. (grants' - mark.granted) * One + tokens' <= due
    BY <2>1, <2>2, <1>1, <1>2, <1>3
  <2> QED
    BY <2>3 DEF due
<1>10. Spent'
  BY <1>1, <1>6, <1>9 DEF Spent, Capacity
<1> QED
  BY <1>1, <1>5, <1>6, <1>10 DEF IInv

\* A worker waits: the bucket is refilled, and nothing is given out.
LEMMA WaitKeeps == ASSUME IInv, NEW w \in Workers, Wait(w) PROVE IInv'
<1>1. /\ tokens' = Refilled /\ last' = now /\ grants' = grants
      /\ now' = now /\ mark' = mark /\ refused' = refused /\ stopped' = stopped
      /\ wake' = [wake EXCEPT ![w] = now + AtMost(Deficit(Refilled), Poll)]
      /\ Refilled < One
  BY DEF Wait
<1>2. Refilled \in 0..Capacity
  BY RefillSpends
<1>3. now + AtMost(Deficit(Refilled), Poll) \in Nat
  <2>1. Refilled \in Nat /\ One \in Nat /\ Rate \in Nat \ {0} /\ Poll \in Nat /\ now \in Nat
    BY <1>2, CapacityType, LimiterAssumption DEF IInv, TypeOK
  <2>2. One - Refilled + Rate - 1 \in Nat
    BY <2>1, <1>1
  <2>3. Deficit(Refilled) \in Nat
    BY <2>1, <2>2 DEF Deficit
  <2> QED
    BY <2>1, <2>3 DEF AtMost
<1>4. TypeOK'
  BY <1>1, <1>2, <1>3 DEF IInv, TypeOK, Capacity
<1>5. mark.time <= now /\ mark.granted <= grants /\ now \in Nat /\ mark.time \in Nat
  BY DEF IInv, TypeOK
<1>6. Spent'
  BY <1>1, <1>5, RefillSpends DEF Spent, Capacity
<1> QED
  BY <1>1, <1>4, <1>5, <1>6 DEF IInv

\* The observer starts to count anew.
LEMMA MarkKeeps == ASSUME IInv, Mark PROVE IInv'
<1>1. /\ mark' = [time |-> now, granted |-> grants] /\ tokens' = tokens
      /\ last' = last /\ grants' = grants /\ now' = now
      /\ wake' = wake /\ refused' = refused /\ stopped' = stopped
  BY DEF Mark
<1>2. now \in Nat /\ last \in Nat /\ last <= now /\ grants \in Nat /\ tokens \in 0..Capacity
  BY DEF IInv, TypeOK
<1>3. TypeOK'
  BY <1>1, <1>2 DEF IInv, TypeOK, Capacity
<1>4. mark'.time = now /\ mark'.granted = grants
  BY <1>1
<1>5. Spent'
  <2>1. CASE last < now
    BY <2>1, <1>1, <1>4 DEF Spent
  <2>2. CASE last = now
    <3>1. (grants - grants) * One = 0 /\ (last - now) * Rate = 0
      BY <2>2, <1>2, LimiterAssumption
    <3>2. Capacity \in Nat /\ tokens <= Capacity
      BY <1>2, CapacityType
    <3> QED
      BY <2>2, <3>1, <3>2, <1>1, <1>2, <1>4 DEF Spent, Capacity
  <2> QED
    BY <2>1, <2>2, <1>2
<1> QED
  BY <1>1, <1>2, <1>3, <1>4, <1>5 DEF IInv

\* The other steps leave the bucket and the counts alone.
LEMMA OthersKeep ==
    ASSUME IInv, (\E w \in Workers : Refuse(w)) \/ Stop \/ Tick \/ UNCHANGED vars
    PROVE  IInv'
<1>1. /\ tokens' = tokens /\ last' = last /\ grants' = grants /\ mark' = mark
      /\ wake' = wake
      /\ now' \in Nat /\ now <= now'
      /\ refused' \subseteq Workers /\ stopped' \in BOOLEAN
  <2>1. now \in Nat /\ refused \subseteq Workers /\ stopped \in BOOLEAN
    BY DEF IInv, TypeOK
  <2>2. CASE \E w \in Workers : Refuse(w)
    BY <2>1, <2>2 DEF Refuse
  <2>3. CASE Stop
    BY <2>1, <2>3 DEF Stop
  <2>4. CASE Tick
    BY <2>1, <2>4 DEF Tick
  <2>5. CASE UNCHANGED vars
    BY <2>1, <2>5 DEF vars
  <2> QED
    BY <2>2, <2>3, <2>4, <2>5
<1>2. TypeOK'
  BY <1>1 DEF IInv, TypeOK, Capacity
<1>3. Spent'
  BY <1>1 DEF IInv, Spent, Capacity
<1> QED
  BY <1>1, <1>2, <1>3 DEF IInv, TypeOK

LEMMA NextIInv == IInv /\ [Next]_vars => IInv'
<1> SUFFICES ASSUME IInv, [Next]_vars PROVE IInv'
  OBVIOUS
<1>1. CASE \E w \in Workers : Grant(w)
  BY <1>1, GrantKeeps
<1>2. CASE \E w \in Workers : Wait(w)
  BY <1>2, WaitKeeps
<1>3. CASE Mark
  BY <1>3, MarkKeeps
<1>4. CASE (\E w \in Workers : Refuse(w)) \/ Stop \/ Tick \/ UNCHANGED vars
  BY <1>4, OthersKeep
<1> QED
  BY <1>1, <1>2, <1>3, <1>4 DEF Next, Take

\* What was given out is within the bound whenever the invariant holds.
LEMMA IInvBounds == IInv => WindowBounded
<1> SUFFICES ASSUME IInv PROVE WindowBounded
  OBVIOUS
<1> DEFINE out == (grants - mark.granted) * One
<1>1. /\ now \in Nat /\ last \in Nat /\ last <= now /\ tokens \in Nat
      /\ mark.time \in Nat /\ mark.time <= now /\ grants \in Nat /\ mark.granted \in Nat
  BY CapacityType DEF IInv, TypeOK
<1>2. Capacity \in Nat /\ (now - mark.time) * Rate \in Nat
  <2>1. now - mark.time \in Nat
    BY <1>1
  <2> QED
    BY <2>1, CapacityType, AccruesMore
<1>3. CASE last < mark.time
  <2>1. out = 0
    BY <1>1, <1>3, LimiterAssumption DEF IInv, Spent
  <2> DEFINE accrued == (now - mark.time) * Rate
  <2>2. accrued \in Nat
    BY <1>2
  <2> HIDE DEF out, accrued
  <2>3. out <= Capacity + accrued
    BY <2>1, <2>2, <1>2
  <2> QED
    BY <2>3 DEF out, accrued, WindowBounded
<1>4. CASE ~(last < mark.time)
  <2>1. out + tokens <= Capacity + (last - mark.time) * Rate
    BY <1>4 DEF IInv, Spent
  <2>2. /\ (last - mark.time) * Rate \in Nat
        /\ (last - mark.time) * Rate <= (now - mark.time) * Rate
    <3>1. /\ last - mark.time \in Nat /\ now - mark.time \in Nat
          /\ last - mark.time <= now - mark.time
      BY <1>1, <1>4
    <3> QED
      BY <3>1, AccruesMore
  <2>3. out \in Int
    BY <1>1, LimiterAssumption
  <2> DEFINE held == (last - mark.time) * Rate
             accrued == (now - mark.time) * Rate
  <2>4. out + tokens <= Capacity + held /\ held <= accrued /\ held \in Nat /\ accrued \in Nat
    BY <2>1, <2>2, <1>2
  <2> HIDE DEF out, held, accrued
  <2>5. out <= Capacity + accrued
    BY <2>3, <2>4, <1>1, <1>2
  <2> QED
    BY <2>5 DEF out, accrued, WindowBounded
<1> QED
  BY <1>3, <1>4

\* The clock, the bucket and the counts stay what they are (walk.py:360-401).
THEOREM LimiterTypeCorrect == Spec => []TypeOK
<1>1. IInv => TypeOK
  BY DEF IInv
<1> QED
  BY <1>1, InitIInv, NextIInv, PTL DEF Spec

\* From any moment on no more directories are opened than a full bucket and the
\* rate allow, for every number of workers and every rate (walk.py:386-393).
THEOREM RateIsBounded == Spec => []WindowBounded
BY InitIInv, NextIInv, IInvBounds, PTL DEF Spec

-----------------------------------------------------------------------------
(* Sleeping for a token.                                                    *)

\* A quotient, rounded down, and what is left of a multiple of the divisor.
LEMMA DivBounds ==
    ASSUME NEW n \in Int, NEW r \in Nat \ {0}
    PROVE  /\ n \div r \in Int
           /\ (n \div r) * r <= n /\ n < (n \div r) * r + r
BY SMT

LEMMA DivShift ==
    ASSUME NEW n \in Int, NEW k \in Int, NEW r \in Nat \ {0}
    PROVE  (n - k * r) \div r = (n \div r) - k
BY SMT

\* The deficit is the least number of ticks after which a token is there.
LEMMA DeficitIsLeast ==
    ASSUME NEW t \in Int
    PROVE  /\ Deficit(t) \in Int
           /\ t + Deficit(t) * Rate >= One
           /\ \A k \in Int : k < Deficit(t) => t + k * Rate < One
<1> DEFINE n == One - t + Rate - 1
           q == n \div Rate
<1>1. Rate \in Nat \ {0} /\ One \in Nat
  BY LimiterAssumption
<1>2. n \in Int
  BY <1>1
<1>3. q \in Int /\ q * Rate <= n /\ n < q * Rate + Rate
  BY <1>1, <1>2, DivBounds
<1>4. Deficit(t) = q
  BY DEF Deficit
<1>5. q * Rate \in Int
  BY <1>1, <1>3
<1>6. t + q * Rate >= One
  <2> DEFINE m == q * Rate
  <2>1. m \in Int /\ n < m + Rate
    BY <1>3, <1>5
  <2> HIDE DEF m, q
  <2>2. t + m >= One
    BY <1>1, <2>1
  <2> QED
    BY <2>2 DEF m
<1>7. ASSUME NEW k \in Int, k < q
      PROVE  t + k * Rate < One
  <2> DEFINE m == q * Rate
  <2>1. m \in Int /\ m <= n
    BY <1>3, <1>5
  <2> HIDE DEF n
  <2>2. PICK d \in Nat : q = k + 1 + d
    <3>1. q - k - 1 \in Nat /\ q = k + 1 + (q - k - 1)
      BY <1>3, <1>7
    <3> QED
      BY <3>1
  <2> HIDE DEF q
  <2>3. m = k * Rate + Rate + d * Rate
    BY <2>2, <1>1
  <2>4. k * Rate \in Int /\ d * Rate \in Nat
    BY <1>1
  <2> HIDE DEF m
  <2> DEFINE kr == k * Rate
             dr == d * Rate
  <2>5. m = kr + Rate + dr /\ kr \in Int /\ dr \in Nat
    BY <2>3, <2>4
  <2> HIDE DEF kr, dr
  <2>6. t + kr < One
    BY <2>1, <2>5, <1>1 DEF n
  <2> QED
    BY <2>6 DEF kr
<1> HIDE DEF q, n
<1> QED
  BY <1>3, <1>4, <1>6, <1>7

\* While a token is still to come, a refill does not change when it comes.
LEMMA RefillKeepsDue ==
    ASSUME IInv, now < last + Deficit(tokens)
    PROVE  /\ Refilled < One
           /\ now + Deficit(Refilled) = last + Deficit(tokens)
<1> DEFINE k == now - last
<1>1. /\ now \in Nat /\ last \in Nat /\ last <= now /\ tokens \in 0..Capacity
      /\ Rate \in Nat \ {0} /\ One \in Nat /\ Capacity \in Nat /\ One <= Capacity
  BY CapacityType, LimiterAssumption DEF IInv, TypeOK
<1>2. k \in Nat /\ tokens \in Nat /\ Deficit(tokens) \in Int
  BY <1>1, DeficitIsLeast
<1>3. tokens + k * Rate < One
  <2>1. k < Deficit(tokens)
    BY <1>1, <1>2
  <2> HIDE DEF k
  <2> QED
    BY <2>1, <1>2, DeficitIsLeast
<1>4. k * Rate \in Nat
  BY <1>1, <1>2
<1>5. Refilled = tokens + k * Rate
  <2> DEFINE gain == k * Rate
  <2>1. gain \in Nat /\ tokens + gain < One
    BY <1>3, <1>4
  <2>2. Refilled = IF Capacity < tokens + gain THEN Capacity ELSE tokens + gain
    BY DEF Refilled, AtMost
  <2> HIDE DEF gain
  <2>3. Refilled = tokens + gain
    BY <2>1, <2>2, <1>1, <1>2
  <2> QED
    BY <2>3 DEF gain
<1>6. Deficit(Refilled) = Deficit(tokens) - k
  <2> DEFINE n == One - tokens + Rate - 1
  <2>1. n \in Int
    BY <1>1, <1>2
  <2>2. One - Refilled + Rate - 1 = n - k * Rate
    <3> DEFINE gain == k * Rate
    <3>1. gain \in Nat /\ Refilled = tokens + gain
      BY <1>4, <1>5
    <3> HIDE DEF gain
    <3>2. One - Refilled + Rate - 1 = n - gain
      BY <3>1, <1>1, <1>2
    <3> QED
      BY <3>2 DEF gain
  <2>3. Deficit(Refilled) = (n - k * Rate) \div Rate /\ Deficit(tokens) = n \div Rate
    BY <2>2 DEF Deficit
  <2>4. n \in Int /\ k \in Int /\ Rate \in Nat \ {0}
    BY <2>1, <1>1, <1>2
  <2> HIDE DEF n, k
  <2>5. (n - k * Rate) \div Rate = (n \div Rate) - k
    BY <2>4, DivShift, Zenon
  <2> QED
    BY <2>3, <2>5
<1>7. now + (Deficit(tokens) - k) = last + Deficit(tokens)
  BY <1>1, <1>2
<1> QED
  BY <1>1, <1>3, <1>5, <1>6, <1>7

\* Once the token is due a full deficit fills the bucket up to it.
LEMMA DueSuffices ==
    ASSUME TypeOK
    PROVE  LET due == last + Deficit(tokens)
           IN  AtMost(Capacity, tokens + (due - last) * Rate) >= One
<1> DEFINE due == last + Deficit(tokens)
<1>1. /\ last \in Nat /\ tokens \in Nat /\ Capacity \in Nat /\ One <= Capacity /\ One \in Nat
  BY CapacityType, LimiterAssumption DEF TypeOK
<1>2. Deficit(tokens) \in Int /\ tokens + Deficit(tokens) * Rate >= One
  BY <1>1, DeficitIsLeast
<1>3. due - last = Deficit(tokens)
  BY <1>1, <1>2
<1>4. tokens + (due - last) * Rate >= One
  BY <1>2, <1>3
<1> HIDE DEF due
<1>5. AtMost(Capacity, tokens + (due - last) * Rate) >= One
  BY <1>1, <1>4 DEF AtMost
<1> QED
  BY <1>5 DEF due

\* Every sleep ends by the moment the next token is due.
SleepsInTime ==
    \A w \in Workers : wake[w] > now => wake[w] <= last + Deficit(tokens)

\* A sleeper sees no token given out while it sleeps: until its token is due the
\* bucket holds none.
LEMMA GrantWakes ==
    ASSUME IInv, SleepsInTime, NEW w \in Workers, Grant(w)
    PROVE  \A v \in Workers : wake[v] <= now
<1> SUFFICES ASSUME NEW v \in Workers, ~(wake[v] <= now) PROVE FALSE
  OBVIOUS
<1>1. now \in Nat /\ last \in Nat /\ wake[v] \in Nat /\ tokens \in Int
  BY CapacityType DEF IInv, TypeOK
<1>2. Deficit(tokens) \in Int /\ One \in Nat
  BY <1>1, DeficitIsLeast, LimiterAssumption
<1>3. now < last + Deficit(tokens)
  BY <1>1, <1>2 DEF SleepsInTime
<1>4. Refilled < One /\ Refilled \in 0..Capacity /\ Refilled >= One
  BY <1>3, RefillKeepsDue, RefillSpends DEF Grant
<1> QED
  BY <1>2, <1>4, CapacityType

LEMMA NextSleeps == IInv /\ SleepsInTime /\ [Next]_vars => SleepsInTime'
<1> SUFFICES ASSUME IInv, SleepsInTime, [Next]_vars, NEW v \in Workers, wake'[v] > now'
             PROVE  wake'[v] <= last' + Deficit(tokens')
  BY DEF SleepsInTime, Deficit
<1>1. /\ now \in Nat /\ last \in Nat /\ last <= now /\ wake \in [Workers -> Nat]
      /\ tokens \in Int /\ Deficit(tokens) \in Int
      /\ Refilled \in Int /\ Deficit(Refilled) \in Int
  <2>1. tokens \in Int /\ Refilled \in Int
    BY CapacityType, RefillSpends DEF IInv, TypeOK
  <2> QED
    BY <2>1, DeficitIsLeast DEF IInv, TypeOK
<1>2. ASSUME NEW w \in Workers, Grant(w) PROVE wake'[v] <= last' + Deficit(tokens')
  BY <1>2, <1>1, GrantWakes DEF Grant
<1>3. ASSUME NEW w \in Workers, Wait(w) PROVE wake'[v] <= last' + Deficit(tokens')
  <2>1. /\ tokens' = Refilled /\ last' = now /\ now' = now
        /\ wake' = [wake EXCEPT ![w] = now + AtMost(Deficit(Refilled), Poll)]
    BY <1>3 DEF Wait
  <2>2. CASE v = w
    <3>1. AtMost(Deficit(Refilled), Poll) <= Deficit(Refilled)
          /\ AtMost(Deficit(Refilled), Poll) \in Int
      BY <1>1, LimiterAssumption DEF AtMost
    <3>2. wake'[v] = now + AtMost(Deficit(Refilled), Poll)
      BY <2>1, <2>2, <1>1
    <3> QED
      BY <3>1, <3>2, <2>1, <1>1
  <2>3. CASE v # w
    <3>1. wake'[v] = wake[v] /\ wake[v] > now
      BY <2>1, <2>3, <1>1
    <3>2. wake[v] <= last + Deficit(tokens)
      BY <3>1 DEF SleepsInTime
    <3>3. now < last + Deficit(tokens)
      BY <3>1, <3>2, <1>1
    <3> QED
      BY <3>1, <3>2, <3>3, <2>1, RefillKeepsDue
  <2> QED
    BY <2>2, <2>3
<1>4. ASSUME (\E w \in Workers : Refuse(w)) \/ Stop \/ Tick \/ Mark \/ UNCHANGED vars
      PROVE  wake'[v] <= last' + Deficit(tokens')
  <2>1. /\ tokens' = tokens /\ last' = last /\ wake' = wake
        /\ now' \in Nat /\ now <= now'
    BY <1>4, <1>1 DEF Refuse, Stop, Tick, Mark, vars
  <2>2. wake[v] > now
    BY <2>1, <1>1
  <2> QED
    BY <2>1, <2>2 DEF SleepsInTime
<1> QED
  BY <1>2, <1>3, <1>4 DEF Next, Take

\* No worker oversleeps, whatever the rate, the poll and the number of workers:
\* its sleep ends no later than the next token is there (walk.py:365, 394-401).
THEOREM NobodyEverOversleeps == Spec => []NobodyOversleeps
<1>1. Init => SleepsInTime
  BY DEF Init, SleepsInTime
<1>2. IInv /\ SleepsInTime => NobodyOversleeps
  <2> SUFFICES ASSUME IInv, SleepsInTime PROVE NobodyOversleeps
    OBVIOUS
  <2>1. TypeOK
    BY DEF IInv
  <2> QED
    BY <2>1, DueSuffices DEF SleepsInTime, NobodyOversleeps
<1> QED
  BY <1>1, <1>2, InitIInv, NextIInv, NextSleeps, PTL DEF Spec
=============================================================================

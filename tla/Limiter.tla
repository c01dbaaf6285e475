------------------------------ MODULE Limiter ------------------------------
(***************************************************************************)
(* The rate limiter of --max-dirs-per-sec (walk.py, `TokenBucket`): every  *)
(* worker takes a token before it opens a directory, and waits for one     *)
(* with a sleep that a stop cuts short.                                    *)
(*                                                                         *)
(* Tokens are counted in parts: One parts make a token, and Rate parts are *)
(* gained per tick of the clock.  Module Walk has this bucket's two        *)
(* answers only.  A definition named Mut... is a plausible mistake in the  *)
(* definition that follows it.                                             *)
(***************************************************************************)
EXTENDS Integers

CONSTANTS
    Workers,
    One, Rate,         \* the parts of a token, and those gained per tick
    Second,            \* the ticks of one second
    Poll,              \* 0.25 s, the longest that a worker sleeps at once
    MaxTime            \* bounds the clock

ASSUME LimiterAssumption ==
    /\ One \in Nat \ {0} /\ Rate \in Nat \ {0}
    /\ Second \in Nat \ {0} /\ Poll \in Nat \ {0} /\ MaxTime \in Nat

VARIABLES
    now,               \* the clock
    tokens, last,      \* the bucket, and when it was last refilled
    wake,              \* when each worker's sleep ends; it asks from then on
    refused,           \* the workers that were told to stop
    stopped,           \* the stop event
    grants,           \* how many tokens were given out
    mark               \* a moment of the past, and `grants` at it

vars == <<now, tokens, last, wake, refused, stopped, grants, mark>>

\* A second's worth of tokens: a rate below one could never save up a token.
MutCapacity == Rate * Second

\* A second's worth of tokens, and never less than one token.
Capacity == IF Rate * Second > One THEN Rate * Second ELSE One

AtMost(a, b) == IF a < b THEN a ELSE b

\* What has accrued is added without a bound.
MutRefilled == tokens + (now - last) * Rate

\* The bucket as a worker finds it once it has the lock.
Refilled == AtMost(Capacity, tokens + (now - last) * Rate)

\* The ticks until a token is there, rounded up.
Deficit(t) == (One - t + Rate - 1) \div Rate

Asks(w) == w \notin refused /\ wake[w] <= now

Init ==
    /\ now = 0 /\ tokens = Capacity /\ last = 0
    /\ wake = [w \in Workers |-> 0]
    /\ refused = {} /\ stopped = FALSE
    /\ grants = 0
    /\ mark = [time |-> 0, granted |-> 0]

Grant(w) ==
    /\ Asks(w) /\ ~stopped
    /\ Refilled >= One
    /\ tokens' = Refilled - One /\ last' = now
    /\ grants' = grants + 1
    /\ UNCHANGED <<now, wake, refused, stopped, mark>>

\* The bucket is refilled all the same.
Wait(w) ==
    /\ Asks(w) /\ ~stopped
    /\ Refilled < One
    /\ tokens' = Refilled /\ last' = now
    /\ wake' = [wake EXCEPT ![w] = now + AtMost(Deficit(Refilled), Poll)]
    /\ UNCHANGED <<now, refused, stopped, grants, mark>>

\* A stop is seen before the bucket is looked at, and wakes a sleeper.
Refuse(w) ==
    /\ stopped /\ w \notin refused
    /\ refused' = refused \cup {w}
    /\ UNCHANGED <<now, tokens, last, wake, stopped, grants, mark>>

Stop == ~stopped /\ stopped' = TRUE
        /\ UNCHANGED <<now, tokens, last, wake, refused, grants, mark>>

Tick ==
    /\ now < MaxTime /\ now' = now + 1
    /\ UNCHANGED <<tokens, last, wake, refused, stopped, grants, mark>>

\* An observer's, not the code's: from when the grants are counted.
Mark ==
    /\ mark' = [time |-> now, granted |-> grants]
    /\ UNCHANGED <<now, tokens, last, wake, refused, stopped, grants>>

Take(w) == Grant(w) \/ Wait(w) \/ Refuse(w)
Next == (\E w \in Workers : Take(w)) \/ Stop \/ Tick \/ Mark

Spec == Init /\ [][Next]_vars

-----------------------------------------------------------------------------
(* Properties.                                                             *)

TypeOK ==
    /\ now \in Nat /\ last \in Nat /\ last <= now
    /\ tokens \in 0..Capacity
    /\ wake \in [Workers -> Nat]
    /\ refused \subseteq Workers /\ stopped \in BOOLEAN
    /\ grants \in Nat
    /\ mark \in [time : Nat, granted : Nat]

\* From any moment on, however many workers ask and however they interleave,
\* no more directories are opened than a full bucket and the rate allow
\* (walk.py:386-393; tests/test_walk_throttles.py).
WindowBounded ==
    (grants - mark.granted) * One <= Capacity + (now - mark.time) * Rate

\* No worker oversleeps: its sleep ends no later than the next token is there,
\* whoever has taken one meanwhile, and it is there however low the rate
\* (walk.py:365, 394-401).
NobodyOversleeps ==
    LET due == last + Deficit(tokens)
    IN  \A w \in Workers :
          wake[w] > now => /\ wake[w] <= due
                           /\ AtMost(Capacity, tokens + (due - last) * Rate) >= One
=============================================================================

------------------------------ MODULE MCLimiter ------------------------------
(***************************************************************************)
(* A rate below one token a second, for two workers.                       *)
(***************************************************************************)
EXTENDS Limiter
CONSTANTS w1, w2
MCWorkers == {w1, w2}
=============================================================================

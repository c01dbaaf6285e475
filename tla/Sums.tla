-------------------------------- MODULE Sums --------------------------------
(***************************************************************************)
(* Sums of a column of figures over a set of its rows.                     *)
(***************************************************************************)
EXTENDS FiniteSetsExt

\* The sum of w[i] over the i of a finite set.
SumOver(w, set) == MapThenSumSet(LAMBDA i : w[i], set)
=============================================================================

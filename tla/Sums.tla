-------------------------------- MODULE Sums --------------------------------
(* Sums over finite sets, for the books that add up accounts. *)
EXTENDS Integers, FiniteSetsExt

\* The sum of the values of the function w at the elements of S.
SumOver(w, S) == MapThenSumSet(LAMBDA x : w[x], S)
=============================================================================

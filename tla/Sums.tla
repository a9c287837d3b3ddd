--------------------------------- MODULE Sums ---------------------------------
(***************************************************************************)
(* SELECT SUM(...): the total of a column, over rows told apart by a key.  *)
(***************************************************************************)
EXTENDS FiniteSetsExt

\* The sum of a set of pairs <<key, amount>>.
SumOf(pairs) == MapThenSumSet(LAMBDA row : row[2], pairs)
=============================================================================

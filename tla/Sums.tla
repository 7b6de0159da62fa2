--------------------------------- MODULE Sums ---------------------------------
(***************************************************************************)
(* Sums over finite sets, of the values of a function: the totals in which *)
(* the accounts of many users have to agree with one of the program.       *)
(***************************************************************************)
EXTENDS FiniteSetsExt

\* f[x] summed over the elements x of S.
SumOf(f, S) == MapThenSumSet(LAMBDA x : f[x], S)
===============================================================================

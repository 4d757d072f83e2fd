-------------------------------- MODULE Sums --------------------------------
(***************************************************************************)
(* Sums over finite sets, for the properties that add up money, quantities *)
(* or counts.                                                              *)
(***************************************************************************)
EXTENDS Integers, FiniteSetsExt

\* The sum of the values of function f at the elements of S.
Sum(f, S) == MapThenSumSet(LAMBDA x : f[x], S)

\* The sum of all values of function f.
Total(f) == Sum(f, DOMAIN f)
=============================================================================

-------------------------------- MODULE Sums --------------------------------
(* Sums of the values of a function, as the properties of the markets and   *)
(* of the salaries compare them with what the contracts keep count of.      *)
EXTENDS FiniteSetsExt

\* The sum of f[x] over the elements of S.
SumOver(f, S) == MapThenSumSet(LAMBDA x : f[x], S)

=============================================================================

------------------------------- MODULE Totals -------------------------------
(* Sums of amounts over sets of rows, as the services' SUM queries take.   *)
EXTENDS FiniteSetsExt

\* The sum of w[x] for the members x of S.
SumOver(w, S) == MapThenSumSet(LAMBDA x : w[x], S)
=============================================================================

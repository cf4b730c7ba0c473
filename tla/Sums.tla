-------------------------------- MODULE Sums --------------------------------
(***************************************************************************)
(* Sums of amounts, as every ledger of the system takes them.  SumsProofs  *)
(* proves what they satisfy.                                               *)
(***************************************************************************)
EXTENDS Integers, FiniteSets, FiniteSetsExt

\* The sum of f[x] over the finite set S.
SumOver(f, S) == MapThenSumSet(LAMBDA x : f[x], S)
=============================================================================

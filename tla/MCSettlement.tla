---------------------------- MODULE MCSettlement ----------------------------
(* Model values for Settlement: two unequal roles.                         *)
EXTENDS Settlement

MCBp == <<1, 2>>
=============================================================================

--------------------------- MODULE MCPayerStream ---------------------------
(* Model values for PayerStream: two roles.                                *)
EXTENDS PayerStream

MCBp == <<1, 2>>
=============================================================================

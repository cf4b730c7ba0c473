--------------------------- MODULE MCPrepayChain ---------------------------
(* Model values for PrepayChain: two roles, and a successor with the       *)
(* smaller window, so that an import may not fit.                          *)
EXTENDS PrepayChain

MCBp == <<1, 1>>
MCLPrepay == [c \in Cids |-> IF c = 1 THEN 2 ELSE 1]
=============================================================================

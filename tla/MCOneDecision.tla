--------------------------- MODULE MCOneDecision ---------------------------
(* Model values for OneDecision: two keys, decided as a refund or an import. *)
EXTENDS OneDecision

MCKeys == {"close1", "close2"}
MCValues == {"refund", "import"}
=============================================================================

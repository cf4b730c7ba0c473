----------------------------- MODULE MCKitEntry -----------------------------
(* Model values for KitEntry: e1 has a short contest delay, e2 one that     *)
(* saturates T_exec; three of the four roles share a destination.  Both     *)
(* destinations and one payer's account may refuse; e1 owes "wallet" nothing. *)
EXTENDS KitEntry

MCIds == {"e1", "e2"}
MCAmount == [i \in MCIds |-> IF i = "e1" THEN 3 ELSE 6]
MCTOpen == [i \in MCIds |-> IF i = "e1" THEN 1 ELSE 2]
MCTLapse == [i \in MCIds |-> IF i = "e1" THEN 2 ELSE 3]
MCContest == [i \in MCIds |-> IF i = "e1" THEN 1 ELSE 5]
MCRefundTo == [i \in MCIds |-> IF i = "e1" THEN "payer1" ELSE "payer2"]
MCFreezable == {"fund", "wallet", "payer1"}
MCRoles == 1..4
MCWeight == [r \in MCRoles |-> 1]
MCDestOf == [r \in MCRoles |-> IF r = 4 THEN "wallet" ELSE "fund"]
=============================================================================

------------------------------- MODULE Escrow -------------------------------
(***************************************************************************)
(* What the holder of a purchase's meed promises, whichever of the two     *)
(* implementations it is: each deposit is held, and then leaves once, to   *)
(* the recipients or back to the payer, never both and never a second time. *)
(***************************************************************************)
CONSTANT Ids    \* the entries

VARIABLE fate   \* the deposit of each entry: "none", "held", "recipients" or "payer"

Init == fate = [i \in Ids |-> "none"]

Deposit(i) == fate[i] = "none" /\ fate' = [fate EXCEPT ![i] = "held"]
PayOut(i) == fate[i] = "held" /\ fate' = [fate EXCEPT ![i] = "recipients"]
Refund(i) == fate[i] = "held" /\ fate' = [fate EXCEPT ![i] = "payer"]

Next == \E i \in Ids : Deposit(i) \/ PayOut(i) \/ Refund(i)

Spec == Init /\ [][Next]_fate
=============================================================================

----------------------------- MODULE MCMetering -----------------------------
(* Model values for Metering: one role at 1 and one at 2 basis points.     *)
EXTENDS Metering

MCRoles == {"ads", "wallet"}
MCBp == [r \in MCRoles |-> IF r = "ads" THEN 2 ELSE 1]
=============================================================================

--------------------------- MODULE MCHostInstance ---------------------------
(* Model values for HostInstance: amounts whose shares do not divide evenly. *)
EXTENDS HostInstance

MCIds == {"e1", "e2"}
MCAmount == [i \in MCIds |-> IF i = "e1" THEN 3 ELSE 2]
MCTOpen == [i \in MCIds |-> 1]
MCTLapse == [i \in MCIds |-> IF i = "e1" THEN 1 ELSE 2]
MCContest == [i \in MCIds |-> IF i = "e1" THEN 1 ELSE 4]
MCRoles == 1..3
MCWeight == [r \in MCRoles |-> IF r = 3 THEN 3 ELSE 1]
MCDestOf == [r \in MCRoles |-> IF r = 3 THEN "wallet" ELSE "fund"]
MCClaims == {"k"}
MCClaimP == [k \in MCClaims |-> 2]
MCRelease == [k \in {"g"} |-> 1]
=============================================================================

------------------------ MODULE MCCheckpointExchange ------------------------
(* Model values for CheckpointExchange: one role at 1 basis point.         *)
EXTENDS CheckpointExchange

MCRoles == {"ads"}
MCBp == [r \in MCRoles |-> 1]
=============================================================================

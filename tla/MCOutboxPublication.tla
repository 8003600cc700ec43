------------------------ MODULE MCOutboxPublication -------------------------
(* Instances of OutboxPublication for TLC.                                 *)
EXTENDS OutboxPublication, TLC

=============================================================================

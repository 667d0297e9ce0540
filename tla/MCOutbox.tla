------------------------------ MODULE MCOutbox ------------------------------
(* Instances of Outbox for TLC.  The batches keep their names: a temporal     *)
(* property is checked in the same run.                                       *)
EXTENDS Outbox, TLC
=============================================================================

------------------------------- MODULE MCOutbox -----------------------------
(* Outbox for TLC.  Rows do not interact: one event is enough.             *)
EXTENDS Outbox
=============================================================================

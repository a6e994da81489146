-------------------------- MODULE MCOutboxDelivery --------------------------
(* Small instances of the Outbox for TLC.                                  *)
EXTENDS OutboxDelivery, TLC

=============================================================================

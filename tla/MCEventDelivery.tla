--------------------------- MODULE MCEventDelivery ---------------------------
(* EventDelivery for TLC: more events than the queue has slots, and more     *)
(* waiting events than one flush sends.                                      *)
EXTENDS EventDelivery

=============================================================================

--------------------------- MODULE MCProvisioning ---------------------------
(* A small instance of Provisioning for TLC: see Provisioning.cfg.         *)
EXTENDS Provisioning
=============================================================================

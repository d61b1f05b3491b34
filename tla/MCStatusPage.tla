---------------------------- MODULE MCStatusPage ----------------------------
(* The instance of StatusPage for TLC: the events of MCWarehouse. *)
EXTENDS StatusPage, MCWarehouse

=============================================================================

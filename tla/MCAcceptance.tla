------------------------------ MODULE MCAcceptance ------------------------------
(* The instance of Acceptance for TLC: the lines of a machine in one partition,  *)
(* and those without a key in another.                                       *)
EXTENDS Acceptance

CONSTANT m1

MCPartitionOf == [m \in Machines |-> 1]
MCPartitions == 0..1

=============================================================================

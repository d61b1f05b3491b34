-------------------------- MODULE MCBronzeConsumer --------------------------
(***************************************************************************)
(* Instances of BronzeConsumer for TLC: symmetry of the model values.      *)
(***************************************************************************)
EXTENDS BronzeConsumerProps, TLC

PartitionSymmetry == Permutations(Partitions)
ConsumerSymmetry == Permutations(Consumers)

=============================================================================

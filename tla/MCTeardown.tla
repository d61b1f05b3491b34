----------------------------- MODULE MCTeardown -----------------------------
(* The instance of Teardown for TLC: two regions, one of them scanned by     *)
(* default, two resources that one call lists, one that is listed on after   *)
(* its deletion whatever its state, and one of a kind that no call lists.    *)
EXTENDS Teardown, TLC

CONSTANTS gateway, another, database, accelerator

MCResources == {gateway, another, database, accelerator}
GatewaySymmetry == Permutations({gateway, another})

MCEnabled == <<"us-east-1", "us-west-2">>
MCDefault == <<"us-east-1">>
MCCalls == <<"nat_gateways", "rds_instances">>
MCRegionOf == [r \in Resources |-> IF r = database THEN "us-west-2" ELSE "us-east-1"]
MCKindOf == [r \in Resources |-> CASE r = database -> "rds_instances"
                                   [] r = accelerator -> "global_accelerators"
                                   [] OTHER -> "nat_gateways"]

=============================================================================

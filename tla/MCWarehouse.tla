---------------------------- MODULE MCWarehouse ----------------------------
(***************************************************************************)
(* Instances of Warehouse for TLC: the canonical events.                   *)
(***************************************************************************)
EXTENDS WarehouseProps, TLC

\* Two events in the first window of machine 1, one in its second.
Machine == 1 :> 1 @@ 2 :> 1 @@ 3 :> 1
Types == 1 :> "cycle" @@ 2 :> "defect" @@ 3 :> "cycle"
Times == 1 :> 1 @@ 2 :> 1 @@ 3 :> 2
Versions == 1 :> 1 @@ 2 :> 2 @@ 3 :> 3

\* Two events of one window, whose start is no full hour.
PairMachine == 1 :> 1 @@ 2 :> 1
PairTypes == 1 :> "operator_scan" @@ 2 :> "operator_scan"
PairTimes == 1 :> 2 @@ 2 :> 3
PairVersions == 1 :> 1 @@ 2 :> 1

=============================================================================

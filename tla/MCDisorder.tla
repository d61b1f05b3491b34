----------------------------- MODULE MCDisorder -----------------------------
(***************************************************************************)
(* Instances of Disorder for TLC: what the simulator emitted.              *)
(***************************************************************************)
EXTENDS DisorderProps, TLC

\* Three events, two of them of machine 1, with the same machine reporting in
\* two windows of two minutes.
TwoMachines == 1 :> 1 @@ 2 :> 2 @@ 3 :> 1
CycleDefectCycle == 1 :> "cycle" @@ 2 :> "defect" @@ 3 :> "cycle"
Times == 1 :> 2 @@ 2 :> 2 @@ 3 :> 4

\* A clock can be ahead or behind by a window.
AnyDirection == {-2, 2}

=============================================================================

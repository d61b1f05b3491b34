---------------------------- MODULE MCMachineSim ----------------------------
(* The instance of MachineSim for TLC: two shifts that follow each other, as *)
(* A and B of the canon do, the first with two breaks, not listed in order;  *)
(* the third is unstaffed.                                                   *)
EXTENDS MachineSim

MCShifts == << [start |-> 10, end |-> 30,
                breaks |-> <<[at |-> 20, ticks |-> 3], [at |-> 14, ticks |-> 1]>>],
               [start |-> 30, end |-> 42, breaks |-> <<>>] >>

=============================================================================

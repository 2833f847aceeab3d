---------------------------- MODULE MCBatchImage ----------------------------
(* Two jobs of one user, one submitted anew and one already at the provider. *)
EXTENDS BatchImage, TLC

CONSTANTS j1, j2, w1, w2

MCJobs == {j1, j2}
MCFresh == {j1}
MCWorkers == {w1, w2}
MCSymmetry == Permutations(MCWorkers)
MCHold == [j \in MCJobs |-> 2]
\* the new job costs more than its hold, the other one less
MCCosts == j1 :> {3} @@ j2 :> {1}
=============================================================================

---------------------------- MODULE MCRunPipeline ----------------------------
(* RunPipeline on two runners. *)
EXTENDS RunPipeline, TLC

CONSTANTS r1, r2

OneRunner == {r1}
TwoRunners == {r1, r2}
TwoEnergies == {0, 1}
OneEnergy == {0}

Sym == Permutations(Runners)
=============================================================================

------------------------------- MODULE MCFork -------------------------------
(* Module Fork with the environments that do not run at first exchanged.   *)
EXTENDS Fork, TLC

EnvSymmetry == Permutations(ENVS \ {FIRST})
=============================================================================

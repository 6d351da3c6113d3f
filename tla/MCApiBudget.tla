---------------------------- MODULE MCApiBudget ----------------------------
(* Small instances of ApiBudget for TLC.                                    *)
EXTENDS ApiBudget, TLC

CallerSymmetry == Permutations(Callers)
=============================================================================

------------------------- MODULE MCServiceLifecycle -------------------------
(* The five bus tasks of spawn_bus_tasks; the four that report nothing are  *)
(* interchangeable.                                                         *)
EXTENDS ServiceLifecycle, TLC

TaskSymmetry == Permutations(Tasks \ {Relay})
=============================================================================

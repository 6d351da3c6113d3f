--------------------------- MODULE MCOutboxRelay ---------------------------
(* Small instances of OutboxRelay for TLC.                                  *)
EXTENDS OutboxRelay, TLC

CONSTANTS i1, i2

(* i1 is the older row.                                                     *)
Age == (i1 :> 1) @@ (i2 :> 2)

RelaySymmetry == Permutations(Relays)
=============================================================================

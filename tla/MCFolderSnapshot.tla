-------------------------- MODULE MCFolderSnapshot --------------------------
(***************************************************************************)
(* Instances of FolderSnapshot for TLC.                                     *)
(***************************************************************************)
EXTENDS FolderSnapshot, TLC

CONSTANTS r1, r2, r3

(* Runs are created in the order of their names.  The third, by which a     *)
(* post may return, is for one task at a time that does not die.            *)
OneByOne ==
  /\ run[r1] = Unused => run[r2] = Unused
  /\ run[r2] = Unused => run[r3] = Unused
  /\ \/ run[r3] = Unused
     \/ /\ Cardinality({w \in Runners : runner[w] # Idle}) <= 1
        /\ crashes = 0

(* No step and no property reads the recorded limits.                       *)
Read == <<provider, run, projection, runner, crashes>>

Symmetry == Permutations(Posts) \cup Permutations(Runners)
=============================================================================

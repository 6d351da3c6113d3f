--------------------------- MODULE MCBookmarkSync ---------------------------
(***************************************************************************)
(* Instances of BookmarkSync for TLC.                                       *)
(***************************************************************************)
EXTENDS BookmarkSync, TLC

CONSTANTS r1, r2, w1, w2, s1, s2, add, remove

TwoPosts == 1..2
ThreePosts == 1..3
OneRun == {r1}
TwoRuns == {r1, r2}

(* An add and a remove of the same post; without writes, empty functions.   *)
Asks == [o \in Ops |-> IF o = add THEN "add" ELSE "remove"]
FirstPost == [o \in Ops |-> 1]

Symmetry == Permutations(Runs) \cup Permutations(Runners) \cup Permutations(Scanners)

-----------------------------------------------------------------------------
(* One instance has every kind of task.  A behaviour of it has one of three *)
(* casts: writes and two runs, two tasks on one run, or a scan beside a     *)
(* run.  In an instance that is not constrained by InCast a cast says       *)
(* nothing.                                                                 *)
VARIABLE cast

CastInit == Init /\ cast \in {"writes", "tasks", "scan"}
CastNext == Next /\ UNCHANGED cast

CastSpec == CastInit /\ [][CastNext]_<<vars, cast>>

(* Runs are created in the order of their names.  A task that dies beside a *)
(* scan does so before there is a run, and one that dies between writes     *)
(* before there is a second: after that, MarkFailed and StopScan end tasks. *)
InCast ==
  /\ cast # "writes" => run[r2] = Unused /\ \A o \in Ops : op[o].is = "admitted"
  /\ cast # "tasks" => runner[w2] = Idle
  /\ cast # "scan" => saved[3] = 0 /\ scan[s1] = Idle
  /\ cast = "writes" => saves <= 2
  /\ cast = "scan" => crashes = 0 \/ run[r1] = Unused
  /\ crashes = 0 \/ run[r2] = Unused
  /\ run[r1] = Unused => run[r2] = Unused
=============================================================================

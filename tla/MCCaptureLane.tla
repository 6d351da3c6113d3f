--------------------------- MODULE MCCaptureLane ---------------------------
(* Small instances of CaptureLane for TLC.                                  *)
EXTENDS CaptureLane, TLC

CONSTANTS c1, c2, c3, c4, k1

(* Three captures of one post race, to preserve, remove and restore it.     *)
Racing == (c1 :> k1) @@ (c2 :> k1) @@ (c3 :> k1)

(* Two captures beside commands that name no status or are refused.         *)
Mixed == (c1 :> k1) @@ (c2 :> k1) @@ (c3 :> NoStatus) @@ (c4 :> Poison)

WorkerSymmetry == Permutations(Workers)
ContentSymmetry == Permutations(Contents)
LaneSymmetry == WorkerSymmetry \cup ContentSymmetry
=============================================================================

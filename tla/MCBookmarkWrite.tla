-------------------------- MODULE MCBookmarkWrite --------------------------
(***************************************************************************)
(* Instances of BookmarkWrite for TLC.                                      *)
(***************************************************************************)
EXTENDS BookmarkWrite, TLC

CONSTANTS k1, k2, k3, n1, n2

Ask(k, n, matches, live) == [key |-> k, consent |-> n, matches |-> matches, live |-> live]

(* Two keys race for one consent and two for the other, a key is reused     *)
(* with another consent and for a dry run, and one request does not match   *)
(* its consent.                                                             *)
Racing == {Ask(k1, n1, TRUE, TRUE), Ask(k2, n1, TRUE, TRUE), Ask(k2, n2, TRUE, TRUE),
           Ask(k3, n2, TRUE, TRUE), Ask(k1, n2, FALSE, TRUE), Ask(k1, n1, TRUE, FALSE)}

CallerSymmetry == Permutations(Callers)

OneRequest == {Ask(k1, n1, TRUE, TRUE)}
=============================================================================

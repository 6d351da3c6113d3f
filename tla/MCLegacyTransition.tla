------------------------- MODULE MCLegacyTransition -------------------------
(***************************************************************************)
(* Instances of LegacyTransition for TLC.                                   *)
(***************************************************************************)
EXTENDS LegacyTransition, TLC

CONSTANTS p1, p2

Words == {"old", "new"}
Days == {"day", "null"}
old == [text |-> "old", date |-> "day"]
new == [text |-> "new", date |-> "day"]
undated == [text |-> "old", date |-> "null"]

Row(key, explicit, url, says) ==
  [key |-> key, explicit |-> explicit, url |-> url, says |-> says]

(* First a record repeated, one whose ids disagree and one with none; then  *)
(* a file that says something else of the first post and knows the other    *)
(* by its address, without a date.                                          *)
TwoFiles == << <<Row(1, p1, p1, old), Row(1, p1, p1, old), Row(2, p1, p2, old),
                 Row(3, None, None, old)>>,
               <<Row(1, p1, None, new), Row(2, None, p2, undated)>> >>

(* The first post is edited; the API dates every post.                      *)
Edited == [p \in Posts |-> IF p = p1 THEN {old, new} ELSE {old}]

(* Once both reports are there, the operators only decide on them.          *)
ImportsFirst ==
  Cardinality(reports) = MaxReports =>
    \A o \in Operators : operator[o].at \in {"idle", "approve"}

Symmetry == Permutations(Operators) \cup Permutations(Evidence)
=============================================================================

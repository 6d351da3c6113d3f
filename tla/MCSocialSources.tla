-------------------------- MODULE MCSocialSources --------------------------
(***************************************************************************)
(* Instances of SocialSources for TLC.                                      *)
(***************************************************************************)
EXTENDS SocialSources, TLC

CONSTANTS a, b, u, v

(* The first content carries one article, the second the same article under *)
(* two spellings, another one, and a link to X itself.                      *)
Urls == [c \in Contents |-> IF c = a THEN {"u"} ELSE {"u", "u?utm_source", "v", "x.com"}]
Normalized == ("u" :> u) @@ ("u?utm_source" :> u) @@ ("v" :> v) @@ ("x.com" :> None)

TaskSymmetry == Permutations(Observers) \cup Permutations(Checkers)
=============================================================================

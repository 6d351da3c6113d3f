--------------------------- MODULE MCCredentials ---------------------------
(***************************************************************************)
(* Instances of Credentials for TLC.                                        *)
(***************************************************************************)
EXTENDS Credentials, TLC

TakeTurns == Cardinality({s \in Sessions : task[s] # Idle}) <= 1
Played == {i \in ReadIntents :
             \/ i \in consumed
             \/ \E s \in Sessions : task[s].at = "found" /\ task[s].intent = i}

(* An expired intent only takes callbacks away, so one that expires before  *)
(* there is a credential is enough.  Sessions take turns once a second      *)
(* token was revoked or lost, and when the second read intent, by which two *)
(* credentials come to be active, is played: then nothing fails.            *)
OneByOne ==
  /\ expired \subseteq WriteIntents /\ (expired # {} => rows = << >>)
  /\ Cardinality(spoiled) <= 1 \/ TakeTurns
  /\ Cardinality(Played) <= 1 \/ (TakeTurns /\ expired = {} /\ spoiled = {})

Symmetry == Permutations(Sessions) \cup Permutations(ReadIntents)
=============================================================================

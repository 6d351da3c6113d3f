------------------------- MODULE OperationReports -------------------------
(***************************************************************************)
(* What the explicit-capture lane promises Platform about its operations,   *)
(* as README.md ("Explicit browser-capture command") tells it: an accepted  *)
(* operation is reported queued and then, exactly once, as finished; one    *)
(* whose permalink names no status is reported failed at once.              *)
(***************************************************************************)
EXTENDS Sequences

CONSTANTS Operations, Results

VARIABLE log    \* the statuses reported for each operation, in commit order

Init == log = [o \in Operations |-> <<>>]

Report(o, before, status) ==
  /\ log[o] = before
  /\ log' = [log EXCEPT ![o] = Append(@, status)]

Accept(o) == Report(o, <<>>, "queued")
Refuse(o) == Report(o, <<>>, "inaccessible")
Finish(o) == \E r \in Results : Report(o, <<"queued">>, r)

Next == \E o \in Operations : Accept(o) \/ Refuse(o) \/ Finish(o)

(* Nothing is reported twice or out of order ...                            *)
Safety == Init /\ [][Next]_log

(* ... and a queued operation finishes.                                     *)
Spec == Safety /\ \A o \in Operations : WF_log(Finish(o))
=============================================================================
